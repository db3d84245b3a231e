--------------------------- MODULE StorageProofs ---------------------------
(***************************************************************************)
(* Theorems about Storage, for every number of organisations, connections, *)
(* configurations and concurrent requests.                                 *)
(***************************************************************************)
EXTENDS Storage, TLAPS

USE DEF AllConfigs, Statuses, Usable, Answers, Codes

-----------------------------------------------------------------------------
(* Type correctness, which is inductive by itself.                          *)

\* The record of an idle request.
LEMMA IdleType == Idle \in Requests
  BY StorageAssumption DEF Idle, Requests

\* Every step of the handlers, the monitor and the providers keeps the types.
LEMMA StorageTypeStep == StorageTypeOK /\ [StorageNext]_storageVars => StorageTypeOK'
<1> SUFFICES ASSUME StorageTypeOK, [StorageNext]_storageVars PROVE StorageTypeOK'
  OBVIOUS
<1>1. ASSUME NEW o \in Orgs, NEW c \in Conns, NEW k \in Configs,
             storageConnectionCreateHandler(o, c, k)
      PROVE  StorageTypeOK'
  BY <1>1, StorageAssumption
     DEF storageConnectionCreateHandler, Now, StorageTypeOK, connVars,
       tickVars
<1>2. ASSUME NEW o \in Orgs, googleDriveAuthorizeHandler(o)
      PROVE  StorageTypeOK'
  BY <1>2, StorageAssumption
     DEF googleDriveAuthorizeHandler, StorageTypeOK, connVars, tickVars
<1>3. ASSUME NEW o \in Orgs, OAuthStateExpires(o)
      PROVE  StorageTypeOK'
  BY <1>3, StorageAssumption
     DEF OAuthStateExpires, StorageTypeOK, connVars, tickVars
<1>4. ASSUME NEW o \in Orgs, googleDriveCallbackHandler(o)
      PROVE  StorageTypeOK'
  BY <1>4, StorageAssumption
     DEF googleDriveCallbackHandler, Now, StorageTypeOK, connVars, tickVars
<1>5. ASSUME NEW r \in Reqs, NEW o \in Orgs, NEW k \in Configs,
             UpdateSelect(r, o, k)
      PROVE  StorageTypeOK'
  <2>1. PICK c \in Latest(o) :
          req' = [req EXCEPT ![r] =
            [op |-> "update", pc |-> "locked", conn |-> c, config |-> k,
             stamp |-> 0, code |-> "none"]]
    BY <1>5 DEF UpdateSelect, Select
  <2>2. c \in Conns
    BY DEF Latest, UsableOf, Own
  <2>3. [op |-> "update", pc |-> "locked", conn |-> c, config |-> k,
         stamp |-> 0, code |-> "none"] \in Requests
    BY <2>2, StorageAssumption DEF StorageTypeOK, Requests
  <2>4. req' \in [Reqs -> Requests]
    BY <2>1, <2>3 DEF StorageTypeOK
  <2> QED
    BY <1>5, <2>4 DEF StorageTypeOK, connVars, tickVars, UpdateSelect, Select
<1>6. ASSUME NEW r \in Reqs, NEW o \in Orgs, DeleteSelect(r, o)
      PROVE  StorageTypeOK'
  <2>1. PICK c \in Latest(o) :
          req' = [req EXCEPT ![r] =
            [op |-> "delete", pc |-> "locked", conn |-> c, config |-> NoConfig,
             stamp |-> 0, code |-> "none"]]
    BY <1>6 DEF DeleteSelect, Select
  <2>2. c \in Conns
    BY DEF Latest, UsableOf, Own
  <2>3. [op |-> "delete", pc |-> "locked", conn |-> c, config |-> NoConfig,
         stamp |-> 0, code |-> "none"] \in Requests
    BY <2>2, StorageAssumption DEF StorageTypeOK, Requests
  <2>4. req' \in [Reqs -> Requests]
    BY <2>1, <2>3 DEF StorageTypeOK
  <2> QED
    BY <1>6, <2>4 DEF StorageTypeOK, connVars, tickVars, DeleteSelect, Select
<1>7. ASSUME NEW r \in Reqs, NEW o \in Orgs, storageConnectionTestHandler(r, o)
      PROVE  StorageTypeOK'
  <2>1. PICK c \in Latest(o) :
          req' = [req EXCEPT ![r] =
            [op |-> "test", pc |-> "testing", conn |-> c, config |-> config[c],
             stamp |-> stamp[c], code |-> "none"]]
    BY <1>7 DEF storageConnectionTestHandler
  <2>2. c \in Conns
    BY DEF Latest, UsableOf, Own
  <2>3. [op |-> "test", pc |-> "testing", conn |-> c, config |-> config[c],
         stamp |-> stamp[c], code |-> "none"] \in Requests
    BY <2>2, StorageAssumption DEF StorageTypeOK, Requests
  <2>4. req' \in [Reqs -> Requests]
    BY <2>1, <2>3 DEF StorageTypeOK
  <2> QED
    BY <1>7, <2>4 DEF StorageTypeOK, connVars, tickVars, storageConnectionTestHandler
<1>8. ASSUME NEW r \in Reqs, storageConnectionUpdateHandler(r)
      PROVE  StorageTypeOK'
  <2>1. req' \in [Reqs -> Requests]
    BY <1>8, IdleType DEF storageConnectionUpdateHandler, StorageTypeOK
  <2>2. clock' \in 0..MaxClock
    BY <1>8, StorageAssumption DEF storageConnectionUpdateHandler, Now, StorageTypeOK
  <2>3. req[r].config \in AllConfigs
    BY DEF StorageTypeOK, Requests
  <2> QED
    BY <1>8, <2>1, <2>2, <2>3
       DEF storageConnectionUpdateHandler, StorageTypeOK, connVars, tickVars
<1>9. ASSUME NEW r \in Reqs, storageConnectionDeleteHandler(r)
      PROVE  StorageTypeOK'
  <2>1. req' \in [Reqs -> Requests]
    BY <1>9, IdleType DEF storageConnectionDeleteHandler, StorageTypeOK
  <2>2. clock' \in 0..MaxClock
    BY <1>9, StorageAssumption DEF storageConnectionDeleteHandler, Now, StorageTypeOK
  <2>3. req[r].config \in AllConfigs
    BY DEF StorageTypeOK, Requests
  <2> QED
    BY <1>9, <2>1, <2>2, <2>3
       DEF storageConnectionDeleteHandler, StorageTypeOK, connVars, tickVars
<1>10. ASSUME NEW r \in Reqs, testEncryptedHandler(r)
      PROVE  StorageTypeOK'
  BY <1>10, StorageAssumption
     DEF testEncryptedHandler, Moved, StorageTypeOK, connVars, tickVars,
       Requests, CodeOf
<1>11. ASSUME NEW r \in Reqs, TestVerify(r)
      PROVE  StorageTypeOK'
  BY <1>11, StorageAssumption
     DEF TestVerify, Moved, Idle, StorageTypeOK, connVars, tickVars, Requests
<1>12. ASSUME NEW r \in Reqs, TestRecord(r)
      PROVE  StorageTypeOK'
  <2>1. req' \in [Reqs -> Requests]
    BY <1>12, IdleType DEF TestRecord, StorageTypeOK
  <2>2. clock' \in 0..MaxClock
    BY <1>12, StorageAssumption DEF TestRecord, Now, StorageTypeOK
  <2>3. req[r].config \in AllConfigs
    BY DEF StorageTypeOK, Requests
  <2> QED
    BY <1>12, <2>1, <2>2, <2>3
       DEF TestRecord, StorageTypeOK, connVars, tickVars, StatusFor
<1>13. ASSUME NEW r \in Reqs, RequestLost(r)
      PROVE  StorageTypeOK'
  BY <1>13, StorageAssumption
     DEF RequestLost, Idle, StorageTypeOK, connVars, tickVars, Requests
<1>14. ASSUME runStorageHealthCheck
      PROVE  StorageTypeOK'
  BY <1>14, StorageAssumption
     DEF runStorageHealthCheck, StorageTypeOK, connVars, tickVars, Checks
<1>15. ASSUME NEW x \in tick, testEncryptedStorage(x)
      PROVE  StorageTypeOK'
  BY <1>15, StorageAssumption
     DEF testEncryptedStorage, StorageTypeOK, connVars, tickVars, Checks,
       Verdicts, CodeOf
<1>16. ASSUME NEW v \in verdict, MonitorRecord(v)
      PROVE  StorageTypeOK'
  BY <1>16, StorageAssumption
     DEF MonitorRecord, Record, StorageTypeOK, connVars, tickVars, Verdicts,
       StatusFor
<1>17. ASSUME TickLost
      PROVE  StorageTypeOK'
  BY <1>17, StorageAssumption
     DEF TickLost, StorageTypeOK, connVars, tickVars
<1>18. ASSUME NEW k \in Configs \cup {Drive}, NEW a \in Answers,
             ProviderChanges(k, a)
      PROVE  StorageTypeOK'
  BY <1>18, StorageAssumption
     DEF ProviderChanges, StorageTypeOK, connVars, tickVars
<1>19. CASE UNCHANGED storageVars
  BY <1>19
     DEF storageVars, StorageTypeOK, connVars, tickVars
<1> QED
  BY <1>1, <1>2, <1>3, <1>4, <1>5, <1>6, <1>7, <1>8, <1>9, <1>10, <1>11,
     <1>12, <1>13, <1>14, <1>15, <1>16, <1>17, <1>18, <1>19
     DEF StorageNext, HandlerStep, MonitorStep

\* Storage is type correct; no write leaves the statuses of the CHECK
\* constraint and no authorisation state is used twice.
THEOREM StorageTypeCorrect == StorageSpec => []StorageTypeOK
<1>1. StorageInit => StorageTypeOK
  BY StorageAssumption, IdleType DEF StorageInit, StorageTypeOK
<1> QED
  BY <1>1, StorageTypeStep, PTL DEF StorageSpec

-----------------------------------------------------------------------------
(* What a request in progress knows: the organisation's lock is exclusive,  *)
(* a row selected under it is not deleted, and a row a test has read is not *)
(* deleted as long as its updated_at is the same.                           *)

Live == {"pending", "active", "error"}
StampsPast == \A c \in Conns : stamp[c] <= clock
Tombstones == \A c \in Conns : status[c] = "deleted" => config[c] = NoConfig
LockInv ==
  \A r, s \in Reqs :
    /\ req[r].pc = "locked" /\ req[s].pc = "locked"
    /\ OrgOf[req[r].conn] = OrgOf[req[s].conn]
    => r = s
ReqInv ==
  \A r \in Reqs :
    /\ req[r].pc # "idle" => req[r].conn \in Conns /\ req[r].stamp <= clock
    /\ req[r].pc \in {"testing", "answered"} =>
         /\ req[r].op = "test"
         /\ stamp[req[r].conn] = req[r].stamp => status[req[r].conn] \in Live
    /\ req[r].pc = "locked" => status[req[r].conn] \in Live
ConnInv == StampsPast /\ Tombstones /\ LockInv /\ ReqInv

\* Every step keeps what the requests know.
LEMMA ConnStep ==
  StorageTypeOK /\ ConnInv /\ [StorageNext]_storageVars => ConnInv'
<1> SUFFICES ASSUME StorageTypeOK, ConnInv, [StorageNext]_storageVars PROVE ConnInv'
  OBVIOUS
<1>1. ASSUME NEW o \in Orgs, NEW c \in Conns, NEW k \in Configs,
             storageConnectionCreateHandler(o, c, k)
      PROVE  ConnInv'
  <2>1. clock' = clock + 1 /\ clock \in Nat
    BY <1>1, StorageAssumption DEF storageConnectionCreateHandler, Now, StorageTypeOK
  <2>2. \A d \in Conns : stamp[d] \in Nat /\ stamp[d] <= clock
    BY StorageAssumption DEF StorageTypeOK, ConnInv, StampsPast
  <2>3. req' = req /\ OrgOf[c] = o
    BY <1>1 DEF storageConnectionCreateHandler, StorageTypeOK, Own
  <2>4. StampsPast'
    BY <1>1, <2>1, <2>2 DEF storageConnectionCreateHandler, StorageTypeOK, StampsPast
  <2>5. Tombstones'
    BY <1>1, StorageAssumption
       DEF storageConnectionCreateHandler, StorageTypeOK, ConnInv, Tombstones, Live, ReqInv,
           Holding, StatusFor
  <2>6. LockInv'
    BY <1>1, <2>3 DEF storageConnectionCreateHandler, ConnInv, LockInv, Idle, connVars, tickVars
  <2>7. ASSUME NEW s \in Reqs
        PROVE  /\ req'[s].pc # "idle" =>
                    req'[s].conn \in Conns /\ req'[s].stamp <= clock'
               /\ req'[s].pc \in {"testing", "answered"} =>
                    /\ req'[s].op = "test"
                    /\ stamp'[req'[s].conn] = req'[s].stamp =>
                         status'[req'[s].conn] \in Live
               /\ req'[s].pc = "locked" => status'[req'[s].conn] \in Live
    <3>1. req[s].stamp \in Nat
      BY DEF StorageTypeOK, Requests
    <3> QED
      BY <1>1, <2>1, <2>2, <2>3, <3>1
         DEF storageConnectionCreateHandler, StorageTypeOK, ConnInv, ReqInv, LockInv, Live, Idle,
             Holding, StatusFor
  <2>8. ReqInv'
    BY <2>7 DEF ReqInv
  <2> QED
    BY <2>4, <2>5, <2>6, <2>8 DEF ConnInv
<1>2. ASSUME NEW o \in Orgs, googleDriveAuthorizeHandler(o)
      PROVE  ConnInv'
  BY <1>2, StorageAssumption
     DEF googleDriveAuthorizeHandler, ConnInv, StampsPast, Tombstones,
       LockInv, ReqInv, Live, connVars, tickVars, StorageTypeOK
<1>3. ASSUME NEW o \in Orgs, OAuthStateExpires(o)
      PROVE  ConnInv'
  BY <1>3, StorageAssumption
     DEF OAuthStateExpires, ConnInv, StampsPast, Tombstones, LockInv, ReqInv,
       Live, connVars, tickVars, StorageTypeOK
<1>4. ASSUME NEW o \in Orgs, googleDriveCallbackHandler(o)
      PROVE  ConnInv'
  <2>1. clock' = clock + 1 /\ clock \in Nat
    BY <1>4, StorageAssumption DEF googleDriveCallbackHandler, Now, StorageTypeOK
  <2>2. \A d \in Conns : stamp[d] \in Nat /\ stamp[d] <= clock
    BY StorageAssumption DEF StorageTypeOK, ConnInv, StampsPast
  <2>3. req' = req
    BY <1>4 DEF googleDriveCallbackHandler, StorageTypeOK
  <2>4. StampsPast'
    BY <1>4, <2>1, <2>2 DEF googleDriveCallbackHandler, StorageTypeOK, StampsPast
  <2>5. Tombstones'
    BY <1>4, StorageAssumption
       DEF googleDriveCallbackHandler, StorageTypeOK, ConnInv, Tombstones, Live, ReqInv,
           Holding, StatusFor
  <2>6. LockInv'
    BY <1>4, <2>3 DEF googleDriveCallbackHandler, ConnInv, LockInv, Idle, connVars, tickVars
  <2>7. ASSUME NEW s \in Reqs
        PROVE  /\ req'[s].pc # "idle" =>
                    req'[s].conn \in Conns /\ req'[s].stamp <= clock'
               /\ req'[s].pc \in {"testing", "answered"} =>
                    /\ req'[s].op = "test"
                    /\ stamp'[req'[s].conn] = req'[s].stamp =>
                         status'[req'[s].conn] \in Live
               /\ req'[s].pc = "locked" => status'[req'[s].conn] \in Live
    <3>1. req[s].stamp \in Nat
      BY DEF StorageTypeOK, Requests
    <3> QED
      BY <1>4, <2>1, <2>2, <2>3, <3>1
         DEF googleDriveCallbackHandler, StorageTypeOK, ConnInv, ReqInv, LockInv, Live, Idle,
             Holding, StatusFor
  <2>8. ReqInv'
    BY <2>7 DEF ReqInv
  <2> QED
    BY <2>4, <2>5, <2>6, <2>8 DEF ConnInv
<1>5. ASSUME NEW r \in Reqs, NEW o \in Orgs, NEW k \in Configs,
             UpdateSelect(r, o, k)
      PROVE  ConnInv'
  BY <1>5, StorageAssumption
     DEF UpdateSelect, Select, ConnInv, StampsPast, Tombstones, LockInv,
       ReqInv, Live, connVars, tickVars, StorageTypeOK, OrgLocked, Latest,
       UsableOf, Own
<1>6. ASSUME NEW r \in Reqs, NEW o \in Orgs, DeleteSelect(r, o)
      PROVE  ConnInv'
  BY <1>6, StorageAssumption
     DEF DeleteSelect, Select, ConnInv, StampsPast, Tombstones, LockInv,
       ReqInv, Live, connVars, tickVars, StorageTypeOK, OrgLocked, Latest,
       UsableOf, Own
<1>7. ASSUME NEW r \in Reqs, NEW o \in Orgs, storageConnectionTestHandler(r, o)
      PROVE  ConnInv'
  BY <1>7, StorageAssumption
     DEF storageConnectionTestHandler, ConnInv, StampsPast, Tombstones,
       LockInv, ReqInv, Live, connVars, tickVars, StorageTypeOK, Latest,
       UsableOf, Own
<1>8. ASSUME NEW r \in Reqs, storageConnectionUpdateHandler(r)
      PROVE  ConnInv'
  <2>1. clock' = clock + 1 /\ clock \in Nat
    BY <1>8, StorageAssumption DEF storageConnectionUpdateHandler, Now, StorageTypeOK
  <2>2. \A d \in Conns : stamp[d] \in Nat /\ stamp[d] <= clock
    BY StorageAssumption DEF StorageTypeOK, ConnInv, StampsPast
  <2>3. req'[r] = Idle /\ \A s \in Reqs \ {r} : req'[s] = req[s]
    BY <1>8 DEF storageConnectionUpdateHandler, StorageTypeOK
  <2>4. StampsPast'
    BY <1>8, <2>1, <2>2 DEF storageConnectionUpdateHandler, StorageTypeOK, StampsPast
  <2>5. Tombstones'
    BY <1>8, StorageAssumption
       DEF storageConnectionUpdateHandler, StorageTypeOK, ConnInv, Tombstones, Live, ReqInv,
           Holding, StatusFor
  <2>6. LockInv'
    BY <1>8, <2>3 DEF storageConnectionUpdateHandler, ConnInv, LockInv, Idle, connVars, tickVars
  <2>7. ASSUME NEW s \in Reqs
        PROVE  /\ req'[s].pc # "idle" =>
                    req'[s].conn \in Conns /\ req'[s].stamp <= clock'
               /\ req'[s].pc \in {"testing", "answered"} =>
                    /\ req'[s].op = "test"
                    /\ stamp'[req'[s].conn] = req'[s].stamp =>
                         status'[req'[s].conn] \in Live
               /\ req'[s].pc = "locked" => status'[req'[s].conn] \in Live
    <3>1. req[s].stamp \in Nat
      BY DEF StorageTypeOK, Requests
    <3> QED
      BY <1>8, <2>1, <2>2, <2>3, <3>1
         DEF storageConnectionUpdateHandler, StorageTypeOK, ConnInv, ReqInv, LockInv, Live, Idle,
             Holding, StatusFor
  <2>8. ReqInv'
    BY <2>7 DEF ReqInv
  <2> QED
    BY <2>4, <2>5, <2>6, <2>8 DEF ConnInv
<1>9. ASSUME NEW r \in Reqs, storageConnectionDeleteHandler(r)
      PROVE  ConnInv'
  <2>1. clock' = clock + 1 /\ clock \in Nat
    BY <1>9, StorageAssumption DEF storageConnectionDeleteHandler, Now, StorageTypeOK
  <2>2. \A d \in Conns : stamp[d] \in Nat /\ stamp[d] <= clock
    BY StorageAssumption DEF StorageTypeOK, ConnInv, StampsPast
  <2>3. req'[r] = Idle /\ \A s \in Reqs \ {r} : req'[s] = req[s]
    BY <1>9 DEF storageConnectionDeleteHandler, StorageTypeOK
  <2>4. StampsPast'
    BY <1>9, <2>1, <2>2 DEF storageConnectionDeleteHandler, StorageTypeOK, StampsPast
  <2>5. Tombstones'
    BY <1>9, StorageAssumption
       DEF storageConnectionDeleteHandler, StorageTypeOK, ConnInv, Tombstones, Live, ReqInv,
           Holding, StatusFor
  <2>6. LockInv'
    BY <1>9, <2>3 DEF storageConnectionDeleteHandler, ConnInv, LockInv, Idle, connVars, tickVars
  <2>7. ASSUME NEW s \in Reqs
        PROVE  /\ req'[s].pc # "idle" =>
                    req'[s].conn \in Conns /\ req'[s].stamp <= clock'
               /\ req'[s].pc \in {"testing", "answered"} =>
                    /\ req'[s].op = "test"
                    /\ stamp'[req'[s].conn] = req'[s].stamp =>
                         status'[req'[s].conn] \in Live
               /\ req'[s].pc = "locked" => status'[req'[s].conn] \in Live
    <3>1. req[s].stamp \in Nat
      BY DEF StorageTypeOK, Requests
    <3> QED
      BY <1>9, <2>1, <2>2, <2>3, <3>1
         DEF storageConnectionDeleteHandler, StorageTypeOK, ConnInv, ReqInv, LockInv, Live, Idle,
             Holding, StatusFor
  <2>8. ReqInv'
    BY <2>7 DEF ReqInv
  <2> QED
    BY <2>4, <2>5, <2>6, <2>8 DEF ConnInv
<1>10. ASSUME NEW r \in Reqs, testEncryptedHandler(r)
      PROVE  ConnInv'
  BY <1>10, StorageAssumption
     DEF testEncryptedHandler, Moved, ConnInv, StampsPast, Tombstones,
       LockInv, ReqInv, Live, connVars, tickVars, StorageTypeOK
<1>11. ASSUME NEW r \in Reqs, TestVerify(r)
      PROVE  ConnInv'
  BY <1>11, StorageAssumption
     DEF TestVerify, Moved, Idle, ConnInv, StampsPast, Tombstones, LockInv,
       ReqInv, Live, connVars, tickVars, StorageTypeOK, OrgLocked
<1>12. ASSUME NEW r \in Reqs, TestRecord(r)
      PROVE  ConnInv'
  <2>1. clock' = clock + 1 /\ clock \in Nat
    BY <1>12, StorageAssumption DEF TestRecord, Now, StorageTypeOK
  <2>2. \A d \in Conns : stamp[d] \in Nat /\ stamp[d] <= clock
    BY StorageAssumption DEF StorageTypeOK, ConnInv, StampsPast
  <2>3. req'[r] = Idle /\ \A s \in Reqs \ {r} : req'[s] = req[s]
    BY <1>12 DEF TestRecord, StorageTypeOK
  <2>4. StampsPast'
    BY <1>12, <2>1, <2>2 DEF TestRecord, StorageTypeOK, StampsPast
  <2>5. Tombstones'
    BY <1>12, StorageAssumption
       DEF TestRecord, StorageTypeOK, ConnInv, Tombstones, Live, ReqInv,
           Holding, StatusFor
  <2>6. LockInv'
    BY <1>12, <2>3 DEF TestRecord, ConnInv, LockInv, Idle, connVars, tickVars
  <2>7. ASSUME NEW s \in Reqs
        PROVE  /\ req'[s].pc # "idle" =>
                    req'[s].conn \in Conns /\ req'[s].stamp <= clock'
               /\ req'[s].pc \in {"testing", "answered"} =>
                    /\ req'[s].op = "test"
                    /\ stamp'[req'[s].conn] = req'[s].stamp =>
                         status'[req'[s].conn] \in Live
               /\ req'[s].pc = "locked" => status'[req'[s].conn] \in Live
    <3>1. req[s].stamp \in Nat
      BY DEF StorageTypeOK, Requests
    <3> QED
      BY <1>12, <2>1, <2>2, <2>3, <3>1
         DEF TestRecord, StorageTypeOK, ConnInv, ReqInv, LockInv, Live, Idle,
             Holding, StatusFor
  <2>8. ReqInv'
    BY <2>7 DEF ReqInv
  <2> QED
    BY <2>4, <2>5, <2>6, <2>8 DEF ConnInv
<1>13. ASSUME NEW r \in Reqs, RequestLost(r)
      PROVE  ConnInv'
  BY <1>13, StorageAssumption
     DEF RequestLost, Idle, ConnInv, StampsPast, Tombstones, LockInv, ReqInv,
       Live, connVars, tickVars, StorageTypeOK
<1>14. ASSUME runStorageHealthCheck
      PROVE  ConnInv'
  BY <1>14, StorageAssumption
     DEF runStorageHealthCheck, ConnInv, StampsPast, Tombstones, LockInv,
       ReqInv, Live, connVars, tickVars, StorageTypeOK
<1>15. ASSUME NEW x \in tick, testEncryptedStorage(x)
      PROVE  ConnInv'
  BY <1>15, StorageAssumption
     DEF testEncryptedStorage, ConnInv, StampsPast, Tombstones, LockInv,
       ReqInv, Live, connVars, tickVars, StorageTypeOK
<1>16. ASSUME NEW v \in verdict, MonitorRecord(v)
      PROVE  ConnInv'
  BY <1>16, StorageAssumption
     DEF MonitorRecord, Record, ConnInv, StampsPast, Tombstones, LockInv,
       ReqInv, Live, connVars, tickVars, StorageTypeOK, StatusFor
<1>17. ASSUME TickLost
      PROVE  ConnInv'
  BY <1>17, StorageAssumption
     DEF TickLost, ConnInv, StampsPast, Tombstones, LockInv, ReqInv, Live,
       connVars, tickVars, StorageTypeOK
<1>18. ASSUME NEW k \in Configs \cup {Drive}, NEW a \in Answers,
             ProviderChanges(k, a)
      PROVE  ConnInv'
  BY <1>18, StorageAssumption
     DEF ProviderChanges, ConnInv, StampsPast, Tombstones, LockInv, ReqInv,
       Live, connVars, tickVars, StorageTypeOK
<1>19. CASE UNCHANGED storageVars
  BY <1>19
     DEF storageVars, ConnInv, StampsPast, Tombstones, LockInv, ReqInv, Live,
       connVars, tickVars, StorageTypeOK
<1> QED
  BY <1>1, <1>2, <1>3, <1>4, <1>5, <1>6, <1>7, <1>8, <1>9, <1>10, <1>11,
     <1>12, <1>13, <1>14, <1>15, <1>16, <1>17, <1>18, <1>19
     DEF StorageNext, HandlerStep, MonitorStep

\* The connection invariant holds in every reachable state of the connection
\* table, its requests and the monitor's ticks.
LEMMA ConnAlways == StorageSpec => [](StorageTypeOK /\ ConnInv)
<1>1. StorageInit => StorageTypeOK /\ ConnInv
  <2>1. StorageInit => StorageTypeOK
    BY StorageAssumption, IdleType DEF StorageInit, StorageTypeOK
  <2>2. StorageInit => ConnInv
    BY DEF StorageInit, ConnInv, StampsPast, Tombstones, LockInv, ReqInv, Idle
  <2> QED
    BY <2>1, <2>2
<1> QED
  BY <1>1, StorageTypeStep, ConnStep, PTL DEF StorageSpec

\* No step revives a deleted connection.
LEMMA DeletedStep ==
  StorageTypeOK /\ ConnInv /\ [StorageNext]_storageVars =>
    [\A c \in Conns : status[c] = "deleted" =>
       status'[c] = "deleted" /\ config'[c] = NoConfig]_storageVars
<1> DEFINE Kept == \A c \in Conns : status[c] = "deleted" =>
                     status'[c] = "deleted" /\ config'[c] = NoConfig
<1> SUFFICES ASSUME StorageTypeOK, ConnInv, StorageNext PROVE Kept
  OBVIOUS
<1> USE DEF ConnInv, Tombstones
<1>1. ASSUME NEW o \in Orgs, NEW c \in Conns, NEW k \in Configs,
             storageConnectionCreateHandler(o, c, k)
      PROVE  Kept
  BY <1>1
     DEF storageConnectionCreateHandler, Now, StorageTypeOK, connVars,
       tickVars
<1>2. ASSUME NEW o \in Orgs, googleDriveAuthorizeHandler(o)
      PROVE  Kept
  BY <1>2
     DEF googleDriveAuthorizeHandler, StorageTypeOK, connVars, tickVars
<1>3. ASSUME NEW o \in Orgs, OAuthStateExpires(o)
      PROVE  Kept
  BY <1>3
     DEF OAuthStateExpires, StorageTypeOK, connVars, tickVars
<1>4. ASSUME NEW o \in Orgs, googleDriveCallbackHandler(o)
      PROVE  Kept
  BY <1>4
     DEF googleDriveCallbackHandler, Now, StorageTypeOK, connVars, tickVars
<1>5. ASSUME NEW r \in Reqs, NEW o \in Orgs, NEW k \in Configs,
             UpdateSelect(r, o, k)
      PROVE  Kept
  BY <1>5
     DEF UpdateSelect, Select, StorageTypeOK, connVars, tickVars
<1>6. ASSUME NEW r \in Reqs, NEW o \in Orgs, DeleteSelect(r, o)
      PROVE  Kept
  BY <1>6
     DEF DeleteSelect, Select, StorageTypeOK, connVars, tickVars
<1>7. ASSUME NEW r \in Reqs, NEW o \in Orgs, storageConnectionTestHandler(r, o)
      PROVE  Kept
  BY <1>7
     DEF storageConnectionTestHandler, StorageTypeOK, connVars, tickVars
<1>8. ASSUME NEW r \in Reqs, storageConnectionUpdateHandler(r)
      PROVE  Kept
  BY <1>8
     DEF storageConnectionUpdateHandler, Holding, Now, Idle, StorageTypeOK,
       connVars, tickVars, ReqInv, Live
<1>9. ASSUME NEW r \in Reqs, storageConnectionDeleteHandler(r)
      PROVE  Kept
  BY <1>9
     DEF storageConnectionDeleteHandler, Holding, Now, Idle, StorageTypeOK,
       connVars, tickVars, ReqInv, Live
<1>10. ASSUME NEW r \in Reqs, testEncryptedHandler(r)
      PROVE  Kept
  BY <1>10
     DEF testEncryptedHandler, Moved, StorageTypeOK, connVars, tickVars
<1>11. ASSUME NEW r \in Reqs, TestVerify(r)
      PROVE  Kept
  BY <1>11
     DEF TestVerify, Moved, Idle, StorageTypeOK, connVars, tickVars
<1>12. ASSUME NEW r \in Reqs, TestRecord(r)
      PROVE  Kept
  BY <1>12
     DEF TestRecord, Holding, Now, Idle, StorageTypeOK, connVars, tickVars,
       ReqInv, Live
<1>13. ASSUME NEW r \in Reqs, RequestLost(r)
      PROVE  Kept
  BY <1>13
     DEF RequestLost, Idle, StorageTypeOK, connVars, tickVars
<1>14. ASSUME runStorageHealthCheck
      PROVE  Kept
  BY <1>14
     DEF runStorageHealthCheck, StorageTypeOK, connVars, tickVars
<1>15. ASSUME NEW x \in tick, testEncryptedStorage(x)
      PROVE  Kept
  BY <1>15
     DEF testEncryptedStorage, StorageTypeOK, connVars, tickVars
<1>16. ASSUME NEW v \in verdict, MonitorRecord(v)
      PROVE  Kept
  BY <1>16
     DEF MonitorRecord, Record, StorageTypeOK, connVars, tickVars
<1>17. ASSUME TickLost
      PROVE  Kept
  BY <1>17
     DEF TickLost, StorageTypeOK, connVars, tickVars
<1>18. ASSUME NEW k \in Configs \cup {Drive}, NEW a \in Answers,
             ProviderChanges(k, a)
      PROVE  Kept
  BY <1>18
     DEF ProviderChanges, StorageTypeOK, connVars, tickVars
<1> QED
  BY <1>1, <1>2, <1>3, <1>4, <1>5, <1>6, <1>7, <1>8, <1>9, <1>10, <1>11,
     <1>12, <1>13, <1>14, <1>15, <1>16, <1>17, <1>18
     DEF StorageNext, HandlerStep, MonitorStep

\* A deleted connection stays deleted, for any number of organisations and
\* requests, with Google Drive or without.
THEOREM DisconnectIsFinal == StorageSpec => DeletedForGood
  BY ConnAlways, DeletedStep, PTL DEF StorageSpec, DeletedForGood

-----------------------------------------------------------------------------
(* A test result is recorded for the configuration it was obtained with:    *)
(* updated_at is a version number of the configuration, and all who write   *)
(* one hold the lock, but for the Google callback, which leaves its rows    *)
(* pending.                                                                 *)

CurrentInv ==
  /\ \A r \in Reqs :
       /\ req[r].pc \in {"testing", "answered"}
       /\ stamp[req[r].conn] = req[r].stamp
       => config[req[r].conn] = req[r].config
  /\ TestedIsCurrent

\* Every step keeps updated_at a version number.
LEMMA CurrentStep ==
  StorageTypeOK /\ ConnInv /\ CurrentInv /\ [StorageNext]_storageVars => CurrentInv'
<1> SUFFICES ASSUME StorageTypeOK, ConnInv, CurrentInv, [StorageNext]_storageVars
             PROVE  CurrentInv'
  OBVIOUS
<1>1. ASSUME NEW o \in Orgs, NEW c \in Conns, NEW k \in Configs,
             storageConnectionCreateHandler(o, c, k)
      PROVE  CurrentInv'
  <2>1. clock' = clock + 1 /\ clock \in Nat
    BY <1>1, StorageAssumption DEF storageConnectionCreateHandler, Now, StorageTypeOK
  <2>2. req' = req /\ OrgOf[c] = o
    BY <1>1 DEF storageConnectionCreateHandler, StorageTypeOK, Own
  <2>3. ASSUME NEW s \in Reqs
        PROVE  /\ /\ req'[s].pc \in {"testing", "answered"}
                  /\ stamp'[req'[s].conn] = req'[s].stamp
                  => config'[req'[s].conn] = req'[s].config
               /\ /\ req'[s].pc = "locked" /\ req'[s].op = "test"
                  /\ status'[req'[s].conn] # "pending"
                  => config'[req'[s].conn] = req'[s].config
    <3>1. req[s].stamp \in Nat
      BY DEF StorageTypeOK, Requests
    <3> QED
      BY <1>1, <2>1, <2>2, <3>1
         DEF storageConnectionCreateHandler, StorageTypeOK, ConnInv, ReqInv, LockInv, CurrentInv,
             TestedIsCurrent, Holding, Idle, OrgLocked
  <2> QED
    BY <2>3 DEF CurrentInv, TestedIsCurrent, Holding
<1>2. ASSUME NEW o \in Orgs, googleDriveAuthorizeHandler(o)
      PROVE  CurrentInv'
  BY <1>2
     DEF googleDriveAuthorizeHandler, CurrentInv, TestedIsCurrent, Holding,
       ConnInv, ReqInv, StorageTypeOK, connVars, tickVars
<1>3. ASSUME NEW o \in Orgs, OAuthStateExpires(o)
      PROVE  CurrentInv'
  BY <1>3
     DEF OAuthStateExpires, CurrentInv, TestedIsCurrent, Holding, ConnInv,
       ReqInv, StorageTypeOK, connVars, tickVars
<1>4. ASSUME NEW o \in Orgs, googleDriveCallbackHandler(o)
      PROVE  CurrentInv'
  <2>1. clock' = clock + 1 /\ clock \in Nat
    BY <1>4, StorageAssumption DEF googleDriveCallbackHandler, Now, StorageTypeOK
  <2>2. req' = req
    BY <1>4 DEF googleDriveCallbackHandler
  <2>3. PICK new \in SUBSET Conns :
          /\ status' = [c \in Conns |-> IF c \in new THEN "pending" ELSE status[c]]
          /\ config' = [c \in Conns |-> IF c \in new THEN Drive ELSE config[c]]
          /\ stamp' = [c \in Conns |-> IF c \in new THEN clock' ELSE stamp[c]]
    BY <1>4 DEF googleDriveCallbackHandler, Own
  <2>4. ASSUME NEW s \in Reqs
        PROVE  /\ /\ req'[s].pc \in {"testing", "answered"}
                  /\ stamp'[req'[s].conn] = req'[s].stamp
                  => config'[req'[s].conn] = req'[s].config
               /\ /\ req'[s].pc = "locked" /\ req'[s].op = "test"
                  /\ status'[req'[s].conn] # "pending"
                  => config'[req'[s].conn] = req'[s].config
    <3>1. req[s].stamp \in Nat
      BY DEF StorageTypeOK, Requests
    <3> QED
      BY <2>1, <2>2, <2>3, <3>1
         DEF StorageTypeOK, ConnInv, ReqInv, CurrentInv, TestedIsCurrent, Holding
  <2> QED
    BY <2>4 DEF CurrentInv, TestedIsCurrent, Holding
<1>5. ASSUME NEW r \in Reqs, NEW o \in Orgs, NEW k \in Configs,
             UpdateSelect(r, o, k)
      PROVE  CurrentInv'
  BY <1>5
     DEF UpdateSelect, Select, CurrentInv, TestedIsCurrent, Holding, ConnInv,
       ReqInv, StorageTypeOK, connVars, tickVars, Latest, UsableOf, Own
<1>6. ASSUME NEW r \in Reqs, NEW o \in Orgs, DeleteSelect(r, o)
      PROVE  CurrentInv'
  BY <1>6
     DEF DeleteSelect, Select, CurrentInv, TestedIsCurrent, Holding, ConnInv,
       ReqInv, StorageTypeOK, connVars, tickVars, Latest, UsableOf, Own
<1>7. ASSUME NEW r \in Reqs, NEW o \in Orgs, storageConnectionTestHandler(r, o)
      PROVE  CurrentInv'
  BY <1>7
     DEF storageConnectionTestHandler, CurrentInv, TestedIsCurrent, Holding,
       ConnInv, ReqInv, StorageTypeOK, connVars, tickVars, Latest, UsableOf,
       Own
<1>8. ASSUME NEW r \in Reqs, storageConnectionUpdateHandler(r)
      PROVE  CurrentInv'
  <2>1. clock' = clock + 1 /\ clock \in Nat
    BY <1>8, StorageAssumption DEF storageConnectionUpdateHandler, Now, StorageTypeOK
  <2>2. req'[r] = Idle /\ \A s \in Reqs \ {r} : req'[s] = req[s]
    BY <1>8 DEF storageConnectionUpdateHandler, StorageTypeOK
  <2>3. ASSUME NEW s \in Reqs
        PROVE  /\ /\ req'[s].pc \in {"testing", "answered"}
                  /\ stamp'[req'[s].conn] = req'[s].stamp
                  => config'[req'[s].conn] = req'[s].config
               /\ /\ req'[s].pc = "locked" /\ req'[s].op = "test"
                  /\ status'[req'[s].conn] # "pending"
                  => config'[req'[s].conn] = req'[s].config
    <3>1. req[s].stamp \in Nat
      BY DEF StorageTypeOK, Requests
    <3> QED
      BY <1>8, <2>1, <2>2, <3>1
         DEF storageConnectionUpdateHandler, StorageTypeOK, ConnInv, ReqInv, LockInv, CurrentInv,
             TestedIsCurrent, Holding, Idle
  <2> QED
    BY <2>3 DEF CurrentInv, TestedIsCurrent, Holding
<1>9. ASSUME NEW r \in Reqs, storageConnectionDeleteHandler(r)
      PROVE  CurrentInv'
  <2>1. clock' = clock + 1 /\ clock \in Nat
    BY <1>9, StorageAssumption DEF storageConnectionDeleteHandler, Now, StorageTypeOK
  <2>2. req'[r] = Idle /\ \A s \in Reqs \ {r} : req'[s] = req[s]
    BY <1>9 DEF storageConnectionDeleteHandler, StorageTypeOK
  <2>3. ASSUME NEW s \in Reqs
        PROVE  /\ /\ req'[s].pc \in {"testing", "answered"}
                  /\ stamp'[req'[s].conn] = req'[s].stamp
                  => config'[req'[s].conn] = req'[s].config
               /\ /\ req'[s].pc = "locked" /\ req'[s].op = "test"
                  /\ status'[req'[s].conn] # "pending"
                  => config'[req'[s].conn] = req'[s].config
    <3>1. req[s].stamp \in Nat
      BY DEF StorageTypeOK, Requests
    <3> QED
      BY <1>9, <2>1, <2>2, <3>1
         DEF storageConnectionDeleteHandler, StorageTypeOK, ConnInv, ReqInv, LockInv, CurrentInv,
             TestedIsCurrent, Holding, Idle
  <2> QED
    BY <2>3 DEF CurrentInv, TestedIsCurrent, Holding
<1>10. ASSUME NEW r \in Reqs, testEncryptedHandler(r)
      PROVE  CurrentInv'
  BY <1>10
     DEF testEncryptedHandler, Moved, CurrentInv, TestedIsCurrent, Holding,
       ConnInv, ReqInv, StorageTypeOK, connVars, tickVars
<1>11. ASSUME NEW r \in Reqs, TestVerify(r)
      PROVE  CurrentInv'
  BY <1>11
     DEF TestVerify, Moved, Idle, CurrentInv, TestedIsCurrent, Holding,
       ConnInv, ReqInv, StorageTypeOK, connVars, tickVars
<1>12. ASSUME NEW r \in Reqs, TestRecord(r)
      PROVE  CurrentInv'
  <2>1. clock' = clock + 1 /\ clock \in Nat
    BY <1>12, StorageAssumption DEF TestRecord, Now, StorageTypeOK
  <2>2. req'[r] = Idle /\ \A s \in Reqs \ {r} : req'[s] = req[s]
    BY <1>12 DEF TestRecord, StorageTypeOK
  <2>3. ASSUME NEW s \in Reqs
        PROVE  /\ /\ req'[s].pc \in {"testing", "answered"}
                  /\ stamp'[req'[s].conn] = req'[s].stamp
                  => config'[req'[s].conn] = req'[s].config
               /\ /\ req'[s].pc = "locked" /\ req'[s].op = "test"
                  /\ status'[req'[s].conn] # "pending"
                  => config'[req'[s].conn] = req'[s].config
    <3>1. req[s].stamp \in Nat
      BY DEF StorageTypeOK, Requests
    <3> QED
      BY <1>12, <2>1, <2>2, <3>1
         DEF TestRecord, StorageTypeOK, ConnInv, ReqInv, LockInv, CurrentInv,
             TestedIsCurrent, Holding, Idle
  <2> QED
    BY <2>3 DEF CurrentInv, TestedIsCurrent, Holding
<1>13. ASSUME NEW r \in Reqs, RequestLost(r)
      PROVE  CurrentInv'
  BY <1>13
     DEF RequestLost, Idle, CurrentInv, TestedIsCurrent, Holding, ConnInv,
       ReqInv, StorageTypeOK, connVars, tickVars
<1>14. ASSUME runStorageHealthCheck
      PROVE  CurrentInv'
  BY <1>14
     DEF runStorageHealthCheck, CurrentInv, TestedIsCurrent, Holding,
       ConnInv, ReqInv, StorageTypeOK, connVars, tickVars
<1>15. ASSUME NEW x \in tick, testEncryptedStorage(x)
      PROVE  CurrentInv'
  BY <1>15
     DEF testEncryptedStorage, CurrentInv, TestedIsCurrent, Holding, ConnInv,
       ReqInv, StorageTypeOK, connVars, tickVars
<1>16. ASSUME NEW v \in verdict, MonitorRecord(v)
      PROVE  CurrentInv'
  BY <1>16
     DEF MonitorRecord, Record, CurrentInv, TestedIsCurrent, Holding,
       ConnInv, ReqInv, StorageTypeOK, connVars, tickVars
<1>17. ASSUME TickLost
      PROVE  CurrentInv'
  BY <1>17
     DEF TickLost, CurrentInv, TestedIsCurrent, Holding, ConnInv, ReqInv,
       StorageTypeOK, connVars, tickVars
<1>18. ASSUME NEW k \in Configs \cup {Drive}, NEW a \in Answers,
             ProviderChanges(k, a)
      PROVE  CurrentInv'
  BY <1>18
     DEF ProviderChanges, CurrentInv, TestedIsCurrent, Holding, ConnInv,
       ReqInv, StorageTypeOK, connVars, tickVars
<1>19. CASE UNCHANGED storageVars
  BY <1>19
     DEF storageVars, CurrentInv, TestedIsCurrent, Holding, ConnInv, ReqInv,
       StorageTypeOK, connVars, tickVars
<1> QED
  BY <1>1, <1>2, <1>3, <1>4, <1>5, <1>6, <1>7, <1>8, <1>9, <1>10, <1>11,
     <1>12, <1>13, <1>14, <1>15, <1>16, <1>17, <1>18, <1>19
     DEF StorageNext, HandlerStep, MonitorStep

\* A connection test never records the result of a configuration the row no
\* longer has, unless the Google callback is connecting that row anew.
THEOREM TestNeverStale == StorageSpec => []TestedIsCurrent
<1>1. StorageInit => CurrentInv
  BY DEF StorageInit, CurrentInv, TestedIsCurrent, Holding, Idle
<1>2. CurrentInv => TestedIsCurrent
  BY DEF CurrentInv
<1> QED
  BY <1>1, <1>2, ConnAlways, CurrentStep, PTL DEF StorageSpec
=============================================================================
