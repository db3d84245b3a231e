------------------------------- MODULE Pricing -------------------------------
(***************************************************************************)
(* The capacity a new organisation buys: the graduated price of a number   *)
(* of mailboxes (lib/pricing_math.ts), the calculator that edits the       *)
(* number and the billing cycle, the onboarding page that shows the price  *)
(* beside it and the checkout that provisions the capacity.                *)
(*                                                                         *)
(* Money is in cents.  The code rounds binary doubles: which way an exact  *)
(* half falls depends on the operands, so a half rounds either way here.   *)
(***************************************************************************)
EXTENDS Integers, FiniteSets, FiniteSetsExt

CONSTANTS Params,     \* numbers of seats a link may ask for
          Moves,      \* positions the slider and the presets are moved to
          Typed,      \* numbers typed in the field
          Junk        \* what is typed when it is no number

ASSUME PricingAssumption ==
    /\ Params \subseteq Nat \ {0} /\ Moves \subseteq Nat /\ Typed \subseteq Nat
    /\ Junk \notin Nat

VARIABLES
    stage,      \* the page: pricing, checkout, processing or dashboard
    calculator, \* the calculator's number of seats, input field and cycle
    quote,      \* the page's copies of the seats and the cycle, and the price
    checkoutLink, \* the seats and the cycle in the address
    capacity,   \* the capacity stored by the server
    activated   \* "Organization Activated!" is shown

pricingVars == <<stage, calculator, quote, checkoutLink, capacity, activated>>

Cycles == {"monthly", "annual"}
minLimit == 1
maxLimit == 250

-------------------------------------------------------------------------------
(* The graduated price *)

\* Seats a bracket holds, 0 for the last one, which holds the rest; cents per seat.
TIER_BRACKETS == << [seats |-> 10, rate |-> 300], [seats |-> 15, rate |-> 285],
                    [seats |-> 25, rate |-> 271], [seats |-> 50, rate |-> 257],
                    [seats |-> 0, rate |-> 244] >>

Tiers == 1 .. 5
RateOf(t) == TIER_BRACKETS[t].rate

\* The sum of the amounts of the brackets in S.
Total(amount, S) ==
    LET at(t) == IF t \in S THEN amount[t] ELSE 0
    IN  at(1) + at(2) + at(3) + at(4) + at(5)

\* The nearest integers to a / b: two of them when a / b is halfway.
Rounded(a, b) == {q \in {a \div b, a \div b + 1} :
                        2 * (a - q * b) \in -b .. b}

\* As Remaining below, counting one seat less in each bracket.
OneSeatShort(n) ==
    LET left[t \in 0 .. 5] ==
            IF t = 0 THEN n
            ELSE LET cap == TIER_BRACKETS[t].seats
                 IN  IF cap = 0 THEN 0 ELSE Max({0, left[t - 1] - (cap - 1)})
    IN  left

\* The seats left when the brackets up to t have taken theirs.
Remaining(n) ==
    LET left[t \in 0 .. 5] ==
            IF t = 0 THEN n
            ELSE LET cap == TIER_BRACKETS[t].seats
                 IN  IF cap = 0 THEN 0 ELSE Max({0, left[t - 1] - cap})
    IN  left

seatsInTier(n, t) == Remaining(n)[t - 1] - Remaining(n)[t]
Cost(n, t) == seatsInTier(n, t) * RateOf(t)
Lines(n) == {t \in Tiers : seatsInTier(n, t) > 0}
baseMonthlyTotal(n) == Total([t \in Tiers |-> Cost(n, t)], Tiers)

\* The domains and aliases that come with the seats.
calculateResourceLimits(n) ==
    [domains |-> IF n >= 26 THEN 10 ELSE IF n >= 11 THEN 5 ELSE 3,
     aliases |-> n * 10]

\* As Apportioned below, leaving the rounded shares as they are.
NotApportioned(lines, shares, total) == shares

\* What the last line is charged so that the lines add up to the total.
Apportioned(lines, shares, total) ==
    LET diff == total - Total(shares, lines)
    IN  [t \in lines |-> IF t = Max(lines) THEN shares[t] + diff ELSE shares[t]]

\* The monthly share of each line of an annual price, before it is apportioned.
AnnualShares(n) ==
    LET exact == [t \in Lines(n) |-> Cost(n, t) * 10]
        up == {u \in [Lines(n) -> {0, 1}] :
                \A t \in Lines(n) : exact[t] \div 12 + u[t] \in Rounded(exact[t], 12)}
    IN  {[t \in Lines(n) |-> exact[t] \div 12 + u[t]] : u \in up}

\* The prices the code may compute for n seats: one, but for exact halves.
calculateGraduatedPricing(n, c) ==
    LET base == baseMonthlyTotal(n)
        Price(total, lines) ==
            [seats |-> n, cycle |-> c, base |-> base, total |-> total, lines |-> lines,
             amount |-> IF c = "annual" THEN base * 10 ELSE base,
             limits |-> calculateResourceLimits(n)]
    IN  IF c = "monthly"
        THEN {Price(base, [t \in Lines(n) |-> Cost(n, t)])}
        ELSE {Price(r, Apportioned(Lines(n), f, r)) :
                f \in AnnualShares(n), r \in Rounded(base * 10, 12)}

-------------------------------------------------------------------------------
(* The calculator *)

normalizeSeats(v) == IF v = Junk THEN minLimit
                     ELSE Min({Max({minLimit, v}), maxLimit})

\* As handleSeatsChange below, but the price shown stays.
PriceStays(n, c, p) == [seats |-> n, cycle |-> c, price |-> quote.price]

\* The page is told of a new number of seats or a new cycle, with the price the
\* calculator shows for it.
handleSeatsChange(n, c, p) == [seats |-> n, cycle |-> c, price |-> p]

\* The effects run when the signal really changed.
Recalculate(calc) ==
    /\ stage = "pricing"
    /\ calculator' = calc
    /\ IF <<calc.seats, calc.cycle>> # <<calculator.seats, calculator.cycle>>
       THEN \E p \in calculateGraduatedPricing(calc.seats, calc.cycle) :
                quote' = handleSeatsChange(calc.seats, calc.cycle, p)
       ELSE UNCHANGED quote
    /\ UNCHANGED <<stage, checkoutLink, capacity, activated>>

handleSliderChange(v) ==
    Recalculate([calculator EXCEPT !.seats = normalizeSeats(v),
                                   !.field = normalizeSeats(v)])

\* Typing: only a number within the limits becomes the number of seats.
handleInputChange(v) ==
    Recalculate([calculator EXCEPT !.field = v,
                    !.seats = IF v # Junk /\ v \in minLimit .. maxLimit THEN v ELSE @])

handleInputBlur ==
    Recalculate([calculator EXCEPT !.seats = normalizeSeats(calculator.field),
                                   !.field = normalizeSeats(calculator.field)])

setBillingCycle(c) == Recalculate([calculator EXCEPT !.cycle = c])

Controls ==
    \/ \E v \in Moves : handleSliderChange(v)
    \/ \E v \in Typed \cup {Junk} : handleInputChange(v)
    \/ handleInputBlur
    \/ \E c \in Cycles : setBillingCycle(c)

-------------------------------------------------------------------------------
(* The onboarding pages *)

\* The pricing page is opened with the seats and the cycle of its address.
OpenPricing(n, c) ==
    /\ calculator' = [seats |-> n, field |-> n, cycle |-> c]
    /\ \E p \in calculateGraduatedPricing(n, c) :
            quote' = [seats |-> n, cycle |-> c, price |-> p]

PricingInit ==
    /\ stage = "pricing"
    /\ \E n \in Params, c \in Cycles :
        /\ checkoutLink = [seats |-> n, cycle |-> c]
        /\ calculator = [seats |-> n, field |-> n, cycle |-> c]
        /\ \E p \in calculateGraduatedPricing(n, c) :
                quote = [seats |-> n, cycle |-> c, price |-> p]
    /\ capacity = [seats |-> 1, cycle |-> "none"]
    /\ activated = FALSE

\* "Start with 1 Mailbox" sets the page's number of seats and continues.
handleContinue(n) ==
    /\ stage = "pricing"
    /\ stage' = "checkout"
    /\ checkoutLink' = [seats |-> n, cycle |-> quote.cycle]
    /\ quote' = [quote EXCEPT !.seats = n]
    /\ UNCHANGED <<calculator, capacity, activated>>

ContinueToCheckout == handleContinue(quote.seats) \/ handleContinue(1)

BackToPricing ==
    /\ stage = "checkout"
    /\ stage' = "pricing"
    /\ OpenPricing(checkoutLink.seats, checkoutLink.cycle)
    /\ UNCHANGED <<checkoutLink, capacity, activated>>

handlePaymentSubmit ==
    /\ stage = "checkout"
    /\ stage' = "processing"
    /\ UNCHANGED <<calculator, quote, checkoutLink, capacity, activated>>

\* The seats and the cycle of the address are sent, never a price.  A failure is
\* passed over: the organisation is shown as activated either way.
updateCapacity(done) ==
    /\ stage = "processing" /\ ~activated
    /\ capacity' = IF done THEN checkoutLink ELSE capacity
    /\ activated' = TRUE
    /\ UNCHANGED <<stage, calculator, quote, checkoutLink>>

ToDashboard ==
    /\ stage = "processing" /\ activated
    /\ stage' = "dashboard"
    /\ UNCHANGED <<calculator, quote, checkoutLink, capacity, activated>>

PricingNext ==
    \/ Controls \/ ContinueToCheckout \/ BackToPricing \/ handlePaymentSubmit
    \/ \E done \in BOOLEAN : updateCapacity(done)
    \/ ToDashboard

PricingSpec == PricingInit /\ [][PricingNext]_pricingVars

-------------------------------------------------------------------------------
(* Properties *)

\* The positions of the seats sold at each rate, as the page's table states them,
\* and the sum over them: the reference for the brackets.
PositionsAt(n) == <<1 .. 10, 11 .. 25, 26 .. 50, 51 .. 100, 101 .. n>>

SeatBySeat(n) ==
    Total([t \in Tiers |-> RateOf(t) * Cardinality(1 .. n \cap PositionsAt(n)[t])], Tiers)

\* The waterfall over the brackets charges each seat the rate of its position and
\* no seat twice, at every number of seats and on both sides of every bracket's
\* edge (the loop of calculateGraduatedPricing).
ChargedSeatBySeat ==
    quote.price.base = SeatBySeat(quote.price.seats)

\* The lines of the breakdown add up to the total shown under them, to the cent
\* and whichever way a half was rounded (the apportioning at the end of
\* calculateGraduatedPricing).
LinesAddUp ==
    quote.price.total = Total(quote.price.lines, DOMAIN quote.price.lines)

\* What the page quotes is what the calculator beside it shows: the number, the
\* cycle and the price stay together through every order of sliding, typing,
\* leaving the field, changing the cycle and coming back from the checkout.
QuoteFollowsCalculator ==
    stage = "pricing" =>
        /\ <<quote.seats, quote.cycle>> = <<calculator.seats, calculator.cycle>>
        /\ <<quote.price.seats, quote.price.cycle>> = <<quote.seats, quote.cycle>>

\* The price is the one of its seats, its lines add up to it, and it is shown
\* beside the number and the cycle it is for.
PriceAddsUp == ChargedSeatBySeat /\ LinesAddUp /\ QuoteFollowsCalculator
===============================================================================
