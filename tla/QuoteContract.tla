--------------------------- MODULE QuoteContract ---------------------------
\* What the rate locks and the drafting of payment orders promise, without rows,
\* jobs or screening: a quote is offered once, closes once, and is sold to at
\* most one instruction key while it is open, at its own rate.
EXTENDS Naturals

CONSTANTS Locks, OrderKeys, LockedRate, Scale, NoOrder

VARIABLES quote,   \* lock |-> "unseen", "open" or "closed"
          sold     \* key |-> NoOrder or [amount, target, lock]

QuoteInit ==
  /\ quote = [l \in Locks |-> "unseen"]
  /\ sold = [k \in OrderKeys |-> NoOrder]

Offer(l) ==
  /\ quote[l] = "unseen"
  /\ quote' = [quote EXCEPT ![l] = "open"]
  /\ UNCHANGED sold

Close(l) ==
  /\ quote[l] = "open"
  /\ quote' = [quote EXCEPT ![l] = "closed"]
  /\ UNCHANGED sold

\* The target is within half a unit of the amount at the locked rate.
NearestTo(l, s) ==
  /\ 2 * s.amount * LockedRate[l] <= 2 * Scale * s.target + Scale
  /\ 2 * Scale * s.target <= 2 * s.amount * LockedRate[l] + Scale

Sell(k, l) ==
  /\ quote[l] = "open" /\ sold[k] = NoOrder
  /\ quote' = [quote EXCEPT ![l] = "closed"]
  /\ \A other \in OrderKeys \ {k} : sold'[other] = sold[other]
  /\ sold'[k] # NoOrder
  /\ sold'[k].lock = l
  /\ sold'[k].target > 0
  /\ NearestTo(l, sold'[k])

QuoteNext ==
  \/ \E l \in Locks : Offer(l) \/ Close(l)
  \/ \E k \in OrderKeys, l \in Locks : Sell(k, l)

QuoteSpec == QuoteInit /\ [][QuoteNext]_<<quote, sold>>
============================================================================
