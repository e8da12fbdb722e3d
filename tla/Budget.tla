----------------------------------- MODULE Budget ---------------------------------
(***********************************************************************************)
(* redress.budget.Budget: the retry tokens that the executions of many policies    *)
(* draw from one rolling window.  consume() and remaining() read the clock before  *)
(* they take the lock, so the readings enter the window out of order, and late by  *)
(* as long as a thread may be kept waiting.  A history variable keeps the instant  *)
(* at which each token really was handed out.                                      *)
(***********************************************************************************)
EXTENDS Integers, Sequences, RollingWindow

CONSTANTS
    Callers,     \* the threads that share the budget
    Costs,       \* the costs asked of consume()
    MaxRetries,  \* max_retries
    WindowS,     \* window_s
    MaxStall,    \* how long a caller may wait between the clock and the lock
    MaxTime      \* bound on the clock

\* What __init__ and consume() accept.
ASSUME BudgetAssumption ==
    /\ Costs \subseteq Nat \ {0}
    /\ MaxRetries \in Nat
    /\ WindowS \in Nat \ {0}
    /\ MaxStall \in Nat
    /\ MaxTime \in Nat

VARIABLES
    now,      \* time.monotonic()
    events,   \* _events
    pending,  \* whether each caller has read the clock and waits for the lock
    reading,  \* the clock as it read it
    cost,     \* the cost argument, or 0 in a call of remaining()
    issued    \* history: when each token was handed out, in order

vars == <<now, events, pending, reading, cost, issued>>

TypeOK ==
    /\ now \in 0..MaxTime
    /\ events \in Seq(Nat)
    /\ pending \in [Callers -> BOOLEAN]
    /\ reading \in [Callers -> Nat]
    /\ cost \in [Callers -> Costs \cup {0}]
    /\ issued \in Seq(Nat)

Init ==
    /\ now = 0
    /\ events = <<>>
    /\ pending = [c \in Callers |-> FALSE]
    /\ reading = [c \in Callers |-> 0]
    /\ cost = [c \in Callers |-> 0]
    /\ issued = <<>>

\* No caller waits for the lock for more than MaxStall.
Tick ==
    /\ now < MaxTime
    /\ \A c \in Callers : pending[c] => now < reading[c] + MaxStall
    /\ now' = now + 1
    /\ UNCHANGED <<events, pending, reading, cost, issued>>

\* The first lines of consume(k) and, for k = 0, of remaining().
ReadClock(c, k) ==
    /\ ~pending[c]
    /\ pending' = [pending EXCEPT ![c] = TRUE]
    /\ reading' = [reading EXCEPT ![c] = now]
    /\ cost' = [cost EXCEPT ![c] = k]
    /\ UNCHANGED <<now, events, issued>>

-----------------------------------------------------------------------------------
(* Under the lock.                                                                 *)

Answered(c) ==
    /\ pending[c]
    /\ pending' = [pending EXCEPT ![c] = FALSE]
    /\ reading' = [reading EXCEPT ![c] = 0]
    /\ cost' = [cost EXCEPT ![c] = 0]

\* _prune(now)
Pruned(c) == DropExpired(events, reading[c] - WindowS)

\* Faulty: the tokens asked for are not counted.
FaultyFits(c) == Len(Pruned(c)) <= MaxRetries

Fits(c) == Len(Pruned(c)) + cost[c] <= MaxRetries

\* Faulty: tokens are dated by the end of the window they are counted in.
FaultyTokens(n, at) == [i \in 1..n |-> at - WindowS]

Tokens(n, at) == [i \in 1..n |-> at]

Grant(c) ==
    /\ cost[c] # 0 /\ Fits(c)
    /\ Answered(c)
    /\ events' = Pruned(c) \o Tokens(cost[c], reading[c])
    /\ issued' = issued \o Tokens(cost[c], now)
    /\ UNCHANGED now

Refuse(c) ==
    /\ cost[c] # 0 /\ ~Fits(c)
    /\ Answered(c)
    /\ events' = Pruned(c)
    /\ UNCHANGED <<now, issued>>

\* remaining() prunes too; the number it returns has no effect here.
Remaining(c) ==
    /\ cost[c] = 0
    /\ Answered(c)
    /\ events' = Pruned(c)
    /\ UNCHANGED <<now, issued>>

Next ==
    \/ Tick
    \/ \E c \in Callers :
          \/ \E k \in Costs \cup {0} : ReadClock(c, k)
          \/ Grant(c) \/ Refuse(c) \/ Remaining(c)

Spec == Init /\ [][Next]_vars

-----------------------------------------------------------------------------------
(* Properties.                                                                     *)

\* The window is a run of the latest tokens, each dated at most MaxStall early; those
\* before it were handed out longer ago than the window less the stall.
Window ==
    LET gone == Len(issued) - Len(events)
    IN  /\ gone >= 0
        /\ \A i \in 1..Len(events) :
              /\ events[i] <= issued[gone + i]
              /\ issued[gone + i] <= events[i] + MaxStall
        /\ \A j \in 1..gone : issued[j] <= now - WindowS + MaxStall

\* No more than max_retries tokens are in the window, no instant is from the future,
\* and no caller waits for the lock for longer than MaxStall.
Bounds ==
    /\ Len(events) <= MaxRetries
    /\ \A j \in 1..Len(issued) : issued[j] <= now
    /\ \A i, j \in 1..Len(issued) : i <= j => issued[i] <= issued[j]
    /\ \A c \in Callers : pending[c] =>
          reading[c] <= now /\ now <= reading[c] + MaxStall

\* The rolling window is one of real time: whoever waits for the lock and in whatever
\* order they get it, no more than max_retries tokens are ever handed out within
\* any span of window_s less the longest wait.
RollingBudget ==
    \A j \in 1..Len(issued) :
        j + MaxRetries <= Len(issued) =>
            issued[j + MaxRetries] - issued[j] >= WindowS - MaxStall

Refuses(c) == pending[c] /\ cost[c] # 0 /\ ~pending'[c] /\ issued' = issued

\* A token is refused only for want of tokens: with those handed out in the last
\* window_s, plus the longest wait, it would be one too many.
RefusesOnlyWhenSpent ==
    [][\A c \in Callers : Refuses(c) =>
          \/ cost[c] > MaxRetries
          \/ /\ Len(issued) > MaxRetries - cost[c]
             /\ issued[Len(issued) - (MaxRetries - cost[c])] > now - WindowS - MaxStall]_vars
====================================================================================
