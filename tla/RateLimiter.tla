---------------------------- MODULE RateLimiter ----------------------------
(***************************************************************************)
(* ratelimit.RateLimiter as a record and the pieces its two methods are    *)
(* made of.  They are pieces, and not one operator, because nothing locks  *)
(* them together: LimiterService says who may run between two of them.     *)
(*                                                                         *)
(* Time is a number of ticks; DayLength of them make a UTC day.            *)
(***************************************************************************)
EXTENDS Integers, Sequences, FiniteSets

CONSTANTS
    Clients,            \* the addresses requests are counted against
    ReportsPerDay,      \* vayudoot_reports_per_day
    ReportsPerClient,   \* vayudoot_reports_per_client
    Window,             \* vayudoot_rate_limit_window_seconds
    DayLength,
    None

ASSUME CapsAssumption == ReportsPerDay \in Nat /\ ReportsPerClient \in Nat
ASSUME TimeAssumption == Window \in Nat \ {0} /\ DayLength \in Nat \ {0}
ASSUME NoneAssumption == None \notin Int /\ None \notin Clients

DayOf(t) == t \div DayLength

\* _clients: `known` holds its keys, `recent` the deque of each of them.
Limiter == [day : Int \cup {None}, count : Nat,
            known : SUBSET Clients, recent : [Clients -> Seq(Nat)]]

Fresh == [day |-> None, count |-> 0,
          known |-> {}, recent |-> [c \in Clients |-> <<>>]]

\* _roll_day, before it rebuilds the dictionary.
MustRoll(l, t) == l.day # DayOf(t)

Rolled(l, t) == [l EXCEPT !.day = DayOf(t), !.count = 0]

\* The clients the rebuilt dictionary keeps, and what it then holds.
\* Faulty: the windows start afresh with the day.
Kept_None(l) == {}

Kept(l) == {c \in l.known : l.recent[c] # <<>>}

Rebuilt(l) == [l EXCEPT !.known = Kept(l),
                        !.recent = [c \in Clients |->
                                      IF c \in Kept(l) THEN l.recent[c] ELSE <<>>]]

\* _roll_day as a whole.
RollDay(l, t) == IF MustRoll(l, t) THEN Rebuilt(Rolled(l, t)) ELSE l

\* Faulty: one request too many is let through.
DayExhausted_Late(l) == l.count > ReportsPerDay

DayExhausted(l) == l.count >= ReportsPerDay

\* The deque without the entries at its head that have left the window.
Pruned(q, t) ==
    LET expired == {i \in 1 .. Len(q) : \A j \in 1 .. i : t - q[j] >= Window}
    IN SubSeq(q, Cardinality(expired) + 1, Len(q))

\* setdefault and the pruning of the client's deque.
Taken(l, c, t) == [l EXCEPT !.known = @ \cup {c}, !.recent[c] = Pruned(@, t)]

ClientExhausted(l, c) == Len(l.recent[c]) >= ReportsPerClient

Appended(l, c, t) == [l EXCEPT !.recent[c] = Append(@, t)]

Counted(l) == [l EXCEPT !.count = @ + 1]
=============================================================================
