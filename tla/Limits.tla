--------------------------------- MODULE Limits ---------------------------------
(***************************************************************************)
(* The two rate limiters, for one client. The middleware counts every      *)
(* request of a policy under three keys that carry the number of the       *)
(* window they belong to; the login limiter counts attempts under one key  *)
(* that lives for a window from the first of them. Refused requests count  *)
(* as well. Time goes in ticks, and each window is a whole number of the   *)
(* next smaller one, as 10, 60 and 3600 seconds are.                       *)
(***************************************************************************)
EXTENDS Integers

CONSTANTS
  Length,       \* ticks in each of "burst", "minute", "hour" and "login"
  Limit,        \* requests each admits
  LastTick      \* bound: the clock stops there

Ticking == {"burst", "minute", "hour"}
Limiters == Ticking \cup {"login"}

(* Every window lasts, and admits something: ge=1 in settings.py:57-127.    *)
ASSUME LimitsAssumption ==
  /\ Length \in [Limiters -> Nat \ {0}] /\ Limit \in [Limiters -> Nat \ {0}]
  /\ LastTick \in Nat

VARIABLES
  now,          \* the clock
  count,        \* what each key holds: requests so far, and when it expires
  asks,         \* the limiters the client's requests meet: the ticking ones, or login's
  passed,       \* requests admitted up to each time
  answer,       \* what the last request was told: "ok", or who refused it
  retry         \* when a client refused and silent since may return, 0 for others

limitsVars == <<now, count, asks, passed, answer, retry>>

Counter(n, until) == [n |-> n, until |-> until]

LimitsInit ==
  /\ now = 0 /\ answer = "ok"
  /\ count = [l \in Limiters |-> Counter(0, 0)]
  /\ asks \in {Ticking, {"login"}}
  /\ passed = [t \in 0..LastTick |-> 0]
  /\ retry = [l \in Limiters |-> 0]

(* INCR, up to what tells a refusal (bound). *)
Counted(l) == IF count[l].n > Limit[l] THEN count[l].n ELSE count[l].n + 1
EndOfWindow(l) == (now \div Length[l] + 1) * Length[l]

(* Mutant: every attempt gives the key a new life. *)
HitRenewing(l) ==
  Counter(Counted(l), IF l \in Ticking THEN EndOfWindow(l) ELSE now + Length[l])

(* Mutant: the key of a window is found in the next one, too. *)
HitCoarse(l) ==
  Counter(Counted(l), IF l \in Ticking THEN EndOfWindow(l) + Length[l]
                      ELSE IF count[l].n = 0 THEN now + Length[l] ELSE count[l].until)

(* Mutant: the window is forgotten when it is half over. *)
HitShort(l) ==
  Counter(Counted(l), IF count[l].n = 0 THEN now + 1 ELSE count[l].until)

(* INCR and EXPIRE nx in one pipeline. A key that carries its window's      *)
(* number is not asked for after that window, whenever it expires.          *)
Hit(l) ==
  Counter(Counted(l), IF l \in Ticking THEN EndOfWindow(l)
                      ELSE IF count[l].n = 0 THEN now + Length[l] ELSE count[l].until)

Over(l) == Hit(l).n > Limit[l]

Answered(told) ==
  /\ count' = [l \in Limiters |-> IF l \in asks THEN Hit(l) ELSE count[l]]
  /\ passed' = IF told = "ok" THEN [t \in 0..LastTick |-> passed[t] + IF t >= now THEN 1 ELSE 0]
                ELSE passed
  /\ answer' = told
  /\ retry' = [l \in Limiters |-> IF l = told THEN now + Length[l] ELSE 0]
  /\ UNCHANGED <<now, asks>>

(* _check_windows: the minute is looked at first, the burst last. *)
Request ==
  /\ asks = Ticking
  /\ Answered(IF Over("minute") THEN "minute" ELSE IF Over("hour") THEN "hour"
              ELSE IF Over("burst") THEN "burst" ELSE "ok")

(* _enforce_limit *)
LoginAttempt ==
  /\ asks = {"login"}
  /\ Answered(IF Over("login") THEN "login" ELSE "ok")

Tick ==
  /\ now < LastTick /\ now' = now + 1
  /\ count' = [l \in Limiters |-> IF count[l].until <= now' THEN Counter(0, 0) ELSE count[l]]
  /\ UNCHANGED <<asks, passed, answer, retry>>

LimitsNext == Request \/ LoginAttempt \/ Tick

LimitsSpec == LimitsInit /\ [][LimitsNext]_limitsVars

-----------------------------------------------------------------------------
LimitsTypeOK ==
  /\ now \in 0..LastTick /\ answer \in Limiters \cup {"ok"}
  /\ \A l \in Limiters : /\ count[l].n \in 0..(Limit[l] + 1)
                         /\ count[l].until <= now + Length[l]

(* Windows begin where they begin, so two of them may meet; but in no span  *)
(* of a window's length is a client let through more than twice the limit.  *)
Before(t) == IF t = 0 THEN 0 ELSE passed[t - 1]

TwiceTheLimit ==
  \A l \in asks, t, u \in 0..now :
    t <= u /\ u - t < Length[l] => passed[u] - Before(t) <= 2 * Limit[l]

(* Retry-After is honest: who was refused by a window, and keeps silent for *)
(* its length, is not refused by it again on his return, however the three  *)
(* windows are set off against each other.                                  *)
RetryHonest ==
  [][\A l \in Limiters :
       retry[l] # 0 /\ now >= retry[l] /\ UNCHANGED now => answer' # l]_limitsVars

(* Attempts that are refused do not lengthen a lockout: whoever is counted  *)
(* was let in within the last window.                                       *)
LockoutEnds ==
  count["login"].n > 0 =>
    \E t \in 0..now : now - t < Length["login"] /\ passed[t] > Before(t)

(* All that is promised of the limits: twice the limit at most in the time *)
(* of a window, an end to every lockout, and a wait that is honest.        *)
LimitsCorrect ==
  /\ [](LimitsTypeOK /\ TwiceTheLimit /\ LockoutEnds)
  /\ RetryHonest

=============================================================================
