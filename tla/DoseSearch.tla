----------------------------- MODULE DoseSearch -----------------------------
(***************************************************************************)
(* The dose of a layer: one full pass over the cache at a learning rate    *)
(* gives a relative drift, or diverges; the search finds the rate whose    *)
(* drift is the campaign's target, and refuses when it cannot.  A small    *)
(* probe measures the slope, the seed follows from it, the bracket grows   *)
(* by four until it is at or past the target, and bisection does the rest. *)
(*                                                                         *)
(* Rates and drifts are whole numbers.  Inf is a pass that diverged: it    *)
(* returned no finite drift, or raised.                                    *)
(***************************************************************************)
EXTENDS Integers

CONSTANTS
  Responses,                  \* [slope, curve, flat, top, edge] of a cache, see Rho
  Targets, Tol,               \* Tol is absolute
  ProbeLr,                    \* a small share of the target
  MaxBackoff, MaxBracket, MaxBisect,
  MaxLr                       \* the rates a reference search tries

Inf == 1000000

\* Powers of two.
Pow[k \in Nat] == IF k = 0 THEN 1 ELSE 2 * Pow[k - 1]

\* The budgets are enough for the rates up to MaxLr: the probe can come down to the least of
\* them, the bracket can grow to the last, and bisection can part any two.
Enough ==
  /\ ProbeLr < 2 * Pow[MaxBackoff] /\ MaxLr <= Pow[2 * MaxBracket]
  /\ 4 * MaxLr <= Pow[MaxBisect] /\ \A t \in Targets : t * ProbeLr <= Pow[MaxBisect]

DoseAssumption ==
  /\ \A r \in Responses : {r.slope, r.curve, r.flat, r.edge} \subseteq Nat /\ r.top \in 0 .. Inf
  /\ Targets \subseteq 1 .. Inf /\ Tol \in Nat /\ ProbeLr \in Nat \ {0} /\ MaxLr \in Nat
  /\ {MaxBackoff, MaxBracket, MaxBisect} \subseteq Nat
  /\ Enough

VARIABLES
  response, target,
  pc,                         \* "probe", "backoff", "seed", "bracket", "bisect", "apply" or an end
  lr, rho,                    \* the last pass
  lo, hi, n,
  finite                      \* some pass was finite

vars == <<response, target, pc, lr, rho, lo, hi, n, finite>>

Lower(a, b) == IF a <= b THEN a ELSE b
Higher(a, b) == IF a >= b THEN a ELSE b
Abs(a) == IF a < 0 THEN -a ELSE a

\* What a full pass from the zero delta at x returns on this cache: nothing below the
\* resolution of the weights, then a convex rise up to a level, and no number past the
\* edge of stability.
Rho(x) ==
  IF x >= response.edge THEN Inf
  ELSE IF x < response.flat THEN 0
  ELSE Lower(response.slope * x + (response.curve * x * x) \div 16, response.top)

Init ==
  /\ response \in Responses /\ target \in Targets
  /\ pc = "probe" /\ lr = ProbeLr /\ rho = 0 /\ lo = 0 /\ hi = 0 /\ n = 0 /\ finite = FALSE

Within(r) == r # Inf /\ Abs(r - target) <= Tol

\* mutant: a pass that diverged is taken for one that is too small
BelowOrLost(r) == r = Inf \/ r < target
Below(r) == r < target

Pass(x) == lr' = x /\ rho' = Rho(x) /\ finite' = (finite \/ Rho(x) # Inf)

\* measure_drift_slope: halve until a pass is finite.
Probe ==
  /\ pc = "probe" /\ Pass(lr)
  /\ IF Rho(lr) # Inf THEN pc' = "seed" /\ n' = 0 ELSE pc' = "backoff" /\ UNCHANGED n
  /\ UNCHANGED <<response, target, lo, hi>>
Backoff ==
  /\ pc = "backoff"
  /\ IF n < MaxBackoff THEN lr' = lr \div 2 /\ n' = n + 1 /\ pc' = "probe"
     ELSE pc' = "nonfinite" /\ UNCHANGED <<lr, n>>
  /\ UNCHANGED <<response, target, rho, lo, hi, finite>>

\* The chord from the origin, or the probe's own rate when it moved nothing.
SeedLr == IF rho > 0 THEN Higher((target * lr) \div rho, 1) ELSE lr
Seed ==
  /\ pc = "seed" /\ hi' = SeedLr /\ lo' = 0 /\ Pass(SeedLr) /\ n' = 0 /\ pc' = "bracket"
  /\ UNCHANGED <<response, target>>

Brackets == Below(rho) /\ ~Within(rho) /\ n < MaxBracket
Bracket ==
  /\ pc = "bracket" /\ Brackets
  /\ lo' = hi /\ hi' = hi * 4 /\ Pass(hi * 4) /\ n' = n + 1
  /\ UNCHANGED <<response, target, pc>>
BracketEnd ==
  /\ pc = "bracket" /\ ~Brackets /\ pc' = "bisect" /\ n' = 0
  /\ UNCHANGED <<response, target, lr, rho, lo, hi, finite>>

\* A pass that diverged is above any target: the next step comes down.
Mid == (lo + hi) \div 2
Bisect ==
  /\ pc = "bisect" /\ ~Within(rho) /\ n < MaxBisect
  /\ Pass(Mid) /\ n' = n + 1
  /\ IF Below(Rho(Mid)) THEN lo' = Mid /\ UNCHANGED hi ELSE hi' = Mid /\ UNCHANGED lo
  /\ UNCHANGED <<response, target, pc>>

\* mutant: the best pass is good enough
AnyDose == rho # Inf
\* solve_drift_or_refuse
Converged == Within(rho)
BisectEnd ==
  /\ pc = "bisect" /\ (Within(rho) \/ n = MaxBisect)
  /\ pc' = IF ~finite THEN "nonfinite" ELSE IF Converged THEN "apply" ELSE "refused"
  /\ UNCHANGED <<response, target, lr, rho, lo, hi, n, finite>>

\* train_layer_dose: once more at the rate found, then into the weights if finite.
Apply ==
  /\ pc = "apply" /\ Pass(lr) /\ pc' = IF Rho(lr) = Inf THEN "nonfinite" ELSE "applied"
  /\ UNCHANGED <<response, target, lo, hi, n>>

Next == Probe \/ Backoff \/ Seed \/ Bracket \/ BracketEnd \/ Bisect \/ BisectEnd \/ Apply
Spec == Init /\ [][Next]_vars

-----------------------------------------------------------------------------
\* Properties.

\* "an unmatched dose is wasted work the judge would reject anyway": what goes into the
\* weights is a finite pass whose drift is the target within the tolerance.
AppliesMatched == pc = "applied" => Within(Rho(lr))

\* "A diverged pass is NOT fatal. It is an UPPER BOUND": the search gives up only on a
\* cache where no rate at all lands the target, wherever the slope, the level and the
\* edge of stability lie.
FindsReachable ==
  pc \in {"refused", "nonfinite"} => \A x \in 1..MaxLr : ~Within(Rho(x))

\* The search lands on the target wherever some rate does, and applies nothing else.
DoseFound == AppliesMatched /\ FindsReachable
=============================================================================
