------------------------------ MODULE CodeMap -------------------------------
(***************************************************************************)
(* A code base under edit and the gate of its surface manifest: every edit *)
(* adds or takes away one fact of the code, and the gate, a function of    *)
(* the code alone, is asked again after each.                              *)
(***************************************************************************)
EXTENDS SurfaceMap

CONSTANTS Worlds,    \* code bases to start from, [base, pool]: the facts
                     \* present at first, and those the edits are about
          MaxFacts   \* bound: facts of the pool present at once

(* A fact is the record above; only a call or a return hands a value over. *)
IsFact(x) ==
    /\ x = [k |-> x.k, in |-> x.in, to |-> x.to, a |-> x.a]
    /\ x.a[1] \in {"R", "B", "RB", "param", "call"} => x.k \in {"call", "return"}

ASSUME CodeAssumption ==
    /\ IsFiniteSet(Guards) /\ IsFiniteSet(Idioms)
    /\ \A w \in Worlds : IsFiniteSet(w.base) /\ \A x \in w.base \cup w.pool : IsFact(x)

VARIABLES code,      \* the facts of the code base now
          pool       \* the facts the edits are about

codeVars == <<code, pool>>

CodeInit == \E w \in Worlds : code = w.base /\ pool = w.pool

Add(x) == /\ x \notin code
          /\ Cardinality(code \cap pool) < MaxFacts
          /\ code' = code \cup {x}
          /\ UNCHANGED pool
Drop(x) == /\ x \in code
           /\ code' = code \ {x}
           /\ UNCHANGED pool
CodeNext == \E x \in pool : Add(x) \/ Drop(x)
CodeSpec == CodeInit /\ [][CodeNext]_codeVars

-----------------------------------------------------------------------------
(* What a polarity reaches, without an algorithm: the nodes in every set   *)
(* closed under one hop.                                                   *)
Least(pol) ==
    {n \in Nodes(code) :
        \A S \in SUBSET Nodes(code) : Flow(code, pol, S) \subseteq S => n \in S}

(* Likewise the authority checks of a service: an innocent function lies   *)
(* in a set closed under calls that writes no replicated field, and a      *)
(* check is in every set that holds the given checks and each innocent     *)
(* caller of a member.                                                     *)
Innocent(m) ==
    UNION {p \in SUBSET NamesIn(code, m) :
        /\ UNION {Callees(code, m, h) : h \in p} \subseteq p
        /\ Writes(code, m, p) \cap Replicated(code, m) = {}}
LeastChecks(m) ==
    LET given == Guards \cup Idioms
        closed == {S \in SUBSET NamesIn(code, m) :
                      CallersIn(code, m, S \cup given) \cap Innocent(m) \subseteq S}
    IN  given \cup {f \in NamesIn(code, m) : \A S \in closed : f \in S}

(* The functions that hold a resolved value in their own body: by a        *)
(* resolver, or by a function that, along some returns, resolves and along *)
(* none returns a base.                                                    *)
Resolves(d, r, b) ==
    LET pure == {Fn(n[2]) : n \in {k \in r \ b : k[1] = "out"}}
    IN  \E x \in Of(code, "call") \cup Of(code, "return") :
            /\ x.in = d
            /\ \/ x.to \in Resolvers \/ Shows(x.a, "R")
               \/ {x.to, x.a[2]} \cap {f \in pure : Sole(code, f)} # {}

(* Where a base value reaches a function along some chain of calls and     *)
(* nothing in its body resolves, a raw read is reported, whatever resolved *)
(* values reach it along other chains; and a raw read is passed over only  *)
(* where a resolved value is in the body, handed over by a caller, or      *)
(* reaches it along a chain (impact_value's authoritative veto).           *)
BaseNeverCleared ==
    LET r == Least("R")
        b == Least("B")
        gaps == ValueGaps(code)
    IN  \A x \in Named(code, "read", Field) :
            LET d == x.in IN
            Fn(d) \notin Resolvers \cup Producers =>
              /\ <<"in", d>> \in b /\ ~Resolves(d, r, b) => d \in gaps
              /\ d \in Defs(code) \ gaps =>
                    \/ Resolves(d, r, b) \/ <<"in", d>> \in r
                    \/ \E c \in Of(code, "call") : c.to = Fn(d) /\ Shows(c.a, "R")

(* A public function of a mirror service that writes replicated state in   *)
(* its own body and that a client calls raw is reported unless it calls a  *)
(* check, itself never a function that writes such state by any route, and *)
(* an @rpc receiver reaches it (impact_congruence, _guard_funcs).          *)
NoMirrorGapMasked ==
    \A m \in ServicesOf(code) :
        LET shut == CallersIn(code, m, LeastChecks(m))
            reported == CongruenceGaps(code)
            rep == Replicated(code, m)
        IN  \A f \in NamesIn(code, m) \ ({MirrorApply} \cup Exempt \cup Private) :
                /\ Writes(code, m, {f}) \cap rep # {}
                /\ RawClients(code, m, f) # {}
                /\ ~(Routed(code, f) /\ f \in shut)
                => <<m, f>> \in reported

(* A base value handed over or returned, where a value of no polarity was, *)
(* never silences the value gate; one more resolved value never makes it   *)
(* speak; and one more raw client call never silences the congruence gate. *)
EvidenceIsMonotone ==
    \A x \in pool \ code :
        LET more == code \cup {x}
            plain == code \cup {[x EXCEPT !.a = <<"none", "">>]} IN
        /\ x.a[1] = "B" => ValueGaps(plain) \subseteq ValueGaps(more)
        /\ x.a[1] = "R" => ValueGaps(more) \subseteq ValueGaps(code)
        /\ /\ x.k = "call" /\ x.in[1] \in ClientSide \ ServicesOf(code)
           /\ ~IsRpc(code, x.in)
           => CongruenceGaps(code) \subseteq CongruenceGaps(more)

(* Nothing is reported that no single edit takes back.  What else that     *)
(* edit brings up is not asked.                                            *)
Edited(x) == IF x \in code THEN code \ {x} ELSE code \cup {x}
EveryFindingHasAnEdit ==
    \A finding \in Gate(code) : \E x \in pool : finding \notin Gate(Edited(x))

(* The gate, over any code base and any edit. *)
GateInOrder ==
    /\ BaseNeverCleared
    /\ NoMirrorGapMasked
    /\ EvidenceIsMonotone
=============================================================================
