------------------------------ MODULE ValueMap ------------------------------
(***************************************************************************)
(* The value gate of the code map (src/src/saddle/codemap: impact_value    *)
(* and passdown): which raw reads of a varying value's base a modifier     *)
(* never reaches.  A code base is a set of facts, each a record            *)
(*    k   what the fact is: "def", "read", "call", "return", ...           *)
(*    in  the function it is found in, <<module, name>>                    *)
(*    to  the name the fact is about (a callee, a field, a token)          *)
(*    a   the value handed over: <<"R", "">> resolved, <<"B", "">> base,   *)
(*        <<"RB", "">> a local bound from both, <<"param", "">> the        *)
(*        function's own parameter, <<"call", f>> the result of f, or      *)
(*        <<"none", "">>                                                   *)
(* A function has one parameter: positions are independent of one another. *)
(***************************************************************************)
EXTENDS Naturals, FiniteSets

CONSTANTS Resolvers,    \* accessors that return base (+) modifiers
          BaseSources,  \* accessors that return the raw base
          Producers,    \* functions that build the base
          Field         \* the field read in code

Fn(d) == d[2]
Of(code, kind) == {x \in code : x.k = kind}
Defs(code) == {x.in : x \in Of(code, "def")}
DefinedAs(code, f) == {d \in Defs(code) : Fn(d) = f}

(* A name defined in two modules bails: nothing is attributed to it. *)
Sole(code, f) == Cardinality(DefinedAs(code, f)) = 1

(* The fixpoint of a growing step within room, by as many rounds as there  *)
(* is room.                                                                *)
Saturate(room, step, seed) ==
    LET round[n \in 0..Cardinality(room)] ==
          IF n = 0 THEN seed
          ELSE LET before == round[n - 1] IN before \cup step[before]
    IN  round[Cardinality(room)]

(* An atom shows a polarity by itself, through the parameter it names, or  *)
(* through the return of the one function it calls.                        *)
Shows(atom, pol) == atom[1] \in {pol, "RB"}
AtomIs(code, x, pol, reached) ==
    \/ Shows(x.a, pol)
    \/ x.a[1] = "param" /\ <<"in", x.in>> \in reached
    \/ /\ x.a[1] = "call" /\ Sole(code, x.a[2])
       /\ \E d \in DefinedAs(code, x.a[2]) : <<"out", d>> \in reached

(* One round: parameters reached from a call site, and returns that carry  *)
(* the polarity.                                                           *)
Flow(code, pol, reached) ==
    {<<"in", d>> : d \in {e \in Defs(code) :
        /\ Sole(code, Fn(e))
        /\ \E c \in Of(code, "call") : c.to = Fn(e) /\ AtomIs(code, c, pol, reached)}}
    \cup {<<"out", d>> : d \in {e \in Defs(code) :
        \E x \in Of(code, "return") : x.in = e /\ AtomIs(code, x, pol, reached)}}
Nodes(code) == {"in", "out"} \X Defs(code)
Reached(code, pol) ==
    Saturate(Nodes(code), [reached \in SUBSET Nodes(code) |-> Flow(code, pol, reached)], {})

Sources == Resolvers \cup BaseSources

(* resolver_wrapper_funcs: returns a resolved value and never a base.      *)
WrappersOf(code, r, b) ==
    {f \in {Fn(d) : d \in Defs(code)} \ Sources :
        /\ Sole(code, f)
        /\ \E d \in DefinedAs(code, f) : <<"out", d>> \in r \ b}

(* resolved_arg_callees: handed a resolved value one hop out; by name, and *)
(* blind to the base.                                                      *)
HandedOn(code) ==
    {x.to : x \in {y \in Of(code, "call") : Shows(y.a, "R")}} \ Resolvers

(* resolved_passdown_funcs and base_reachable_funcs. *)
PassedDown(r, b) == {Fn(n[2]) : n \in {m \in r \ b : m[1] = "in"}} \ Sources
BaseReachable(b) == {Fn(n[2]) : n \in {m \in b : m[1] = "in"}}

\* A mutant: the one-hop scan is united after the veto.
ArgCoveredLate(code, r, b) == HandedOn(code) \cup (PassedDown(r, b) \ BaseReachable(b))
(* impact_value: the veto is applied last, over the whole covered set. *)
ArgCovered(code, r, b) == (HandedOn(code) \cup PassedDown(r, b)) \ BaseReachable(b)

(* The functions in whose own body a resolver, or a wrapper, is called. *)
Resolving(code, wrappers) ==
    {x.in : x \in {y \in Of(code, "call") \cup Of(code, "return") :
        \/ y.to \in Resolvers \cup wrappers
        \/ Shows(y.a, "R")
        \/ y.a[1] = "call" /\ y.a[2] \in wrappers}}

(* The uncovered reads: the gaps of the value. *)
ValueGaps(code) ==
    LET r == Reached(code, "R")
        b == Reached(code, "B")
        covering == Resolving(code, WrappersOf(code, r, b))
        covered == ArgCovered(code, r, b)
    IN  {x.in : x \in {y \in Of(code, "read") :
            /\ y.to = Field
            /\ Fn(y.in) \notin Resolvers \cup Producers
            /\ y.in \notin covering
            /\ Fn(y.in) \notin covered}}
=============================================================================
