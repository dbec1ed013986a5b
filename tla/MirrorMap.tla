----------------------------- MODULE MirrorMap ------------------------------
(***************************************************************************)
(* The congruence gate of the code map (impact_congruence): the public     *)
(* mutators of a mirror service's replicated state that a client reaches   *)
(* raw and that are not both gated by an authority check and routed        *)
(* through an @rpc receiver.  Facts as in ValueMap; the ones read here are *)
(* "def", "call", "write" (to = the field) and "rpc".  A call whose arity  *)
(* or receiver shows it meant for another service has a = <<"other", "">>. *)
(***************************************************************************)
EXTENDS ValueMap

CONSTANTS MirrorApply,  \* the function that lands a snapshot on the client
          Guards,       \* the authority checks the spec names
          Idioms,       \* the engine's own authority checks
          Exempt,       \* functions the spec leaves out
          Private,      \* names that begin with an underscore
          ClientSide,   \* modules of the client domain
          Harness       \* probes and tests: never the client's UI

ServicesOf(code) == {d[1] : d \in DefinedAs(code, MirrorApply)}
NamesIn(code, m) == {Fn(d) : d \in {e \in Defs(code) : e[1] = m}}

(* _module_callees: the same-module functions a function calls. *)
Callees(code, m, f) ==
    {x.to : x \in {y \in Of(code, "call") : y.in = <<m, f>>}} \cap NamesIn(code, m)

(* _effective_writes: the fields f writes itself or through its helpers;   *)
(* private ones always, public ones only when `public'.                    *)
Writes(code, m, fs) == {x.to : x \in {y \in Of(code, "write") : y.in \in {m} \X fs}}
Helpers(code, m, f, public) ==
    LET room == {f} \cup NamesIn(code, m)
        called(fs) == {g \in UNION {Callees(code, m, h) : h \in fs} : g \in Private \/ public}
    IN  Saturate(room, [fs \in SUBSET room |-> called(fs)], {f})
EffectiveWrites(code, m, f, public) == Writes(code, m, Helpers(code, m, f, public))

Replicated(code, m) == EffectiveWrites(code, m, MirrorApply, FALSE)

\* A mutant: a function that only writes through a public delegate passes
\* for a guard.
PromotableOwn(code, m, f, rep) == EffectiveWrites(code, m, f, FALSE) \cap rep = {}
(* _guard_funcs: the checks grow by wrappers that call one and write no    *)
(* replicated field by any route; a function that calls a check is gated.  *)
Promotable(code, m, f, rep) == EffectiveWrites(code, m, f, TRUE) \cap rep = {}
CallersIn(code, m, tokens) ==
    {f \in NamesIn(code, m) : \E x \in Of(code, "call") : x.in = <<m, f>> /\ x.to \in tokens}
Checks(code, m) ==
    LET rep == Replicated(code, m)
        innocent == {f \in NamesIn(code, m) : Promotable(code, m, f, rep)}
        room == Guards \cup Idioms \cup NamesIn(code, m)
        wrappers(tokens) == CallersIn(code, m, tokens) \cap innocent
    IN  Saturate(room, [tokens \in SUBSET room |-> wrappers(tokens)], Guards \cup Idioms)
Gated(code, m) == CallersIn(code, m, Checks(code, m))

(* A mutator writes replicated state itself, or, when gated, through what  *)
(* it calls.                                                               *)
Mutators(code, m, gated) ==
    LET rep == Replicated(code, m)
    IN  {f \in NamesIn(code, m) \ ({MirrorApply} \cup Exempt \cup Private) :
            IF f \in gated THEN EffectiveWrites(code, m, f, TRUE) \cap rep # {}
                           ELSE Writes(code, m, {f}) \cap rep # {}}

(* The calls charged to f, the @rpc receivers among them, and the client's *)
(* own.                                                                    *)
CallersOf(code, f) ==
    {x \in Of(code, "call") : x.to = f /\ x.in[1] \notin Harness /\ x.a[1] # "other"}
IsRpc(code, d) == \E x \in Of(code, "rpc") : x.in = d
Routed(code, f) == \E x \in CallersOf(code, f) : IsRpc(code, x.in)
RawClients(code, m, f) ==
    {x \in CallersOf(code, f) :
        x.in[1] # m /\ x.in[1] \in ClientSide /\ ~IsRpc(code, x.in)}

(* is_gap: raw client callers, and not in the one safe shape. *)
CongruenceGaps(code) ==
    UNION {LET gated == Gated(code, m)
           IN  {<<m, f>> : f \in {g \in Mutators(code, m, gated) :
                    /\ RawClients(code, m, g) # {}
                    /\ ~(g \in gated /\ Routed(code, g))}}
           : m \in ServicesOf(code)}
=============================================================================
