----------------------------- MODULE SurfaceMap -----------------------------
(***************************************************************************)
(* The other checks a design's surface manifest commits to (impact and     *)
(* substrate), and the manifest's own gate.  Facts as in ValueMap, and     *)
(*    "decl"   a symbol declared           "use"    a symbol read          *)
(*    "set"    a canonical set declared    "lit"    a literal used as an   *)
(*    "key"    an action's physical key             identity               *)
(*    "action" an action of the keymap     "token"  a key found in a file  *)
(*    "file"   a file of a substrate       (in = <<substrate, file>>)      *)
(*    "keymap" a keymap with an [input] section                            *)
(*    "row"    a row of the manifest: to = the thing it is about; a        *)
(*             malformed one has a = <<"malformed", "">>                   *)
(* A finding is <<check, where>>.                                          *)
(***************************************************************************)
EXTENDS MirrorMap

CONSTANTS ServerSide,    \* modules of the server domain
          Snapshot,      \* the function that packs the replicated value
          Saver, Loader, \* the functions of the save/load round trip
          Authorised,    \* mutators the spec says must be guarded
          Canonical,     \* the identity's one true member set
          Substrates,    \* places that must name the key
          Programmatic,  \* actions fired from code
          Compatible,    \* sets of families that may share a key
          Family         \* the intent family of each action

Named(code, kind, name) == {x \in Of(code, kind) : x.to = name}
PlacesOf(code, kind, name) == {x.in : x \in Named(code, kind, name)}
FindingIf(gap, finding) == IF gap THEN {finding} ELSE {}

(* impact_identity: one canonical set, and no literal outside it. *)
IdentityGaps(code) ==
    FindingIf(Cardinality(Of(code, "set")) > 1, <<"split", "identity">>)
    \cup {<<"drift", x.to>> : x \in {y \in Of(code, "lit") : y.to \notin Canonical}}

(* impact_boundary: what the server writes is packed into the snapshot, and *)
(* some client reads it.                                                    *)
BoundaryGaps(code) ==
    IF \E p \in PlacesOf(code, "write", Field) : p[1] \in ServerSide
    THEN LET reads == PlacesOf(code, "read", Field)
         IN  FindingIf(\A p \in reads : Fn(p) # Snapshot, <<"unpacked", Field>>)
             \cup FindingIf(\A p \in reads : p[1] \notin ClientSide, <<"unseen", Field>>)
    ELSE {}

(* impact_lifecycle: a symbol declared and read by nobody. *)
LifecycleGaps(code) ==
    {<<"dead", x.to>> : x \in {y \in Of(code, "decl") : Named(code, "use", y.to) = {}}}

(* impact_authority: a named mutator without a guard call.  The call is    *)
(* matched to the mutator by name, whatever the module.                    *)
GuardedNames(code) ==
    {Fn(x.in) : x \in {y \in Of(code, "call") : y.to \in Guards}} \cap Authorised
AuthorityGaps(code) ==
    {<<"unguarded", d>> : d \in {e \in Defs(code) :
        Fn(e) \in Authorised \ GuardedNames(code)}}

\* A mutant: a function that only writes the key does not touch it.
TouchingReads(code) == {Fn(p) : p \in PlacesOf(code, "read", Field)}
(* impact_persistence: the functions that touch the key; the saver and the *)
(* loader must be among them.                                              *)
Touching(code) ==
    {Fn(p) : p \in PlacesOf(code, "read", Field) \cup PlacesOf(code, "write", Field)}
PersistenceGaps(code) ==
    FindingIf(~({Saver, Loader} \subseteq Touching(code)), <<"lost", Field>>)

(* impact_reference: the substrates with a file that names the key. *)
Registered(code) ==
    {p[1] : p \in {x.in : x \in Of(code, "file")} \cap PlacesOf(code, "token", Field)}
ReferenceGaps(code) == {<<"missing", s>> : s \in Substrates \ Registered(code)}

(* impact_binding: a key that fires two actions of families not declared   *)
(* compatible, an action without a key, or a keymap that cannot be read.   *)
Bound(code) == {x.in : x \in Of(code, "key")}
Collide(x, y) ==
    /\ x.to = y.to /\ x.in # y.in
    /\ {Family[Fn(x.in)], Family[Fn(y.in)]} \notin Compatible
BindingGaps(code) ==
    IF Of(code, "keymap") = {} THEN {<<"unreadable", "keymap">>}
    ELSE {<<"collision", x.to>> : x \in {y \in Of(code, "key") :
            \E z \in Of(code, "key") : Collide(y, z)}}
         \cup {<<"unreachable", Fn(x.in)>> : x \in {y \in Of(code, "action") :
            y.in \notin Bound(code) /\ Fn(y.in) \notin Programmatic}}

Checked == {"value", "congruence", "identity", "boundary", "lifecycle", "authority",
            "persistence", "reference", "binding"}
GapsOf(code, thing) ==
    CASE thing = "value"       -> {<<"raw", d>> : d \in ValueGaps(code)}
      [] thing = "congruence"  -> {<<"mirror", d>> : d \in CongruenceGaps(code)}
      [] thing = "identity"    -> IdentityGaps(code)
      [] thing = "boundary"    -> BoundaryGaps(code)
      [] thing = "lifecycle"   -> LifecycleGaps(code)
      [] thing = "authority"   -> AuthorityGaps(code)
      [] thing = "persistence" -> PersistenceGaps(code)
      [] thing = "reference"   -> ReferenceGaps(code)
      [] thing = "binding"     -> BindingGaps(code)

(* from_dict: a malformed row is dropped and the others are kept. *)
Rows(code) == {x.to : x \in {y \in Of(code, "row") : y.a[1] # "malformed"}}

(* SurfaceManifest.gate: every unsatisfied touchpoint of every row. *)
Gate(code) == UNION {GapsOf(code, thing) : thing \in Rows(code)}
=============================================================================
