------------------------------ MODULE MCCodeMap -----------------------------
(* Three small code bases for CodeMap: one whose helpers hand a resolved   *)
(* and a base value on, one with a mirror service, its client and its      *)
(* route, and one with a surface of the other kinds.                       *)
EXTENDS CodeMap

None == <<"none", "">>
Fact(k, m, f, to, a) == [k |-> k, in |-> <<m, f>>, to |-> to, a |-> a]
Facts(k, ms, fs, tos, as) ==
    {Fact(k, m, f, t, a) : m \in ms, f \in fs, t \in tos, a \in as}
Def(m, fs) == Facts("def", {m}, fs, {""}, {None})
Row(thing) == Fact("row", "manifest", "", thing, None)

(* A screen, a helper and a fetcher; all three read the field raw. *)
Resolved == <<"R", "">>
Base == <<"B", "">>
Param == <<"param", "">>
ValueWorld ==
    [base |-> {Row("value")} \cup Def("ui", {"show"}) \cup Def("lib", {"helper", "fetch"})
              \cup Facts("read", {"ui"}, {"show"}, {"cost"}, {None})
              \cup Facts("read", {"lib"}, {"helper", "fetch"}, {"cost"}, {None}),
     pool |-> Facts("call", {"ui"}, {"show"}, {"helper"},
                    {Resolved, Base, <<"RB", "">>, <<"call", "fetch">>, None})
              \cup Facts("call", {"ui"}, {"show"}, {"fetch"}, {Resolved, Base})
              \cup Facts("call", {"lib"}, {"helper"}, {"fetch"}, {Resolved, Param})
              \cup Facts("call", {"lib"}, {"fetch"}, {"helper"}, {Param, Base})
              \cup Facts("return", {"lib"}, {"fetch"}, {""},
                         {Resolved, Base, Param, <<"call", "helper">>, None})
              \cup Facts("return", {"lib"}, {"helper"}, {""}, {Resolved, Param, Base})
              \cup Facts("call", {"ui"}, {"show"}, {"resolve"}, {None})
              \cup Def("test", {"helper"})]

(* A service whose snapshot lands in "vault"; claim is the mutator. *)
Here(f, to) == Fact("call", "svc", f, to, None)
MirrorWorld ==
    [base |-> {Row("congruence")}
              \cup Facts("write", {"svc"}, {"mirror_apply", "claim"}, {"vault"}, {None})
              \cup {Fact("call", "ui", "click", "claim", None),
                    Fact("call", "net", "route", "claim", None),
                    Fact("rpc", "net", "route", "", None)}
              \cup Def("svc", {"mirror_apply", "claim", "give", "_put", "may"})
              \cup Def("ui", {"click"}) \cup Def("net", {"route"}),
     pool |-> Facts("write", {"svc"}, {"give", "_put"}, {"vault"}, {None})
              \cup {Here("claim", "_put"), Here("claim", "give"), Here("claim", "may"),
                    Here("claim", "is_server"), Here("give", "may"), Here("may", "is_server"),
                    Here("may", "give"), Here("give", "_put"), Here("mirror_apply", "_put"),
                    Fact("call", "ui", "click", "give", None),
                    Fact("call", "net", "route", "give", None),
                    Fact("call", "test", "probe", "give", None),
                    Fact("call", "ui", "click", "give", <<"other", "">>)}]

(* A cost the server writes and the client shows, an identity, a keymap    *)
(* and the documents that must name the cost.                              *)
SurfaceWorld ==
    [base |-> {Row(thing) : thing \in Checked}
              \cup Def("net", {"apply", "pack"}) \cup Def("ui", {"show"})
              \cup {Fact("file", "docs", "guide", "", None), Fact("read", "net", "save", "cost", None)},
     pool |-> {Fact("write", "net", "apply", "cost", None),
               Fact("read", "net", "pack", "cost", None),
               Fact("read", "ui", "show", "cost", None),
               Fact("write", "net", "load", "cost", None),
               Fact("call", "net", "apply", "allowed", None),
               Fact("call", "ui", "show", "resolve", None),
               Fact("decl", "net", "", "knob", None), Fact("use", "ui", "show", "knob", None),
               Fact("set", "net", "", "", None), Fact("set", "ui", "", "", None),
               Fact("lit", "ui", "show", "typo", None), Fact("lit", "ui", "show", "ok", None),
               Fact("keymap", "keys", "", "", None),
               Fact("action", "keys", "cast", "", None), Fact("action", "keys", "shop", "", None),
               Fact("key", "keys", "cast", "one", None), Fact("key", "keys", "shop", "one", None),
               Fact("token", "docs", "guide", "cost", None),
               Fact("row", "manifest", "", "binding", <<"malformed", "">>)}]

MCWorlds == {ValueWorld, MirrorWorld, SurfaceWorld}
MCFamily == [action \in {"cast", "shop"} |-> action]
=============================================================================
