-------------------------- MODULE MCProfileDecisions --------------------------
(***************************************************************************)
(* Small instances of ProfileDecisions.  The trees are chosen so that      *)
(* every kind of field, every disposition and every conflict occurs.       *)
(***************************************************************************)
EXTENDS ProfileDecisions, TLC

App(commands, gap, port, secrets, layout) ==
    [role |-> "application", commands |-> commands, gap |-> gap, port |-> port,
     secrets |-> secrets, layout |-> layout]

\* One command, and a shell script behind it; a secret.
Script(cmd, layout) == <<"api">> :> App({cmd}, TRUE, None, {"token"}, layout)

\* A component in a directory below another's: its id has a slash.
Nested == <<"api">> :> App({}, FALSE, None, {}, 1)
            @@ <<"api", "web">> :> App({"serve"}, TRUE, None, {"token"}, 1)

\* An application with one command, beside a helper with two.
Pair == <<"api">> :> App({"serve"}, TRUE, None, {}, 1)
          @@ <<"web">> :> [App({"serve", "start"}, TRUE, None, {}, 1) EXCEPT !.role = "infrastructure"]

\* Two commands.
Torn == <<"api">> :> App({"serve", "start"}, TRUE, None, {}, 1)

\* A web application and a database.
Shop == <<"api">> :> App({}, FALSE, None, {}, 1)
          @@ <<"web">> :> [App({}, FALSE, None, {}, 1) EXCEPT !.role = "dependency"]

\* An application with a port, sure or not.
Web(port) == <<"api">> :> App({}, FALSE, port, {}, 1)

mcNames == <<"api", "web">>
mcComponents == {<<"api">>, <<"web">>, <<"api", "web">>}
mcLayouts == {1, 2}
mcTrees == {Script("serve", 1), Script("start", 2), Nested, Pair, Shop, Web("medium")}
mcTorn == {Torn}
==============================================================================
