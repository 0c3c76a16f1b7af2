---------------------------- MODULE MCPreanalyzer ----------------------------
(***************************************************************************)
(* Repositories for TLC: a package and its Dockerfiles in api/, files at   *)
(* the top, and Compose files alone, overridden or repeated.               *)
(***************************************************************************)
EXTENDS Preanalyzer, TLC

MCServices == <<"api", "db", "web">>
MCIds == <<<<"api">>, <<"db">>, <<"root">>, <<"web">>>>
MCSecretNames == {"API_KEY"}
MCScriptPaths == {"run.sh"}
MCVariableTokens == {"$PORT"}
MCAgentCommands == {[form |-> "shell", tokens |-> <<"node", "agent">>]}

Exec(tokens) == [form |-> "exec", tokens |-> tokens]
Shell(tokens) == [form |-> "shell", tokens |-> tokens]

Start(command) == [keyword |-> "CMD", command |-> command]
Entry(command) == [keyword |-> "ENTRYPOINT", command |-> command]
Expose(port) == [keyword |-> "EXPOSE", ports |-> <<port>>]

Dockerfile(dir, name, lines) ==
    <<[dir |-> dir, name |-> name, type |-> "dockerfile", lines |-> lines]>>
Package(dir, scripts) ==
    <<[dir |-> dir, name |-> "package.json", type |-> "nodejs", scripts |-> scripts,
       dependencies |-> <<"express">>]>>
Compose(dir, override, document) ==
    <<[dir |-> dir, name |-> IF override THEN "compose.override.yml" ELSE "compose.yml",
       type |-> "compose", override |-> override, document |-> document]>>
Script(name, tokens) == [name |-> name, command |-> Shell(tokens)]

Literal(n) == [kind |-> "literal", n |-> n]
Port(host, container) ==
    [form |-> "short", ip |-> None, host |-> Literal(host), container |-> Literal(container), protocol |-> "tcp"]
Ports(ports) == [ports |-> Plain(ports)]
Image(name) == [image |-> Plain(name)]

Uri(host) == [kind |-> "uri", credentials |-> TRUE, host |-> host]

-----------------------------------------------------------------------------
ApiDockerfiles ==
    {<<>>} \cup {Dockerfile(<<"api">>, "Dockerfile", lines) : lines \in
        {<<Expose(8080), Start(Exec(<<"node", "server">>))>>,
         <<Start(Shell(<<"npm", "start">>))>>,
         <<Start(Exec(<<"old">>)), [keyword |-> "FROM"], Entry(Exec(<<"node">>)), Start(Exec(<<"server">>))>>,
         <<Entry(Exec(<<"run.sh">>))>>,
         <<Start(Shell(<<"migrate", "&&", "node", "server">>))>>}}

DevDockerfiles ==
    {<<>>, Dockerfile(<<"api">>, "Dockerfile.dev", <<Expose(9090), Start(Exec(<<"node", "dev">>))>>),
     Dockerfile(<<"api">>, "Dockerfile.dev", <<Start(Exec(<<"node", "server">>))>>)}

ApiPackages ==
    {<<>>} \cup {Package(<<"api">>, scripts) : scripts \in
        {<<Script("start", <<"node", "server">>)>>,
         <<Script("serve", <<"node", "server">>), Script("start", <<"npm", "run", "serve">>)>>,
         <<Script("serve", <<"npm", "start">>), Script("start", <<"npm", "run", "serve">>)>>}}

Api == [build |-> Plain(<<"api">>)] @@ Ports(<<Port(80, 8080)>>)
Built == [api |-> Api, db |-> Image("postgres")]
ImageOnly == [api |-> Image("shop"), db |-> Image("postgres")]
Web == [web |-> [build |-> Plain(<<>>), depends_on |-> Plain(<<"db">>),
                 environment |-> Plain([DATABASE_URL |-> Uri("db"), API_KEY |-> [kind |-> "plain"]])],
        db |-> Image("postgres")]

\* What lies at the top and, in path order after a top package, in web/.
ComposeSets ==
    {<<top, <<>>>> : top \in
        {<<>>, Compose(<<>>, FALSE, ImageOnly), Compose(<<>>, FALSE, Web), Compose(<<>>, FALSE, Built),
         Compose(<<>>, TRUE, [api |-> Ports(<<Port(80, 9090), Port(80, 8080)>>)]) \o Compose(<<>>, FALSE, Built),
         Compose(<<>>, TRUE, [api |-> [ports |-> Tagged("override", <<Port(80, 9090)>>)]])
            \o Compose(<<>>, FALSE, Built)}}
    \cup {<<Compose(<<>>, FALSE, Built), Compose(<<"web">>, FALSE, [api |-> Api])>>,
           <<<<>>, Compose(<<"web">>, TRUE, [api |-> [image |-> Tagged("override", "shop")]])>>}

TopPackages ==
    {<<>>, Package(<<>>, <<Script("start", <<"node", "top">>)>>)}

MCTrees ==
    {d \o v \o p \o c[1] \o t \o c[2] :
        d \in ApiDockerfiles, v \in DevDockerfiles, p \in ApiPackages, c \in ComposeSets, t \in TopPackages}

MCProfiles ==
    {None,
     [registry |-> "reg", namespace |-> None, ingress_host |-> None, ports |-> <<>>],
     [registry |-> None, namespace |-> "ns", ingress_host |-> None, ports |-> <<>>],
     [registry |-> "reg", namespace |-> "ns", ingress_host |-> "host", ports |-> <<>>],
     [registry |-> "reg", namespace |-> "ns", ingress_host |-> "host", ports |-> (<<"api">> :> 3000)]}
=============================================================================
