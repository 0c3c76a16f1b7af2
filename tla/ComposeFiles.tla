---------------------------- MODULE ComposeFiles ----------------------------
(***************************************************************************)
(* preanalyzer/analyzer/parsers/compose.py and the pairing of base and     *)
(* override files in preanalyzer/pipeline.py.                              *)
(*                                                                         *)
(* A document maps the name of a service to its tagged keys.  A tag is     *)
(* "plain", or one of the merge tags !override and !reset.  The keys are   *)
(* the ones later stages read: image, build, ports, environment and        *)
(* depends_on; each stands for the class of keys merged like it.           *)
(* A port is a sequence of tokens already split at its colons.             *)
(***************************************************************************)
EXTENDS OrderedSelection, SequencesExt, FiniteSetsExt

CONSTANTS
    Services,      \* the names of services, in the order of the strings
    None

\* None is no port and no place in the evidence.
ASSUME NoneAssumption == None \notin Nat

ASSUME ServicesAssumption ==
    /\ Services \in Seq(ToSet(Services))
    /\ \A j, k \in DOMAIN Services : Services[j] = Services[k] => j = k

Tagged(tag, value) == [tag |-> tag, value |-> value]
Plain(value) == Tagged("plain", value)

-----------------------------------------------------------------------------
(* Ports.                                                                  *)

\* _resolve_port_token: a literal and ${VAR:-8080} are numbers; a range is
\* not expanded, but counts as resolved; ${VAR} is not resolved.
Number(token) == IF token.kind \in {"literal", "default"} THEN token.n ELSE None
Resolved(port) == \A t \in {port.host, port.container} \ {None} : t.kind # "variable"
HostNumber(port) == IF port.host = None THEN None ELSE Number(port.host)

\* Mutant: a host port is mapped once.
PortKeyOfHost(port) == <<port.form, port.ip, HostNumber(port), port.protocol>>

\* _port_merge_key: what makes two entries the same mapping.  The entry
\* itself is in the key of a short one only while it is not resolved.
PortKey(port) ==
    IF port.form = "long"
    THEN <<"long", port.ip, port.host, port.container, port.protocol>>
    ELSE <<"short", port.ip, HostNumber(port), Number(port.container), port.protocol,
           IF Resolved(port) THEN None ELSE port>>

\* One step of _merge_keyed_list: an entry of the override takes the place of
\* the last entry with its key, or is appended.
MergePort(ports, e) ==
    LET same == {i \in DOMAIN ports : PortKey(ports[i]) = PortKey(e)}
    IN  IF same = {} THEN Append(ports, e) ELSE [ports EXCEPT ![Max(same)] = e]

MergedPorts(base, over) ==
    LET merged[n \in 0..Len(over)] == IF n = 0 THEN base ELSE MergePort(merged[n - 1], over[n])
    IN  merged[Len(over)]

-----------------------------------------------------------------------------
(* Merging an override file.                                               *)

\* _merge_env_like: the override wins name by name.
MergedEnvironment(base, over) ==
    [n \in DOMAIN base \cup DOMAIN over |-> IF n \in DOMAIN over THEN over[n] ELSE base[n]]

\* The keys whose value is read as a list or a map.
ListedKeys == {"ports", "environment", "depends_on"}

\* The branches of MergeService for a key both files have.
MergedValue(key, base, over) ==
    CASE key = "environment" -> MergedEnvironment(base, over)
      [] key = "ports"       -> MergedPorts(base, over)
      [] key = "depends_on"  -> base \o over
      [] OTHER               -> over

\* A tag left in the base survives the merge, which reads its value and raises,
\* unless the override only replaces the key.
MergeService(base, over) ==
    LET keys == {k \in DOMAIN base \cup DOMAIN over :
                    k \in DOMAIN over => over[k].tag # "reset"}
    IN  [k \in keys |->
            IF k \notin DOMAIN over THEN base[k]
            ELSE IF over[k].tag = "override" \/ k \notin DOMAIN base THEN Plain(over[k].value)
            ELSE IF base[k].tag = "plain" THEN Plain(MergedValue(k, base[k].value, over[k].value))
            ELSE IF k \in ListedKeys THEN base[k]
            ELSE over[k]]

\* A service of the override may itself be !reset, which removes it.
MergeDocuments(base, over) ==
    LET names == {s \in DOMAIN base \cup DOMAIN over : s \in DOMAIN over => over[s] # None}
    IN  [s \in names |->
            IF s \notin DOMAIN over THEN base[s]
            ELSE MergeService(IF s \in DOMAIN base THEN base[s] ELSE <<>>, over[s])]

-----------------------------------------------------------------------------
(* Parsing a document.                                                     *)

\* raw.get(key) or the empty value.
Key(raw, key, default) == IF key \in DOMAIN raw THEN raw[key].value ELSE default

\* What is in the place of an image that still has its merge tag.
MergeTag == "merge tag"

HasTag(raw, key) == key \in DOMAIN raw /\ raw[key].tag # "plain"

\* ParseService.  The environment is a function from names to values.  The
\* image is taken as it is; a build that is no text and no map is none.
ParseService(name, raw) ==
    [name        |-> name,
     image       |-> IF HasTag(raw, "image") THEN MergeTag ELSE Key(raw, "image", None),
     context     |-> IF HasTag(raw, "build") THEN None ELSE Key(raw, "build", None),
     ports       |-> Key(raw, "ports", <<>>),
     environment |-> Key(raw, "environment", <<>>),
     depends_on  |-> Key(raw, "depends_on", <<>>)]

\* _guard around _parse_document: a merge tag where a list or a map is read,
\* or a document that is no YAML, loses the whole file to one warning.
Unparsable(document) ==
    \/ document = None
    \/ \E s \in DOMAIN document :
          \/ document[s] = None
          \/ \E k \in ListedKeys : HasTag(document[s], k)

\* The services of a document in the order of their names.
ParseDocument(document) ==
    LET named == At(Services, {k \in DOMAIN Services : Services[k] \in DOMAIN document})
    IN  [i \in DOMAIN named |-> ParseService(named[i], document[named[i]])]

-----------------------------------------------------------------------------
(* Which files are read together.  A compose artifact of a tree is a       *)
(* record with its directory, whether its name is one of the override      *)
(* names, and its document.                                                *)

ComposeIn(tree, dir, override) ==
    {i \in DOMAIN tree : /\ tree[i].type = "compose" /\ tree[i].dir = dir
                         /\ tree[i].override = override}

\* _pair_compose_files: exactly one base and one override of a directory.
Pairs(tree, dir) ==
    Cardinality(ComposeIn(tree, dir, FALSE)) = 1 /\ Cardinality(ComposeIn(tree, dir, TRUE)) = 1

\* Mutant: every file is read alone.
DocumentAlone(tree, i) == tree[i].document

\* The document parsed under the path of artifact i: the pair's under its
\* base, none under its override, everything else alone.  A !reset service of
\* the base has no keys to copy.
Document(tree, i) ==
    LET overrides == ComposeIn(tree, tree[i].dir, TRUE)
        over == tree[CHOOSE j \in overrides : TRUE].document
    IN  IF ~Pairs(tree, tree[i].dir) THEN tree[i].document
        ELSE IF tree[i].override THEN <<>>
        ELSE IF tree[i].document = None \/ over = None THEN None
        ELSE IF \E s \in DOMAIN tree[i].document : tree[i].document[s] = None THEN None
        ELSE MergeDocuments(tree[i].document, over)

\* try_parse and try_parse_with_override: the services, or none.
ServicesOf(tree, i) ==
    IF Unparsable(Document(tree, i)) THEN <<>> ELSE ParseDocument(Document(tree, i))
=============================================================================
