--------------------------- MODULE MCCommandLine ----------------------------
(* Instances of CommandLine for TLC.  Documents differ from a good one in  *)
(* the header, or in one target, or in which ids and aliases their targets *)
(* share.  Names are those of up to five characters.  One secret is a part *)
(* of another, as a host is of its URL, and one begins as another ends.    *)
EXTENDS CommandLine

MCOpaqueNames == {"svc-a", "svc-b"}
MCOtherNames == {"Service"}
MCIds == {"id1", "id2"}

Good == [object |-> TRUE, described |-> TRUE, alias |-> Alias("svc-a", FALSE),
         service_id |-> "id1", health_url |-> "https", webui_url |-> None,
         ignore_platforms |-> TRUE]
Second == [Good EXCEPT !.alias = Alias("svc-b", FALSE), !.service_id = "id2"]

Named ==
  {[Good EXCEPT !.alias = Alias(name, newline), !.service_id = id] :
     name \in MCOpaqueNames \cup MCOtherNames \cup {Blank}, newline \in BOOLEAN,
     id \in MCIds \cup {Blank}}
Defective ==
  {[Good EXCEPT !.object = FALSE], [Good EXCEPT !.described = FALSE],
   [Good EXCEPT !.ignore_platforms = FALSE]}
    \cup {[Good EXCEPT !.health_url = url] : url \in {"http", Blank}}
    \cup {[Good EXCEPT !.webui_url = url] : url \in {"https", "http", Blank}}

TargetLists ==
  {<<>>, <<Good>>, <<Good, Second, Good>>}
    \cup {<<t, u>> : t \in Named \cup Defective, u \in Named}

Headers ==
  {<<"id3", "id3", "id3">>, <<"id3", "id3", "id2">>, <<Blank, "id3", "id3">>,
   <<"id3", Blank, "id3">>, <<"id3", "id3", Blank>>}

Document(json, mode, listed, header, targets) ==
  [json |-> json, mode |-> mode, listed |-> listed, project |-> header[1],
   environment |-> header[2], excluded |-> header[3], targets |-> targets]

MCEnvironments ==
  {Document(json, "railway", listed, <<"id3", "id3", "id3">>, <<Good, Second>>) :
     json \in {"unset", "invalid", "array", "object"}, listed \in BOOLEAN}
    \cup {Document("object", mode, TRUE, header, targets) :
            mode \in {"railway", "selfhosted", "other"}, header \in Headers,
            targets \in TargetLists}

MCAllIds == MCIds \cup {"id3"}
MCArguments ==
  {None} \cup {[alias |-> Alias(name, FALSE)] : name \in {"svc-a", "svc-b", "svc-c"}}
MCFollowed ==
  {<<Document("object", "selfhosted", TRUE, <<"id3", "id3", "id3">>, <<Good, Second>>),
     FALSE, None>>}

MCSpaces == {"\n"}
MCJoined == {".", "\\"}
MCWritten == {"x", "a", ".", "\\", "&", "\n", ";"}
MCChars == MCWritten \cup {"M", " "}
MCNames == BoundedSeq(MCWritten, 5)
MCSecrets == <<<<"a", ".", "x">>, <<"a", ".">>, <<"x", "a">>>>
=============================================================================
