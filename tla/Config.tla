------------------------------- MODULE Config -------------------------------
(***************************************************************************)
(* From the environment to a running orchestrator: load_config and         *)
(* select_target of src/watchdog/config.py, and the part of main() in      *)
(* src/watchdog/cli.py that ends a run with exit status 2.                 *)
(*                                                                         *)
(* A field holds Blank if it is missing, no string, or only whitespace.    *)
(* The service name and the credentials of a target are one field, whose   *)
(* content nothing here depends on.                                        *)
(***************************************************************************)
EXTENDS Naturals, Sequences, Functions

CONSTANTS
  None, Blank, Ignored,   \* no value, a blank one, an id that is not read
  EXPECTED_TARGET_COUNT,
  OpaqueNames,            \* svc- and 1-12 alphanumerics
  OtherNames,             \* names an alias should not have
  Ids,                    \* ids other than blank ones
  Environments,           \* what WATCHDOG_TARGETS_JSON may hold
  Arguments               \* what --service may be given, None without it

VARIABLES
  doc,      \* the content of WATCHDOG_TARGETS_JSON
  token,    \* RAILWAY_API_TOKEN is set
  service,  \* --service
  phase,    \* "load", "select", "runtime", "run", or "exit" with status 2
  config,   \* the WatchdogConfig, None until it is loaded
  selected  \* the positions of the targets that are run

configVars == <<doc, token, service, phase, config, selected>>

(* Aliases are opaque names or others, with or without a newline behind.   *)
Alias(name, newline) == [name |-> name, newline |-> newline]

(* What a document may say of a target, and what it may say.               *)
Urls == {"https", "http", Blank}

Described ==
  [object : BOOLEAN, described : BOOLEAN,
   alias : [name : OpaqueNames \cup OtherNames \cup {Blank}, newline : BOOLEAN],
   service_id : Ids \cup {Blank}, health_url : Urls, webui_url : Urls \cup {None},
   ignore_platforms : BOOLEAN]

Documents ==
  [json : {"unset", "invalid", "array", "object"}, listed : BOOLEAN,
   mode : {"railway", "selfhosted", "other"}, project : Ids \cup {Blank},
   environment : Ids \cup {Blank}, excluded : Ids \cup {Blank},
   targets : Seq(Described)]

ASSUME ConfigAssumption ==
  /\ EXPECTED_TARGET_COUNT \in Nat
  /\ Environments \subseteq Documents

ConfigTypeOK ==
  /\ phase \in {"load", "select", "runtime", "run", "exit"}
  /\ config # None =>
       /\ config.mode \in {"railway", "selfhosted"}
       /\ {config.project, config.environment, config.excluded}
            \subseteq IF config.mode = "railway" THEN Ids ELSE {Ignored}
       /\ Len(config.targets) = EXPECTED_TARGET_COUNT
  /\ selected \subseteq 1 .. EXPECTED_TARGET_COUNT

ConfigInit ==
  /\ doc \in Environments
  /\ token \in BOOLEAN
  /\ service \in Arguments
  /\ phase = "load"
  /\ config = None
  /\ selected = {}

-----------------------------------------------------------------------------
(* load_config.                                                            *)

(* _require_nonblank_str of the three ids.                                 *)
HasIds(d) == Blank \notin {d.project, d.environment, d.excluded}

(* Mutant: Railway mode reads the fields of self-hosted mode, too.         *)
AllRead(t, mode) == IF mode = "selfhosted" THEN [t EXCEPT !.service_id = Ignored] ELSE t

(* What _build_target reads of a target: self-hosted mode ignores its id,  *)
(* Railway mode its web UI and the platforms to ignore.                    *)
Read(t, mode) ==
  IF mode = "selfhosted" THEN [t EXCEPT !.service_id = Ignored]
  ELSE [t EXCEPT !.webui_url = None, !.ignore_platforms = TRUE]

(* ALIAS_PATTERN: "$" also matches before a newline at the end.            *)
Matches(alias) == alias.name \in OpaqueNames

ValidTarget(t) ==
  /\ t.object /\ t.described
  /\ t.service_id # Blank
  /\ Matches(t.alias)
  /\ t.health_url = "https"
  /\ t.webui_url \in {None, "https"}
  /\ t.ignore_platforms

Targets(d) == [i \in DOMAIN d.targets |-> Read(d.targets[i], d.mode)]

Aliases(ts) == [i \in DOMAIN ts |-> ts[i].alias]
ServiceIds(ts) == [i \in DOMAIN ts |-> ts[i].service_id]

(* _build_targets                                                          *)
ValidTargets(ts) ==
  /\ Len(ts) = EXPECTED_TARGET_COUNT
  /\ \A i \in DOMAIN ts : ValidTarget(ts[i])
  /\ IsInjective(Aliases(ts))

(* Mutant: only the excluded service is looked for.                        *)
NotExcluded(d) == d.excluded \notin Range(ServiceIds(Targets(d)))

ValidServices(d) ==
  /\ IsInjective(ServiceIds(Targets(d)))
  /\ d.excluded \notin Range(ServiceIds(Targets(d)))

Accepted(d) ==
  /\ d.json = "object" /\ d.listed
  /\ \/ d.mode = "selfhosted"
     \/ d.mode = "railway" /\ HasIds(d) /\ ValidServices(d)
  /\ ValidTargets(Targets(d))

Loaded(d) ==
  IF ~Accepted(d) THEN None
  ELSE LET id(v) == IF d.mode = "selfhosted" THEN Ignored ELSE v IN
       [mode |-> d.mode, project |-> id(d.project), environment |-> id(d.environment),
        excluded |-> id(d.excluded), targets |-> Targets(d)]

-----------------------------------------------------------------------------
(* main()                                                                  *)

Load ==
  /\ phase = "load"
  /\ config' = Loaded(doc)
  /\ phase' = IF Accepted(doc) THEN "select" ELSE "exit"
  /\ UNCHANGED <<doc, token, service, selected>>

(* _select: every target, or select_target's, which need not refuse the    *)
(* excluded service: no target that was loaded is.                         *)
Chosen ==
  IF service = None THEN DOMAIN config.targets
  ELSE {i \in DOMAIN config.targets : config.targets[i].alias = service.alias}

Select ==
  /\ phase = "select"
  /\ selected' = Chosen
  /\ phase' = IF Chosen = {} THEN "exit" ELSE "runtime"
  /\ UNCHANGED <<doc, token, service, config>>

(* _default_runtime                                                        *)
BuildRuntime ==
  /\ phase = "runtime"
  /\ phase' = IF config.mode = "railway" /\ ~token THEN "exit" ELSE "run"
  /\ UNCHANGED <<doc, token, service, config, selected>>

ConfigStep == Load \/ Select \/ BuildRuntime

-----------------------------------------------------------------------------
(* Properties.                                                             *)

(* Two threads of a run never own the same service, nor does any own the   *)
(* excluded one, and --service runs one target at most: what one target's  *)
(* recovery restarts is no other's and what one target mails is under a    *)
(* key of its own.                                                         *)
OwnServices ==
  phase = "run" =>
    \A i \in selected :
      /\ \A j \in (1 .. EXPECTED_TARGET_COUNT) \ {i} :
           /\ config.targets[i].alias # config.targets[j].alias
           /\ config.mode = "railway"
                => doc.targets[i].service_id # doc.targets[j].service_id
      /\ config.mode = "railway" => doc.targets[i].service_id # doc.excluded
      /\ service # None => selected = {i}

(* Changing the mode is changing one word: what only the other mode reads  *)
(* neither makes a document invalid nor changes what is made of it.        *)
Foreign(d) ==
  LET other(t) == IF d.mode = "selfhosted" THEN [t EXCEPT !.service_id = Blank]
                  ELSE [t EXCEPT !.webui_url = "http", !.ignore_platforms = FALSE]
      blank(v) == IF d.mode = "selfhosted" THEN Blank ELSE v
  IN [d EXCEPT !.targets = [i \in DOMAIN d.targets |-> other(d.targets[i])],
               !.project = blank(@), !.environment = blank(@), !.excluded = blank(@)]

ModesSeparate == Loaded(doc) = Loaded(Foreign(doc))

(* NOT guaranteed.  "Aliases must be strictly opaque ... lowercase svc-    *)
(* followed by 1-12 alphanumerics".                                        *)
AliasOpaque ==
  config # None => \A t \in Range(config.targets) :
    t.alias \in {Alias(name, FALSE) : name \in OpaqueNames}
=============================================================================
