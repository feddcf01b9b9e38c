---------------------------- MODULE MCController ----------------------------
(* The controller's side of a run, one part of it in each behaviour.         *)
EXTENDS RunFlow, SbplImports, ChildDelivery

VARIABLE part

controllerVars == <<part, rf, lx, im, cd>>

\* base, and base with one field replaced by one of its alternatives.
varied(base, alternatives) ==
  {base} \cup UNION {{[base EXCEPT ![f] = v] : v \in alternatives[f]} : f \in DOMAIN alternatives}

-----------------------------------------------------------------------------
(* What a run reads.                                                        *)

Source == <<<<"source", 1>>>>
Policy(names) == [augments |-> names, sbpl_source |-> {Source}]
SomePolicies ==
  {{}} \cup {{p} : p \in varied(Policy({<<"a", "b">>}),
                     [augments |-> {{}, {<<>>}, {<<"b">>}, {<<"gone">>}, {<<"a", InvalidName>>}, {<<Mistyped>>}},
                      sbpl_source |-> {{}, {<<<<Mistyped, 0>>>>}}])
                   \cup {Policy({<<"a", "gone">>}), [augments |-> {}, sbpl_source |-> {}]}}

Plain == NoSelector @@ [file |-> "readable", json |-> "object", schema_version |-> "current",
                        policy |-> {Policy({<<"a">>})}, actors |-> <<>>, overrides |-> <<>>]
Named == [Plain EXCEPT !.runner = {[NoRunner EXCEPT !.id = {"r1"}, !.required_entitlements = {{"e"}}]}]
Actors == [Plain EXCEPT !.policy = {},
             !.actors = <<[actor_id |-> "one", policy |-> {Policy({<<"a">>})}],
                          [actor_id |-> "two", policy |-> {}],
                          [actor_id |-> "three", policy |-> {Policy({<<"b">>})}]>>]

RunnerObjects ==
  {{}} \cup {{r} : r \in varied([NoRunner EXCEPT !.id = {"r1"}],
    [object |-> {FALSE}, unknown |-> {TRUE}, id |-> {{}, {"r2"}, {"none"}, {Mistyped}},
     service |-> {{"s2"}, {Mistyped}}, required_entitlements |-> {{{"e"}}, {{"f"}}, {{Mistyped}}},
     mode |-> {{"standard"}, {"byoxpc"}, {"other"}, {Mistyped}}])}
  \cup {{[NoRunner EXCEPT !.service = {"s1"}]}, {[NoRunner EXCEPT !.service = {"s2"}]}}

Requests ==
  varied(Plain,
    [file |-> {"unreadable"}, json |-> {"invalid", "null", "array"},
     schema_version |-> {"other", "absent", "null", Mistyped}, policy |-> SomePolicies,
     runner_id |-> {{"r1"}, {"r2"}, {Mistyped}}, runner_service |-> {{"s1"}, {Mistyped}},
     runner_mode |-> {{"standard"}, {"byoxpc"}, {"other"}}, required_entitlements |-> {{{"e"}}, {{"f"}}, {{Mistyped}}},
     runner |-> RunnerObjects,
     overrides |-> [{"worker"} -> {"malformed", "empty", "relative", "app", "other"}]])
  \cup varied(Named, [runner_id |-> {{"r2"}}, runner_mode |-> {{"byoxpc"}}, policy |-> SomePolicies,
                      overrides |-> [{"validator"} -> {"app", "other"}]])
  \cup {[Actors EXCEPT !.actors[i].policy = p] : i \in 1..3, p \in SomePolicies}

Entry(role) == [typed |-> TRUE, bundle_id |-> {"name"}, sha256 |-> {role}, keys |-> {"e", "f"},
                granted |-> {"e"}, entitlements_error |-> FALSE]
Manifest == [loaded |-> TRUE, entries |-> [role \in Roles |-> <<Entry(role)>>]]
Manifests ==
  {Manifest, [Manifest EXCEPT !.loaded = FALSE]}
  \cup {[Manifest EXCEPT !.entries[role] = es] : role \in {"service", "worker"},
          es \in {<<>>, <<Entry("other"), Entry("other")>>}
                 \cup {<<e>> : e \in varied(Entry("other"),
                         [typed |-> {FALSE}, bundle_id |-> {{}, {""}}, sha256 |-> {{}, {"malformed"}},
                          entitlements_error |-> {TRUE}])}}

Worker == [keys |-> {"e", "f"}, granted |-> {"e"}, error |-> FALSE]
Record(id, service) == [id |-> id, service_name |-> service, state |-> "installed", current_protocol |-> TRUE,
                        kind |-> {"byoxpc"}, scope |-> "user", worker |-> {Worker}, bundle |-> "other"]
Registry == [readable |-> TRUE, runners |-> <<Record("r1", "s1"), Record("r2", "s2")>>]
Registries ==
  {Registry, [Registry EXCEPT !.readable = FALSE], [Registry EXCEPT !.runners = <<>>]}
  \cup {[Registry EXCEPT !.runners[1] = r] :
          r \in varied(Record("r1", "s1"),
                  [state |-> {"pending"}, current_protocol |-> {FALSE}, kind |-> {{}, {"standard"}},
                   scope |-> {"system"}, bundle |-> {"app"}, id |-> {"r2"},
                   worker |-> {{}, {Unread}, {[Worker EXCEPT !.granted = {}]}}])}

Library == [a |-> {<<"a", 1>>}, b |-> {<<"b", 1>>}, gone |-> {}]
Files == [path \in {"app", "other"} \X Roles |-> path[2]]
FileSets == {Files} \cup {[Files EXCEPT ![path] = new] :
               path \in {<<"app", "worker">>, <<"other", "worker">>, <<"app", "service">>},
               new \in {"changed"} \cup Unhashed}

Disk == [manifest |-> Manifest, request |-> Plain, registry |-> Registry, augments |-> Library,
         files |-> Files]
NamedDisk == [Disk EXCEPT !.request = Named]
RunDisks == varied(Disk, [manifest |-> Manifests, request |-> Requests, files |-> FileSets])
         \cup varied(NamedDisk, [manifest |-> Manifests, registry |-> Registries, files |-> FileSets])

Start == [args |-> <<"path">>, verify |-> FALSE, app_root |-> TRUE, now |-> 4, timebase |-> <<1, 1>>,
          disk |-> Disk]
Modes == {<<"--runner-mode", m, "path">> : m \in {"standard", "byoxpc", "other"}}

MCRuns ==
  varied(Start, [args |-> Modes \cup {<<>>, <<"-h">>, <<"path", "-x">>, <<"path", "--timeout-ms">>,
                                      <<"path", "--runner-mode">>, <<"--timeout-ms", "x">>,
                                      <<"--timeout-ms", "0", "path">>, <<"--timeout-ms", "2", "path", "--", "-x">>},
                 verify |-> {TRUE}, app_root |-> {FALSE}, now |-> {8, 10},
                 timebase |-> {<<2, 1>>, <<2, 3>>, <<3, 1>>}, disk |-> RunDisks])
  \cup {[Start EXCEPT !.args = args, !.disk.request.runner = r] : args \in Modes, r \in RunnerObjects}
  \cup {[Start EXCEPT !.args = args, !.disk.request.runner_mode = {mode}] :
          args \in Modes, mode \in {"standard", "byoxpc"}}

MCLater ==
  [manifest |-> {[Manifest EXCEPT !.loaded = FALSE], [Manifest EXCEPT !.entries["worker"][1].sha256 = {"other"}]},
   request |-> {Plain, [Named EXCEPT !.policy = {}]},
   registry |-> {Registry, [Registry EXCEPT !.runners[1] = Record("r1", "s9")]},
   augments |-> {[Library EXCEPT !.a = {}], [Library EXCEPT !.a = {<<"a", 2>>}]},
   files |-> {[Files EXCEPT ![<<"other", "worker">>] = "changed"]}]

Reply == [schema_version |-> "current", applied_profile |-> FALSE, compiled_profile |-> {},
          normalized_outcome |-> {"finished"}, request_failure |-> {}]
Profile == [schema_version |-> 2, status |-> "captured", context |-> {<<"worker", "before_apply">>}]
Replies ==
  varied(Reply, [schema_version |-> {"other", "absent"}, applied_profile |-> {TRUE},
                 compiled_profile |-> {{p} : p \in varied(Profile,
                    [schema_version |-> {1}, status |-> {"unavailable", "other"}, context |-> {{}}])},
                 normalized_outcome |-> {{}, {"failed"}}])
  \cup {[Reply EXCEPT !.normalized_outcome = {"bad_request"}, !.request_failure = {"invalid_json"}]}

Client == [launched |-> TRUE, delivered |-> TRUE, stdout |-> "json", protocol |-> "current", valid |-> TRUE,
           terminal |-> "runner_reply", retained |-> "whole", reply |-> Reply]
MCClients ==
  varied(Client, [launched |-> {FALSE}, delivered |-> {FALSE}, stdout |-> {"oversized", "garbage", "empty"},
                  protocol |-> {Mistyped, "other"}, valid |-> {FALSE}, retained |-> {"truncated", "not_json"},
                  terminal |-> {"xpc_timeout", "acquisition_failed", "submission_refused", "protocol_error",
                                "cancelled"},
                  reply |-> Replies])
  \cup varied([Client EXCEPT !.terminal = "xpc_error"],
              [delivered |-> {FALSE}, stdout |-> {"garbage"}, protocol |-> {"other"}, valid |-> {FALSE}])

Check == [ran |-> TRUE, stdout |-> "json", kind |-> TRUE, current |-> TRUE, outcome |-> {"ok"}]
MCChecks == varied(Check, [ran |-> {FALSE}, stdout |-> {"oversized", "garbage", "empty"}, kind |-> {FALSE},
                           current |-> {FALSE}, outcome |-> {{}, {"compile_error"}}])

-----------------------------------------------------------------------------
(* Policy texts and the files they import.                                  *)

joined(fragments) == FoldLeft(LAMBDA t, f : t \o f, <<>>, fragments)
Fragments == {<<"(", "import", " ">>, <<"(", " ", "import", "a">>, <<"\"", "a", "\"">>,
              <<"(", "import", "\n", "\"", "\\", "\"", "\"", " ", ")">>,
              <<"\"">>, <<")">>, <<";">>, <<"\n">>, <<"\\">>, <<"a">>}
MCSources == {joined(f) : f \in UNION {[1..n -> Fragments] : n \in 0..4}}

Import(name) == <<"(", "import", " ", "\"">> \o name \o <<"\"", ")">>
Importing(names) == joined([i \in DOMAIN names |-> Import(names[i])])
a1 == <<"a">>
b1 == <<"b">>
c1 == <<"c">>
d1 == <<"d">>
MCNames == <<a1, b1, c1, d1>>
NonLiteral == <<"(", "import", " ", "a", ")">>

\* "a" is looked up in two directories, "d" is another way to the file of "c".
MCCandidates == (a1 :> <<1, 2>>) @@ (b1 :> <<3>>) @@ (c1 :> <<4>>) @@ (d1 :> <<5>>)
MCCanonical == (1 :> 1) @@ (2 :> 2) @@ (3 :> 3) @@ (4 :> 4) @@ (5 :> 4)

Held == {Importing(<<>>), Importing(<<b1>>), Importing(<<c1>>), Importing(<<a1, d1>>), <<"missing">>}
MCDisks ==
  {[p \in 1..4 |-> f[p]] : f \in [1..4 -> Held]}
  \cup {[[p \in 1..4 |-> Importing(<<>>)] EXCEPT ![3] = held] :
          held \in {NonLiteral, <<"irregular">>, <<"unreadable">>, NotUtf8}}
MCReplacements == {<<1, <<"missing">>>>, <<3, Importing(<<a1, d1>>)>>, <<4, Importing(<<>>)>>}

Asked == [asker |-> "dossier", source |-> Importing(<<b1>>), oversize |-> FALSE, format |-> "sbpl",
          absent |-> FALSE, nul |-> FALSE, params |-> <<>>]
MCPolicies ==
  varied(Asked, [source |-> {Importing(<<a1, c1>>), NonLiteral}, oversize |-> {TRUE}])
  \cup varied([Asked EXCEPT !.asker = "check", !.source = Importing(<<>>), !.params = <<"one", "two">>],
              [oversize |-> {TRUE}, format |-> {"other"}, absent |-> {TRUE}, nul |-> {TRUE},
               params |-> {<<>>, <<"one", "nul">>}])

MCScripts == {<<>>, <<"read", "stdout">>, <<"drain", "stdout", "stderr">>, <<"read", "stderr", "stderr", "drain">>,
              <<"stdout", "stdout", "stderr", "stderr", "drain", "stdout">>,
              <<"stderr", "stderr", "stderr", "stdout", "read">>}

-----------------------------------------------------------------------------
startsOf(p, starts) == IF part = p THEN starts ELSE {CHOOSE s \in starts : TRUE}

Init ==
  /\ part \in {"run", "lex", "imports", "delivery"}
  /\ rf \in startsOf("run", RunStarts)
  /\ lx \in startsOf("lex", LexStarts)
  /\ im \in startsOf("imports", ImportStarts)
  /\ cd \in startsOf("delivery", DeliveryStarts)

Next ==
  \/ part = "run" /\ NextRun /\ UNCHANGED <<part, lx, im, cd>>
  \/ part = "lex" /\ Scan /\ UNCHANGED <<part, rf, im, cd>>
  \/ part = "imports" /\ NextImport /\ UNCHANGED <<part, rf, lx, cd>>
  \/ part = "delivery" /\ NextDelivery /\ UNCHANGED <<part, rf, lx, im>>

\* The threads of the controller and the child are scheduled.
FairSpec ==
  /\ Init /\ [][Next]_controllerVars
  /\ WF_controllerVars(part = "delivery" /\ Controller /\ UNCHANGED <<part, rf, lx, im>>)
  /\ WF_controllerVars(part = "delivery" /\ Child /\ UNCHANGED <<part, rf, lx, im>>)
=============================================================================
