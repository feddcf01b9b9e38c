----------------------------- MODULE SbplImports -----------------------------
(***************************************************************************)
(* The walk over the import closure of a policy source (sbpl_imports.rs),  *)
(* as the controller's dossier makes it (dossier.rs, Imports::scan) and as *)
(* sbpl-check makes it before it compiles the source (bin/sbpl-check.rs).  *)
(*                                                                         *)
(* A file is the text it holds, one of the Unreadable kinds, or not UTF-8; *)
(* a text stands for its hash.  Paths are numbers in the order of their    *)
(* names.  Another process may replace files during the walk.              *)
(***************************************************************************)
EXTENDS SbplLex

CONSTANTS
  Policies,          \* what is walked: who asks, the source, its parameters
  Names,             \* the import names, in byte order
  Candidates,        \* for each name, the paths it is looked up at, in order
  Canonical,         \* the path each path leads to
  Disks,             \* what the paths hold at the start
  Replacements,      \* pairs of a path and what may replace its file
  IMPORT_MAX_DEPTH, IMPORT_MAX_COUNT

ASSUME ImportAssumption == IMPORT_MAX_DEPTH \in Nat /\ IMPORT_MAX_COUNT \in Nat

VARIABLE im

Unreadable == {<<"missing">>, <<"irregular">>, <<"unreadable">>}
NotUtf8 == <<"not utf8">>

Texts == ({p.source : p \in Policies} \cup UNION {Range(d) : d \in Disks} \cup {r[2] : r \in Replacements})
           \ (Unreadable \cup {NotUtf8})
scanOf == [t \in Texts |-> import_scan(t)]
refsOf == [t \in Texts |-> SelectSeq(Names, LAMBDA n : n \in scanOf[t].refs)]

-----------------------------------------------------------------------------
(* The walk: one frame for the source, one for each file being expanded.    *)

Frame(name, path, text) == [name |-> name, path |-> path, todo |-> refsOf[text]]
ImportRecord(name, path, content, error) == [name |-> name, path |-> path, sha256 |-> content, error |-> error]

resolve_import_path(name) ==
  LET found == SelectSeq(Candidates[name], LAMBDA p : im.disk[Canonical[p]] # <<"missing">>)
  IN IF found = <<>> THEN {} ELSE {Canonical[found[1]]}

in_progress == {im.stack[i].path : i \in 2..Len(im.stack)}
in_progress_names == [i \in 1..Len(im.stack) - 1 |-> im.stack[i + 1].name]
depth == Len(im.stack) - 1

failed(s, what) == [s EXCEPT !.failure = IF @ = {} THEN {what} ELSE @]
exceed(s, bound) == failed([s EXCEPT !.exceeded = IF @ = {} THEN {bound} ELSE @], bound)
push_record(s, r) == [s EXCEPT !.records = Append(@, r)]

\* Mutant: a file still being expanded is passed over like one already expanded.
closes_cycle_Ignored(s, name) == s

closes_cycle(s, name) ==
  IF s.cycle = {} THEN failed([s EXCEPT !.cycle = {Append(in_progress_names, name)}], "cycle") ELSE s

\* Up to the point where a file is read.
dfs_visit_import(s, name) ==
  LET found == resolve_import_path(name)
      path == CHOOSE p \in found : TRUE
      full == Len(s.records) >= IMPORT_MAX_COUNT
      unresolved == [s EXCEPT !.unresolved_seen = @ \cup {name}]
      visited == [s EXCEPT !.visited = @ \cup {path}]
  IN IF found = {}
     THEN CASE name \in s.unresolved_seen -> s
            [] full -> exceed(unresolved, "count")
            [] OTHER -> push_record(failed(unresolved, "not found"), ImportRecord(name, {}, {}, {"not found"}))
     ELSE CASE path \in in_progress -> closes_cycle(s, name)
            [] path \in s.visited -> s
            [] full -> exceed(s, "count")
            [] depth >= IMPORT_MAX_DEPTH ->
                 push_record(exceed(visited, "depth"), ImportRecord(name, {path}, {}, {"depth"}))
            [] OTHER -> [visited EXCEPT !.reading = {<<name, path>>}]

Visit ==
  /\ im.pc = "walk" /\ im.reading = {} /\ Last(im.stack).todo # <<>>
  /\ LET top == Len(im.stack)
         name == Head(im.stack[top].todo)
         here == [im EXCEPT !.stack[top].todo = Tail(@),
                    !.followed = @ \cup {<<im.stack[top].path, name, p>> : p \in resolve_import_path(name)}]
     IN im' = dfs_visit_import(here, name)

\* The bytes read are the ones recorded and the ones scanned.
build_import_record(s, name, path, held) ==
  CASE held \in Unreadable -> push_record(failed(s, "read"), ImportRecord(name, {path}, {}, {"read"}))
    [] held = NotUtf8 -> push_record(failed(s, "utf8"), ImportRecord(name, {path}, {held}, {"utf8"}))
    [] OTHER ->
         LET read == push_record(s, ImportRecord(name, {path}, {held}, {}))
             scanned == IF scanOf[held].scan_complete THEN read
                        ELSE failed([read EXCEPT !.nonliteral_imports = TRUE], "nonliteral")
         IN [scanned EXCEPT !.stack = Append(@, Frame(name, path, held))]

ReadFile ==
  /\ im.pc = "walk"
  /\ \E r \in im.reading :
       im' = build_import_record([im EXCEPT !.reading = {}], r[1], r[2], im.disk[r[2]])

Leave ==
  /\ im.pc = "walk" /\ im.reading = {} /\ Last(im.stack).todo = <<>> /\ Len(im.stack) > 1
  /\ im' = [im EXCEPT !.stack = Front(@)]

resolve_imports(s) ==
  LET begun == [s EXCEPT !.pc = "walk", !.stack = <<Frame(<<>>, 0, s.source)>>]
  IN IF scanOf[s.source].scan_complete THEN begun
     ELSE failed([begun EXCEPT !.nonliteral_imports = TRUE], "nonliteral")

compute_closure_hash(source, records) ==
  <<source, {<<r.path, r.sha256>> : r \in {x \in Range(records) : x.path # {} /\ x.sha256 # {}}}>>

sorted(records) ==
  LET key(r) == IF r.path = {} THEN 0 ELSE CHOOSE p \in r.path : TRUE
      order(n) == CHOOSE i \in DOMAIN Names : Names[i] = n
  IN SortSeq(records, LAMBDA a, b : key(a) < key(b) \/ (key(a) = key(b) /\ order(a.name) < order(b.name)))

incomplete(s) ==
  s.exceeded # {} \/ s.cycle # {} \/ s.nonliteral_imports \/ \E r \in Range(s.records) : r.error # {}

\* The walk is over: the dossier has its record, sbpl-check goes on to compile.
FinishWalk ==
  /\ im.pc = "walk" /\ im.reading = {} /\ Len(im.stack) = 1 /\ im.stack[1].todo = <<>>
  /\ im' = [im EXCEPT !.records = sorted(@), !.stack = <<>>,
              !.pc = IF im.asker = "dossier" THEN "done" ELSE "params",
              !.status = IF im.asker = "check" THEN "inventory"
                         ELSE IF incomplete(im) THEN "incomplete" ELSE "complete",
              !.closure_sha256 = {compute_closure_hash(im.source, im.records)}]

\* The dossier scans what is not too large.
ScanSource ==
  /\ im.pc = "start" /\ im.asker = "dossier"
  /\ im' = IF im.oversize THEN [failed(im, "size") EXCEPT !.pc = "done", !.status = "failed"]
           ELSE resolve_imports(im)

-----------------------------------------------------------------------------
(* sbpl-check: admission, the walk, then the native calls.                  *)

admit ==
  CASE im.format # "sbpl" \/ im.absent -> {"bad_request"}
    [] im.oversize -> {"policy_too_large"}
    [] im.nul \/ "nul" \in Range(im.params) -> {"bad_request"}
    [] OTHER -> {}

Admit ==
  /\ im.pc = "start" /\ im.asker = "check"
  /\ im' = IF admit # {} THEN [im EXCEPT !.pc = "done", !.outcome = admit] ELSE resolve_imports(im)

\* calls: every native call made, in order; an allocation and its release name the
\* same object.
native(s, call) == [s EXCEPT !.calls = Append(@, call)]
setup_error(s) == [s EXCEPT !.pc = "done", !.outcome = {"setup_error"}]

CreateParams ==
  /\ im.pc = "params"
  /\ \/ im.params = <<>> /\ im' = [im EXCEPT !.pc = "compile"]
     \/ im.params # <<>> /\ im' = setup_error(native(im, "create_params failed"))
     \/ im.params # <<>> /\ im' = [native(im, "create_params") EXCEPT !.pc = "set"]

SetParam ==
  /\ im.pc = "set" /\ im.params # <<>>
  /\ \/ im' = setup_error(native(native(im, "set_param failed"), "free_params"))
     \/ im' = [native(im, "set_param") EXCEPT !.params = Tail(@),
                 !.pc = IF Len(im.params) = 1 THEN "compile" ELSE "set"]

\* Mutant of release: a profile beside a diagnostic is kept.
release_Either(error, profile, params) ==
  (IF error THEN <<"free_error">> ELSE IF profile THEN <<"free_profile">> ELSE <<>>)
  \o (IF params THEN <<"free_params">> ELSE <<>>)

release(error, profile, params) ==
  (IF error THEN <<"free_error">> ELSE <<>>) \o (IF profile THEN <<"free_profile">> ELSE <<>>)
  \o (IF params THEN <<"free_params">> ELSE <<>>)

\* The compiler returns a profile or not, with or without a diagnostic.
Compile ==
  /\ im.pc = "compile"
  /\ \E profile, error \in BOOLEAN :
       im' = [im EXCEPT !.pc = "done", !.outcome = IF profile /\ ~error THEN {"ok"} ELSE {"compile_error"},
                !.calls = @ \o <<"compile">> \o (IF profile THEN <<"profile">> ELSE <<>>)
                            \o (IF error THEN <<"error">> ELSE <<>>)
                            \o release(error, profile, "create_params" \in Range(@))]

\* Another process.
ReplaceImport ==
  /\ im.pc = "walk" /\ ~im.replaced
  /\ \E r \in Replacements :
       im.disk[r[1]] # r[2] /\ im' = [im EXCEPT !.disk[r[1]] = r[2], !.replaced = TRUE]

ImportStarts ==
  {[pc |-> "start", asker |-> p.asker, source |-> p.source, oversize |-> p.oversize, format |-> p.format,
    absent |-> p.absent, nul |-> p.nul, params |-> p.params, disk |-> d, replaced |-> FALSE, stack |-> <<>>,
    reading |-> {}, followed |-> {}, records |-> <<>>, visited |-> {}, unresolved_seen |-> {}, exceeded |-> {},
    nonliteral_imports |-> FALSE, cycle |-> {}, failure |-> {}, status |-> "none", closure_sha256 |-> {},
    outcome |-> {}, calls |-> <<>>] : p \in Policies, d \in Disks}

NextImport ==
  \/ ScanSource \/ Admit \/ Visit \/ ReadFile \/ Leave \/ FinishWalk \/ CreateParams \/ SetParam \/ Compile
  \/ ReplaceImport
-----------------------------------------------------------------------------
(* Properties.                                                              *)

\* The scan is exact, and a finished walk accounts for what it read.  No file is
\* recorded twice and the count bound holds.  It reports a failure exactly when it
\* is incomplete.  A walk without problems has followed every import of the very
\* texts it recorded to a recorded file, around no cycle; and a cycle it reports is a
\* chain of imports it followed from the source back to a file of the chain.
ImportsAccounted ==
  ScanIsExact /\ (im.closure_sha256 # {} =>
    LET records == Range(im.records)
        paths == UNION {r.path : r \in records}
        textOf(p) == UNION {r.sha256 : r \in {x \in records : x.path = {p}}}
        follows(from, to) == \E n \in Range(Names) : <<from, n, to>> \in im.followed
        closed(p, text) ==
          /\ scanOf[text].scan_complete
          /\ \A n \in scanOf[text].refs : \E q \in paths : <<p, n, q>> \in im.followed
    IN /\ Len(im.records) <= IMPORT_MAX_COUNT
       /\ \A i, j \in DOMAIN im.records :
            i # j => IF im.records[i].path = {} THEN im.records[i].name # im.records[j].name \/ im.records[j].path # {}
                     ELSE im.records[i].path # im.records[j].path
       /\ incomplete(im) = (im.failure # {})
       /\ ~incomplete(im) =>
            /\ closed(0, im.source)
            /\ \A p \in paths : \E text \in textOf(p) : closed(p, text)
            /\ \A S \in (SUBSET paths) \ {{}} : \E p \in S : \A q \in S : ~follows(p, q)
       /\ \A chain \in im.cycle :
            LET back == Len(chain)
            IN \E ps \in [1..back -> paths] :
                 /\ \A i \in 1..back : <<IF i = 1 THEN 0 ELSE ps[i - 1], chain[i], ps[i]>> \in im.followed
                 /\ \E i \in 1..back - 1 : ps[i] = ps[back])

\* Whatever the native calls return, sbpl-check releases every object it was given,
\* once.  It says ok only of a source the compiler took without a diagnostic after
\* every parameter was set.  A refused request makes no native call and no walk.
NativeReleased ==
  im.asker = "check" /\ im.pc = "done" =>
    LET made(call) == Len(SelectSeq(im.calls, LAMBDA c : c = call))
    IN /\ made("free_params") = made("create_params")
       /\ made("free_profile") = made("profile") /\ made("free_error") = made("error")
       /\ im.outcome \in {{"bad_request"}, {"policy_too_large"}} <=> im.closure_sha256 = {}
       /\ im.closure_sha256 = {} => im.calls = <<>>
       /\ im.outcome = {"ok"} =>
            made("profile") = 1 /\ made("error") = 0 /\ made("set_param failed") = 0 /\ im.params = <<>>
=============================================================================
