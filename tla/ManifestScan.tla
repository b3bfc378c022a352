---------------------------- MODULE ManifestScan ----------------------------
(***************************************************************************)
(* The manifest (manifest.py, Controller._load_or_initialize): scanned at  *)
(* the source, saved, loaded again by later runs, and compared with a      *)
(* second scan before anything is transferred.                             *)
(*                                                                         *)
(* find prints three fields for a file, each closed by a NUL.  The fault   *)
(* is an output that ends early although ssh reports success; parse_scan_  *)
(* output takes any number of whole records, and a last one whose time has *)
(* lost digits.  A scan sees the source as it is at one moment.  A digest  *)
(* is the record it is made from.  Times are tenths of a second.           *)
(***************************************************************************)
EXTENDS Integers, FiniteSetsExt, SequencesExt, Functions

CONSTANTS
  Trees,           \* contents of a source: path -> [size, mtime]; a path is a sequence
  Sites,           \* host, user and path of a source
  PartialDir,      \* partial_dir_name
  NoManifest       \* manifest.json does not exist, or none is loaded

(* A tree is a function to these records.                                  *)
IsTree(files) == files = [p \in DOMAIN files |-> [size |-> files[p].size, mtime |-> files[p].mtime]]

ASSUME TreesAssumption == \A files \in Trees \cup {<<>>} : IsTree(files)

VARIABLES
  site, tree,      \* the configured source and what it holds
  manifestJson,    \* manifest.json
  manifest,        \* the Manifest of the running controller, [site, tree]
  doing,           \* where Controller.run is
  saved,           \* history: manifest.json as it was written
  taken, again     \* history: the scan it was made from, and the second one of this run

manifestVars == <<site, tree, manifestJson, manifest, doing, saved, taken, again>>

Unloaded == [site |-> NoManifest, tree |-> <<>>]
Unscanned == [site |-> NoManifest, tree |-> <<>>, cut |-> FALSE]

-----------------------------------------------------------------------------
(* parse_scan_output *)

(* What is left of "seconds.tenths" when at least one character has gone.  *)
CutTimes(mtime) == {10 * (mtime \div 10 ^ k) : k \in {j \in 1..3 : mtime >= 10 ^ j}}

(* The trees that an output cut short is taken for: some of the files, in  *)
(* the order of the directory, the last perhaps with another time.  A cut  *)
(* in the path or the size leaves one or two fields, which is an error.    *)
CutTrees(full) ==
  UNION {LET part == Restrict(full, paths)
         IN (IF paths = DOMAIN full THEN {} ELSE {part}) \cup
            UNION {{[part EXCEPT ![p].mtime = time] : time \in CutTimes(full[p].mtime)} : p \in paths} :
         paths \in SUBSET DOMAIN full}

(* RemoteManifestScanner.scan when it does not raise.                      *)
Scans == {[site |-> site, tree |-> tree, cut |-> FALSE]}
           \cup {[site |-> site, tree |-> t, cut |-> TRUE] : t \in CutTrees(tree)}

(* _validate_manifest_compatibility.                                       *)
FreeOfPartials(files) == \A p \in DOMAIN files : PartialDir \notin Range(p)

-----------------------------------------------------------------------------
(* save_manifest and load_manifest *)

TotalBytes(files) == MapThenSumSet(LAMBDA p : files[p].size, DOMAIN files)

ManifestRecord(where, files) ==
  [version |-> 1, site |-> where, entries |-> files,
   digest |-> <<where, files>>, total_bytes |-> TotalBytes(files), file_count |-> Cardinality(DOMAIN files)]

(* One place of manifest.json is changed by hand or by the medium.         *)
Damaged(record) ==
  {[record EXCEPT !.version = 2],
   [record EXCEPT !.site = CHOOSE s \in Sites : s # record.site],
   [record EXCEPT !.digest = NoManifest],
   [record EXCEPT !.total_bytes = @ + 1],
   [record EXCEPT !.file_count = @ + 1]}
    \cup {[record EXCEPT !.entries = Restrict(@, DOMAIN @ \ {p})] : p \in DOMAIN record.entries}
    \cup {[record EXCEPT !.entries[p].mtime = @ + 1] : p \in DOMAIN record.entries}
    \cup {[record EXCEPT !.entries[p].size = -1] : p \in DOMAIN record.entries}

ConsistentTotals(record) ==      \* faulty variant: the digest is not compared
  /\ record.version = 1
  /\ record.total_bytes = TotalBytes(record.entries)
  /\ record.file_count = Cardinality(DOMAIN record.entries)

Loadable(record) ==
  /\ record.version = 1
  /\ \A p \in DOMAIN record.entries : record.entries[p].size >= 0
  /\ record.digest = <<record.site, record.entries>>
  /\ record.total_bytes = TotalBytes(record.entries)
  /\ record.file_count = Cardinality(DOMAIN record.entries)

(* assert_same_source.                                                     *)
SameSizes(expected, actual) ==      \* faulty variant: times are not compared
  /\ expected.site = actual.site
  /\ DOMAIN expected.tree = DOMAIN actual.tree
  /\ \A p \in DOMAIN actual.tree : expected.tree[p].size = actual.tree[p].size

SameSource(expected, actual) ==
  /\ expected.site = actual.site
  /\ DOMAIN expected.tree = DOMAIN actual.tree
  /\ \A p \in DOMAIN actual.tree : /\ expected.tree[p].size = actual.tree[p].size
                                   /\ expected.tree[p].mtime = actual.tree[p].mtime

-----------------------------------------------------------------------------
(* Controller.run *)

Unstored == [version |-> 0]

ManifestInit ==
  /\ site \in Sites /\ tree \in Trees
  /\ manifestJson = Unstored /\ saved = Unstored
  /\ manifest = Unloaded /\ taken = Unscanned /\ again = Unscanned
  /\ doing = "out"

EndOfRun == doing' = "out" /\ manifest' = Unloaded /\ again' = Unscanned

(* The first run.  An error is raised when ssh fails, when the output is   *)
(* not made of records, and when a path is reserved.                       *)
FirstScan ==
  /\ doing = "out"
  /\ manifestJson = Unstored
  /\ \E scan \in Scans :
       /\ FreeOfPartials(scan.tree)
       /\ manifestJson' = ManifestRecord(scan.site, scan.tree)
       /\ manifest' = [site |-> scan.site, tree |-> scan.tree]
       /\ taken' = scan
  /\ saved' = manifestJson'
  /\ doing' = "checking"
  /\ UNCHANGED <<site, tree, again>>

(* A later run.                                                            *)
LoadManifest ==
  /\ doing = "out"
  /\ manifestJson # Unstored
  /\ Loadable(manifestJson)
  /\ FreeOfPartials(manifestJson.entries)
  /\ manifestJson.site = site
  /\ manifest' = [site |-> manifestJson.site, tree |-> manifestJson.entries]
  /\ doing' = "checking"
  /\ UNCHANGED <<site, tree, manifestJson, saved, taken, again>>

SecondScan ==
  /\ doing = "checking"
  /\ \E scan \in Scans :
       IF SameSource(manifest, scan)
       THEN again' = scan /\ doing' = "transferring" /\ UNCHANGED manifest
       ELSE EndOfRun
  /\ UNCHANGED <<site, tree, manifestJson, saved, taken>>

(* The run ends, raises or is killed.                                      *)
LeaveRun ==
  /\ doing # "out"
  /\ EndOfRun
  /\ UNCHANGED <<site, tree, manifestJson, saved, taken>>

-----------------------------------------------------------------------------
(* Around it *)

SourceChanges ==
  /\ tree' \in Trees \ {tree}
  /\ UNCHANGED <<site, manifestJson, manifest, doing, saved, taken, again>>

EditSource ==
  /\ doing = "out"
  /\ site' \in Sites \ {site}
  /\ tree' \in Trees
  /\ UNCHANGED <<manifestJson, manifest, doing, saved, taken, again>>

DamageManifest ==
  /\ manifestJson # Unstored
  /\ manifestJson = saved
  /\ manifestJson' \in Damaged(manifestJson)
  /\ UNCHANGED <<site, tree, manifest, doing, saved, taken, again>>

ResetManifest ==
  /\ doing = "out"
  /\ manifestJson # Unstored
  /\ manifestJson' = Unstored /\ saved' = Unstored
  /\ taken' = Unscanned
  /\ UNCHANGED <<site, tree, manifest, doing, again>>

ManifestNext ==
  \/ FirstScan \/ LoadManifest \/ SecondScan \/ LeaveRun
  \/ SourceChanges \/ EditSource \/ DamageManifest \/ ResetManifest

ManifestSpec == ManifestInit /\ [][ManifestNext]_manifestVars

-----------------------------------------------------------------------------
(* Properties *)

Lists(source) == manifest.site = source.site /\ manifest.tree = source.tree

(* What is transferred is a list of the files which the configured source  *)
(* held when one of the two scans looked, unless both scans were cut: one  *)
(* cut that parse_scan_output lets pass is found by the other scan, also   *)
(* when the source changes in between or the scans belong to different     *)
(* processes (manifest.py:129-147 and 182-215, controller.py:215-218).     *)
ListsARealSource ==
  doing = "transferring" =>
    /\ manifest.site = site
    /\ \/ taken.cut /\ again.cut
       \/ \E scan \in {taken, again} : ~scan.cut /\ Lists(scan)

(* A run works from the manifest that was saved, or not at all             *)
(* (manifest.py:96-126).                                                   *)
LoadedIsSaved ==
  doing # "out" => saved # Unstored /\ manifest.site = saved.site /\ manifest.tree = saved.entries
=============================================================================
