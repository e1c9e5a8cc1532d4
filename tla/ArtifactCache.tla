----------------------------- MODULE ArtifactCache -----------------------------
(***************************************************************************)
(* How agents and requests get at a stored file through a path on their    *)
(* own disk (src/src/aeai_os/storage/artifacts.py).  Two caches, each for  *)
(* one address, shared by processes that know nothing of each other:       *)
(*                                                                         *)
(*   "url"     _download_public_csv: a file that exists is returned as it  *)
(*             is; otherwise the payload is written to a temporary file,   *)
(*             of the same name for everyone, and renamed                  *)
(*   "object"  S3ArtifactStore.local_path: the payload is fetched and      *)
(*             written over the cached file on every call                  *)
(*                                                                         *)
(* A name points to a file of the disk, and an open handle too: a rename   *)
(* moves the name and not the handle.  Opening for writing truncates.      *)
(***************************************************************************)
EXTENDS Naturals, FiniteSets

CONSTANTS
    Openers,
    MaxVersions,   \* bound: payloads the source has one after the other
    MaxDeaths      \* bound: processes that die or meet a full disk

ASSUME CacheAssumption ==
    IsFiniteSet(Openers) /\ MaxVersions \in Nat \ {0} /\ MaxDeaths \in Nat

VARIABLES
    kind,          \* which of the two caches
    source,        \* version of the payload at the source
    names,         \* the file each name points to, or 0
    data,          \* contents of the files
    downloads,     \* where each process is
    witness        \* what the properties speak of

cacheVars == <<kind, source, names, data, downloads, witness>>

\* A payload is its version; less than a payload, and a payload over a longer one's end.
Torn == 0
Mixed == MaxVersions + 1
Files == 1..(Cardinality(Openers) + 2)
NoDownload == [pc |-> "idle", payload |-> 0, file |-> 0, since |-> 0]

InUse(f) == f \in {names.cached, names.temporary} \/ \E p \in Openers : downloads[p].file = f
Unused == CHOOSE f \in Files : ~InUse(f)

Working == {"checked", "fetched", "opened", "written"}
Downloading(p) == downloads[p].pc # "idle"

Reached(p, pc) == downloads[p].pc = pc
Proceed(p, call) == downloads' = [downloads EXCEPT ![p] = call]

\* Calls whose work on the files overlaps: on one temporary file, or a rewrite and a reader.
Overlapping(p) ==
    \E q \in Openers \ {p} : Downloading(q) /\ (kind = "url" => downloads[q].pc \in Working)

\* What the cache answers without asking the source: a URL that it has.
Hit == kind = "url" /\ names.cached # 0

LocalPath(p) ==
    /\ Reached(p, "idle")
    /\ Proceed(p, [NoDownload EXCEPT !.pc = IF Hit THEN "reading" ELSE "checked", !.since = source])
    /\ witness' = [witness EXCEPT !.overlap = @ \/ (~Hit /\ Overlapping(p))]
    /\ UNCHANGED <<kind, source, names, data>>

Fetch(p) ==
    /\ Reached(p, "checked")
    /\ \/ Proceed(p, [downloads[p] EXCEPT !.pc = "fetched", !.payload = source])
       \/ Proceed(p, NoDownload)       \* the download fails, or is too large or empty
    /\ UNCHANGED <<kind, source, names, data, witness>>

\* Fault: the payload is written to the file that everybody looks for.
Target_Cached == "cached"
Target == IF kind = "url" THEN "temporary" ELSE "cached"

OpenForWriting(p) ==
    /\ Reached(p, "fetched")
    /\ LET f == IF names[Target] = 0 THEN Unused ELSE names[Target]
       IN  /\ names' = [names EXCEPT ![Target] = f]
           /\ data' = [data EXCEPT ![f] = Torn]
           /\ Proceed(p, [downloads[p] EXCEPT !.pc = "opened", !.file = f])
    /\ UNCHANGED <<kind, source, witness>>

\* Into a file that another handle has written meanwhile, a payload of another length.
Write(p) ==
    /\ Reached(p, "opened")
    /\ LET f == downloads[p].file
           v == downloads[p].payload
       IN  \E c \in {v} \cup (IF data[f] \in {Torn, v} THEN {} ELSE {Mixed}) :
               data' = [data EXCEPT ![f] = c]
    /\ Proceed(p, [downloads[p] EXCEPT !.pc = "written", !.file = 0])
    /\ UNCHANGED <<kind, source, names, witness>>

\* A rename of what somebody else has renamed before fails.
PutInPlace(p) ==
    /\ Reached(p, "written")
    /\ IF kind = "object"
       THEN Proceed(p, [downloads[p] EXCEPT !.pc = "reading"]) /\ UNCHANGED names
       ELSE IF names.temporary = 0
       THEN Proceed(p, NoDownload) /\ UNCHANGED names
       ELSE /\ names' = [cached |-> names.temporary, temporary |-> 0]
            /\ Proceed(p, [downloads[p] EXCEPT !.pc = "reading"])
    /\ UNCHANGED <<kind, source, data, witness>>

\* The caller reads the file whose path it was given.
Read(p) ==
    /\ Reached(p, "reading")
    /\ LET got == data[names.cached]
       IN  witness' = [witness EXCEPT !.read = @ \cup {got},
                           !.stale = @ \/ (got # Torn /\ got < downloads[p].since)]
    /\ Proceed(p, NoDownload)
    /\ UNCHANGED <<kind, source, names, data>>

Die(p) ==
    /\ Downloading(p)
    /\ witness.deaths < MaxDeaths
    /\ witness' = [witness EXCEPT !.deaths = @ + 1]
    /\ Proceed(p, NoDownload)
    /\ UNCHANGED <<kind, source, names, data>>

\* Whoever keeps the page or the object puts another one in its place.
ChangeSource ==
    /\ source < MaxVersions
    /\ source' = source + 1
    /\ UNCHANGED <<kind, names, data, downloads, witness>>

CacheInit ==
    /\ kind \in {"url", "object"}
    /\ source = 1
    /\ names = [cached |-> 0, temporary |-> 0]
    /\ data = [f \in Files |-> Torn]
    /\ downloads = [p \in Openers |-> NoDownload]
    /\ witness = [overlap |-> FALSE, read |-> {}, stale |-> FALSE, deaths |-> 0]

CacheNext ==
    \/ \E p \in Openers :
           \/ LocalPath(p) \/ Fetch(p) \/ OpenForWriting(p) \/ Write(p) \/ PutInPlace(p) \/ Read(p)
           \/ Die(p)
    \/ ChangeSource

CacheSpec == CacheInit /\ [][CacheNext]_cacheVars

(***************************************************************************)
(* Properties                                                              *)
(***************************************************************************)

\* As long as no two downloads of an address overlap, every reader gets a whole payload, and
\* everyone the same one, wherever processes die: a partial file is only ever behind the
\* temporary name.
SoloDownloadsWhole ==
    kind = "url" /\ ~witness.overlap
    => witness.read \cap {Torn, Mixed} = {} /\ Cardinality(witness.read) <= 1

\* A lone caller of the object cache reads the payload of its call or a later one, although
\* the object is replaced and a call before may have died in the middle of the file.
ObjectsAreFresh ==
    kind = "object" /\ ~witness.overlap
    => witness.read \cap {Torn, Mixed} = {} /\ ~witness.stale

\* Downloads that do not overlap are sound, from an address as from an object store.
DownloadsSound == SoloDownloadsWhole /\ ObjectsAreFresh
=============================================================================
