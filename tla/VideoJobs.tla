----------------------------- MODULE VideoJobs -----------------------------
(***************************************************************************)
(* The video worker: its in-memory job records (jobs.py), the routes that  *)
(* start downloads and serve files (main.py), and download() with its      *)
(* chains of tools, its resume and its dedupe cache (downloader.py).       *)
(*                                                                         *)
(* Everything runs on one event loop; a download is suspended while it     *)
(* waits for the semaphore and while a tool works.  What follows a tool -  *)
(* the look at the disk, the copy into the cache, the next tool - is one   *)
(* step with it.  The tools write their files meanwhile.  A kill loses all *)
(* but the disk.                                                           *)
(*                                                                         *)
(* Files are named after the job id and, by yt-dlp, after the title of the *)
(* video; the files of an id are found by a pattern, which may match those *)
(* of another id.  Of a file one keeps which video it holds and whether it *)
(* is the whole video; one of at most 1024 bytes counts as none.  The      *)
(* modification time is the tool's choice, so a file or a cache entry may  *)
(* be of any age.                                                          *)
(*                                                                         *)
(* An operator that is not part of a step and stands before the one it     *)
(* resembles is a mutant of it: a plausible bug that the properties must   *)
(* notice.                                                                 *)
(***************************************************************************)
EXTENDS Integers, FiniteSets, Sequences

CONSTANTS
  Ids,          \* job ids; a caller may give one again
  Urls,         \* a URL stands for its video, its title and its cache entry
  Tools,        \* Tools[u]: what is tried for u, in order, formats included
  Globbed,      \* Globbed[i]: the output files that the pattern {i}_* matches
  MaxCalls,     \* bound on the calls of download()
  Routes,       \* those of "jobs", "download" and "audio" that are used
  Concurrency,  \* the permits of _semaphore
  MaxCrashes,   \* bound on kills of the worker
  Never, NoRecord, NoCall

ASSUME UrlsAssumption == Urls \cap {"direct", "douyin"} = {} /\ Ids # {}
ASSUME ToolsAssumption ==
  Tools \in [Urls -> Seq({"direct", "script", "ytdlp"}) \ {<<>>}]
ASSUME RoutesAssumption == Routes \subseteq {"jobs", "download", "audio"}
ASSUME NumbersAssumption ==
  Concurrency \in Nat \ {0} /\ MaxCrashes \in Nat /\ MaxCalls \in Nat

Downloads == 1..MaxCalls   \* the calls of download(), in the order they come

\* An output file {id}_{name}; a cache file is named by its URL.
Output == [id: Ids, name: {"direct", "douyin"} \cup Urls]
Path == Output \cup Urls
Content == [url: Urls, whole: BOOLEAN]

ASSUME PathAssumption == Urls \cap Output = {}
\* Those of another id that starts alike may be among them; where the id has a
\* character that means something in a pattern, its own may not be.
ASSUME GlobAssumption == Globbed \in [Ids -> SUBSET Output]

\* path is file_path (from_cache says whether it is in the cache), stored s3_key.
Record == [url: Urls, status: {"queued", "processing", "completed", "failed"},
           path: Path \cup {Never}, stored: BOOLEAN]

Call == [id: Ids, url: Urls, route: Routes, step: Nat, got: Path \cup {Never},
         at: {"created", "waiting", "fetch", "extract", "upload", "done"}]

ASSUME NullAssumption ==
  Never \notin Path /\ Never \notin Content /\ NoRecord \notin Record /\ NoCall \notin Call

VARIABLES
  rec,        \* _jobs
  call,       \* the tasks and requests that are in download(), or were
  disk,       \* the output directory and the cache directory in it
  streams,    \* the files that responses are being read from
  crashes,    \* how often the worker was killed
  doubtful    \* history: URLs whose files may be fragments or another video

vars == <<rec, call, disk, streams, crashes, doubtful>>

Init ==
  /\ rec = [i \in Ids |-> NoRecord]
  /\ call = [d \in Downloads |-> NoCall]
  /\ disk = [p \in Path |-> Never]
  /\ streams = {}
  /\ crashes = 0
  /\ doubtful = {}

Begun == {d \in Downloads : call[d] # NoCall}
Inside == {d \in Begun : call[d].at \in {"fetch", "extract"}}
Existing(id) == {p \in Globbed[id] : disk[p] # Never}

Resolve(d, at) == call' = [call EXCEPT ![d].at = at]

----------------------------------------------------------------------------
(* Submission *)

\* The URLs of other calls for the id that are not over, or were for another
\* video, or whose record stays and names a file that will be written again.
Mixed(i, u, route) ==
  {call[d].url : d \in {c \in Begun : /\ call[c].id = i
                                     /\ \/ call[c].at # "done"
                                        \/ call[c].url # u
                                        \/ route # "jobs" /\ rec[i] # NoRecord}}

\* POST /jobs replaces a record of the same id; the other routes keep none, and
\* /audio draws an id of its own.
Submit(d, i, u, route) ==
  /\ d = Cardinality(Begun) + 1
  /\ route = "audio" => \A c \in Begun : call[c].id # i
  /\ call' = [call EXCEPT ![d] = [id |-> i, url |-> u, route |-> route, step |-> 0,
                                  got |-> Never, at |-> "created"]]
  /\ rec' = IF route = "jobs"
              THEN [rec EXCEPT ![i] = [url |-> u, status |-> "queued",
                                       path |-> Never, stored |-> FALSE]]
              ELSE rec
  /\ doubtful' = IF Mixed(i, u, route) = {} THEN doubtful
                 ELSE doubtful \cup {u} \cup Mixed(i, u, route)
  /\ UNCHANGED <<disk, streams, crashes>>

\* update_job: nothing when the record has gone.
Updated(d, status, path, stored) ==
  LET i == call[d].id
  IN IF call[d].route = "jobs" /\ rec[i] # NoRecord
       THEN [rec EXCEPT ![i].status = status, ![i].path = path, ![i].stored = stored]
       ELSE rec

Keep(d) == IF rec[call[d].id] = NoRecord THEN Never ELSE rec[call[d].id].path
KeepKey(d) == rec[call[d].id] # NoRecord /\ rec[call[d].id].stored

StartUnknown(d) ==
  /\ d \in Begun /\ call[d].at = "created"
  /\ rec' = Updated(d, "downloading", Keep(d), KeepKey(d))
  /\ Resolve(d, "waiting")
  /\ UNCHANGED <<disk, streams, crashes, doubtful>>

Start(d) ==
  /\ d \in Begun /\ call[d].at = "created"
  /\ rec' = Updated(d, "processing", Keep(d), KeepKey(d))
  /\ Resolve(d, "waiting")
  /\ UNCHANGED <<disk, streams, crashes, doubtful>>

----------------------------------------------------------------------------
(* download() *)

\* A DownloadError, or any other exception of the run.
FailSilently(d) == Resolve(d, "done") /\ UNCHANGED <<rec, streams>>
Fail(d) ==
  /\ rec' = Updated(d, "failed", Keep(d), KeepKey(d))
  /\ Resolve(d, "done")
  /\ UNCHANGED streams

\* download() returns path p: /jobs goes on to the upload, /download streams the
\* file, /audio first extracts the track.
Return(d, p) ==
  /\ call' = [call EXCEPT ![d].got = p,
                          ![d].at = CASE call[d].route = "jobs" -> "upload"
                                      [] call[d].route = "download" -> "done"
                                      [] call[d].route = "audio" -> "extract"]
  /\ streams' = IF call[d].route = "download" THEN streams \cup {p} ELSE streams
  /\ UNCHANGED rec

\* The next tool, or no file at all.
TryNext(d) ==
  IF call[d].step < Len(Tools[call[d].url])
    THEN /\ call' = [call EXCEPT ![d].step = @ + 1, ![d].at = "fetch"]
         /\ UNCHANGED <<rec, streams>>
    ELSE Fail(d)

\* A file of another id that is taken for this call's makes its video doubtful.
Adopts(d, p) ==
  doubtful' = IF p.id = call[d].id THEN doubtful ELSE doubtful \cup {call[d].url}

\* _adopt takes the file that sorts first, here any; one above the size limit is
\* removed.  One of at most 1024 bytes is removed, too, and hides those behind it:
\* _adopt may find nothing although there is a file.
Oversized(d, p) == disk' = [disk EXCEPT ![p] = Never] /\ Fail(d) /\ UNCHANGED doubtful

\* A file of the id is the result.
Resume(d) ==
  \E p \in Existing(call[d].id) :
    Oversized(d, p) \/ (Return(d, p) /\ UNCHANGED disk /\ Adopts(d, p))

\* A cache entry that is fresh enough is the result; an old one is removed.
Dedupe(d) ==
  LET u == call[d].url
  IN /\ \/ (disk[u] # Never /\ Return(d, u) /\ UNCHANGED disk)
        \/ (disk' = [disk EXCEPT ![u] = Never] /\ TryNext(d))
     /\ UNCHANGED doubtful

\* Inside the semaphore.
Enter(d) ==
  /\ d \in Begun /\ call[d].at = "waiting"
  /\ Cardinality(Inside) < Concurrency
  /\ Resume(d) \/ Dedupe(d)
  /\ UNCHANGED crashes

Tool(d) == Tools[call[d].url][call[d].step]
Target(d) ==
  [id |-> call[d].id,
   name |-> CASE Tool(d) = "direct" -> "direct"
              [] Tool(d) = "script" -> "douyin"
              [] Tool(d) = "ytdlp" -> call[d].url]

Fetching(d) == d \in Begun /\ call[d].at = "fetch"

\* What a direct download or a script has written is removed when it fails.
Discard(d) == disk' = [disk EXCEPT ![Target(d)] = Never]

\* The tool has written a part.  yt-dlp takes up its own parts and finished files.
Write(d) ==
  /\ Fetching(d)
  /\ Tool(d) = "ytdlp" => disk[Target(d)] = Never
  /\ disk' = [disk EXCEPT ![Target(d)] = [url |-> call[d].url, whole |-> FALSE]]
  /\ UNCHANGED <<rec, call, streams, crashes, doubtful>>

\* _save_to_cache and the result; an exception while copying is swallowed.
Deliver(d, files, p) ==
  /\ disk' \in {files, [files EXCEPT ![call[d].url] = files[p]]}
  /\ Return(d, p)

\* The tool has fetched the video.  After yt-dlp any file of the id is adopted, or
\* none is found.
Finish(d) ==
  LET files == [disk EXCEPT ![Target(d)] = [url |-> call[d].url, whole |-> TRUE]]
  IN /\ Fetching(d)
     /\ \/ Tool(d) # "ytdlp" /\ Deliver(d, files, Target(d)) /\ UNCHANGED doubtful
        \/ /\ Tool(d) = "ytdlp"
           /\ \E p \in Existing(call[d].id) \cup (Globbed[call[d].id] \cap {Target(d)}) :
                Deliver(d, files, p) /\ Adopts(d, p)
        \/ Tool(d) = "ytdlp" /\ disk' = files /\ TryNext(d) /\ UNCHANGED doubtful
     /\ UNCHANGED crashes

\* A part that yt-dlp leaves makes its video doubtful.
Leaves(d) ==
  doubtful' = IF disk[Target(d)] # Never THEN doubtful \cup {call[d].url} ELSE doubtful

\* The tool has failed or was killed at its timeout.  What yt-dlp leaves stays, and
\* may be adopted, or the file of another id.
MissLeavesFile(d) ==
  /\ Fetching(d)
  /\ \/ UNCHANGED disk /\ TryNext(d)
     \/ /\ Tool(d) = "ytdlp"
        /\ \E p \in Existing(call[d].id) : Deliver(d, disk, p)
  /\ IF Tool(d) = "ytdlp" THEN Leaves(d) ELSE UNCHANGED doubtful
  /\ UNCHANGED crashes

Miss(d) ==
  /\ Fetching(d)
  /\ \/ Tool(d) # "ytdlp" /\ Discard(d) /\ TryNext(d) /\ UNCHANGED doubtful
     \/ Tool(d) = "ytdlp" /\ UNCHANGED disk /\ TryNext(d) /\ Leaves(d)
     \/ /\ Tool(d) = "ytdlp"
        /\ \E p \in Existing(call[d].id) :
             /\ Deliver(d, disk, p)
             /\ IF p.id = call[d].id THEN Leaves(d)
                ELSE doubtful' = doubtful \cup {call[d].url}
  /\ UNCHANGED crashes

\* TOO_LARGE ends the chain: announced before a direct download has written any-
\* thing, found by _check_size, or read from the log of yt-dlp.
Abort(d) ==
  /\ Fetching(d)
  /\ \/ /\ Tool(d) = "direct"
        /\ \/ Discard(d)
           \/ (disk[Target(d)] # Never => disk[Target(d)].whole) /\ UNCHANGED disk
     \/ /\ Tool(d) = "ytdlp"
        /\ \/ UNCHANGED disk
           \/ \E p \in Existing(call[d].id) : disk' = [disk EXCEPT ![p] = Never]
  /\ IF Tool(d) = "ytdlp" THEN Leaves(d) ELSE UNCHANGED doubtful
  /\ Fail(d)
  /\ UNCHANGED crashes

----------------------------------------------------------------------------
(* After the download *)

\* The upload worked, failed, or was not tried (no object storage, no file); a
\* failed one leaves the local file to be served.
Complete(d, stored) ==
  /\ d \in Begun /\ call[d].at = "upload"
  /\ stored => disk[call[d].got] # Never
  /\ rec' = Updated(d, "completed", call[d].got, stored)
  /\ Resolve(d, "done")
  /\ UNCHANGED <<disk, streams, crashes, doubtful>>

\* /audio: the track is extracted inside the semaphore; the video file stays.
Extracted(d) ==
  /\ d \in Begun /\ call[d].at = "extract"
  /\ Resolve(d, "done")
  /\ UNCHANGED <<rec, disk, streams, crashes, doubtful>>

\* GET /jobs/{id}/file without a redirect to the object storage.
Serve(i) ==
  /\ rec[i] # NoRecord
  /\ rec[i].status = "completed"
  /\ rec[i].path # Never
  /\ disk[rec[i].path] # Never
  /\ streams' = streams \cup {rec[i].path}
  /\ UNCHANGED <<rec, call, disk, crashes, doubtful>>

\* The background task of the response: _cleanup, unless the file is the cache's.
StreamEnds(p) ==
  /\ p \in streams
  /\ streams' = streams \ {p}
  /\ disk' = IF p \in Urls THEN disk ELSE [disk EXCEPT ![p] = Never]
  /\ UNCHANGED <<rec, call, crashes, doubtful>>

----------------------------------------------------------------------------
(* Expiry and the end of the process *)

\* get_job finds a record older than its TTL and removes it with its file.
Expire(i) ==
  /\ rec[i] # NoRecord
  /\ rec' = [rec EXCEPT ![i] = NoRecord]
  /\ disk' = IF rec[i].path = Never THEN disk ELSE [disk EXCEPT ![rec[i].path] = Never]
  /\ UNCHANGED <<call, streams, crashes, doubtful>>

\* cleanup_expired_files takes an old output file; the cache is a directory.
Sweep(p) ==
  /\ p \in Output
  /\ disk' = [disk EXCEPT ![p] = Never]
  /\ UNCHANGED <<rec, call, streams, crashes, doubtful>>

\* A kill, perhaps in the middle of the copy into the cache that follows a fetch.
Crash ==
  \E half \in {{}} \cup {{call[d].url} : d \in {c \in Begun : Fetching(c)}} :
    /\ crashes < MaxCrashes
    /\ crashes' = crashes + 1
    /\ rec' = [i \in Ids |-> NoRecord]
    /\ call' = [d \in Downloads |-> IF d \in Begun THEN [call[d] EXCEPT !.at = "done"]
                                                   ELSE NoCall]
    /\ disk' = [p \in Path |-> IF p \in half THEN [url |-> p, whole |-> FALSE] ELSE disk[p]]
    /\ streams' = {}
    /\ doubtful' = doubtful \cup half
         \cup {u \in Urls : \E p \in Output : disk[p] = [url |-> u, whole |-> FALSE]}

Fetch(d) == Finish(d) \/ Miss(d) \/ Abort(d)
Advance(d) ==
  \/ Start(d) \/ Enter(d) \/ Fetch(d) \/ Extracted(d)
  \/ \E stored \in BOOLEAN : Complete(d, stored)

Next ==
  \/ \E d \in Downloads, i \in Ids, u \in Urls, route \in Routes : Submit(d, i, u, route)
  \/ \E d \in Downloads : Advance(d) \/ Write(d)
  \/ \E i \in Ids : Serve(i) \/ Expire(i)
  \/ \E p \in Path : StreamEnds(p) \/ Sweep(p)
  \/ Crash

Spec == Init /\ [][Next]_vars

\* yt-dlp is killed at its timeout.
Timed(d) == Fetching(d) /\ Tool(d) = "ytdlp" /\ Fetch(d)

\* The loop runs what is ready.  A call waiting for the semaphore gets it in turn:
\* asyncio.Semaphore is first come, first served.
FairSpec ==
  Spec /\ \A d \in Downloads : WF_vars(Start(d)) /\ WF_vars(Enter(d)) /\ WF_vars(Timed(d))

----------------------------------------------------------------------------
(* Properties *)

\* Every variable keeps the shape the code gives it.
TypeOK ==
  /\ rec \in [Ids -> Record \cup {NoRecord}]
  /\ call \in [Downloads -> Call \cup {NoCall}]
  /\ disk \in [Path -> Content \cup {Never}]
  /\ streams \subseteq Path
  /\ crashes \in Nat
  /\ doubtful \subseteq Urls

\* A record that completed for a URL and the cache entry of a URL hold the whole
\* video of that URL, unless for that URL yt-dlp failed with a part of a file on the
\* disk, a kill met such a part or a copy into the cache, two calls shared an id in a
\* way that mixes their files, or the pattern of an id found a file of another id and
\* it was taken for the result.  There is no other way.
RightVideo ==
  /\ \A i \in Ids :
       /\ rec[i] # NoRecord
       /\ rec[i].status = "completed"
       /\ rec[i].url \notin doubtful
       => disk[rec[i].path] \in {Never, [url |-> rec[i].url, whole |-> TRUE]}
  /\ \A u \in Urls \ doubtful : disk[u] \in {Never, [url |-> u, whole |-> TRUE]}

\* Every job that is queued or processing ends or is dropped, also when two tasks
\* write one record, if what has no timeout in the code comes to an end: the body of a
\* direct download and the resolution of a link before the scripts (httpx limits each
\* read only), ffmpeg in /audio, which holds a permit meanwhile, and the upload.
Untimed(d) ==
  \/ Fetching(d) /\ Tool(d) # "ytdlp" /\ Fetch(d)
  \/ Extracted(d)
  \/ \E stored \in BOOLEAN : Complete(d, stored)
JobsEnd ==
  (\A d \in Downloads : WF_vars(Untimed(d)))
    => \A i \in Ids :
         (rec[i] # NoRecord /\ rec[i].status \in {"queued", "processing"})
           ~> (rec[i] = NoRecord \/ rec[i].status \in {"completed", "failed"})

----------------------------------------------------------------------------
(* What a docstring says and the code does not do *)

\* "Return a completed, non-empty output file for the job": a completed job, its
\* id given once and the worker never killed, has the whole video.
AdoptedIsComplete ==
  \A i \in Ids :
    /\ rec[i] # NoRecord
    /\ rec[i].status = "completed"
    /\ crashes = 0
    /\ Cardinality({d \in Begun : call[d].id = i}) = 1
    => disk[rec[i].path] = Never \/ disk[rec[i].path].whole
=============================================================================
