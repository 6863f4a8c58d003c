-------------------------------- MODULE DataPlane --------------------------------
(***************************************************************************)
(* One key of the data plane: an input, a payload or the output of a task, *)
(* as api/in_out_manager.py hands it to api/in_out_s3.py or to             *)
(* api/in_out_redis.py.  With "S3+REDIS" a put uploads the object and then *)
(* sets the cache, and a get that misses the cache downloads the object    *)
(* and sets the cache itself.  Nothing orders the two stores: every call   *)
(* to one of them is a step of its own.                                    *)
(*                                                                         *)
(* A value is the writer it comes from.  Inputs and payloads have one      *)
(* writer; an output has one for every agent that executed the task, the   *)
(* ones the TTL checker took it away from included.                        *)
(***************************************************************************)
CONSTANTS
  Writers,        \* processes that put the key, once each
  EmptyWriters,   \* those of them whose data is empty
  Readers,        \* processes that get the key, any number of times
  None            \* no object, and the None of a cache miss

ASSUME WritersAssumption == None \notin Writers /\ EmptyWriters \subseteq Writers

VARIABLES
  mode,      \* grid_storage_service, fixed when the connection is made
  s3,        \* the object in the bucket
  cache,     \* the entry in Redis
  writer,    \* where each put is
  reader,    \* where each get is
  seen,      \* history: a put was completed or a get was answered
  evicted,   \* history: Redis dropped the entry
  quiet,     \* history: the last put ran alone and no older fill is pending
  last       \* history: the writer of that put

dpVars == << mode, s3, cache, writer, reader, seen, evicted, quiet, last >>

---------------------------------------------------------------------------

UsesS3 == mode \in {"S3", "S3+REDIS"}
UsesRedis == mode \in {"REDIS", "S3+REDIS"}

IdleReader == [ pc |-> "idle", val |-> None, sure |-> FALSE, quiet |-> FALSE ]

WriterState == [ pc : {"idle", "upload", "set", "done", "dead"}, alone : BOOLEAN ]

\* A get that is answered, or about to be, has a value.
ReaderState ==
  [ pc : {"idle", "get", "download", "failed"}, val : Writers \cup {None}, sure : BOOLEAN, quiet : BOOLEAN ]
  \cup [ pc : {"fill", "done"}, val : Writers, sure : BOOLEAN, quiet : BOOLEAN ]

\* The state space of stores, puts and gets.
DpTypeOK ==
  /\ mode \in {"S3", "REDIS", "S3+REDIS"}
  /\ s3 \in Writers \cup {None} /\ cache \in Writers \cup {None} /\ last \in Writers \cup {None}
  /\ writer \in [Writers -> WriterState]
  /\ reader \in [Readers -> ReaderState]
  /\ seen \in BOOLEAN /\ evicted \in BOOLEAN /\ quiet \in BOOLEAN

Init ==
  /\ mode \in {"S3", "REDIS", "S3+REDIS"}
  /\ s3 = None /\ cache = None /\ last = None
  /\ writer = [w \in Writers |-> [ pc |-> "idle", alone |-> FALSE ]]
  /\ reader = [r \in Readers |-> IdleReader]
  /\ seen = FALSE /\ evicted = FALSE /\ quiet = FALSE

---------------------------------------------------------------------------
(* put_*_from_bytes *)

UnderWay(w) == writer[w].pc \in {"upload", "set"}

StartPut_SkipsBucket(w) ==
  /\ writer[w].pc = "idle"
  /\ writer' = [v \in Writers |->
       IF v = w
         THEN [ pc |-> IF UsesRedis THEN "set" ELSE "upload", alone |-> \A x \in Writers : ~UnderWay(x) ]
         ELSE [ writer[v] EXCEPT !.alone = FALSE ]]
  /\ reader' = [r \in Readers |-> [ reader[r] EXCEPT !.quiet = FALSE ]]
  /\ quiet' = FALSE
  /\ UNCHANGED << mode, s3, cache, seen, evicted, last >>

\* A put begins, beside those that are under way.
StartPut(w) ==
  /\ writer[w].pc = "idle"
  /\ writer' = [v \in Writers |->
       IF v = w
         THEN [ pc |-> IF UsesS3 THEN "upload" ELSE "set", alone |-> \A x \in Writers : ~UnderWay(x) ]
         ELSE [ writer[v] EXCEPT !.alone = FALSE ]]
  /\ reader' = [r \in Readers |-> [ reader[r] EXCEPT !.quiet = FALSE ]]
  /\ quiet' = FALSE
  /\ UNCHANGED << mode, s3, cache, seen, evicted, last >>

\* The put returns: from now on the caller takes the value to be there.
Returned(w) ==
  /\ writer' = [writer EXCEPT ![w] = [ writer[w] EXCEPT !.pc = "done" ]]
  /\ seen' = TRUE
  /\ last' = w
  /\ quiet' = ( /\ writer[w].alone
                /\ \A r \in Readers : reader[r].pc = "fill" => reader[r].val = w )

\* upload_fileobj; InOutS3 has nothing more to do.
Upload(w) ==
  /\ writer[w].pc = "upload"
  /\ s3' = w
  /\ \/ /\ UsesRedis
        /\ writer' = [writer EXCEPT ![w] = [ writer[w] EXCEPT !.pc = "set" ]]
        /\ UNCHANGED << seen, last, quiet >>
     \/ ~UsesRedis /\ Returned(w)
  /\ UNCHANGED << mode, cache, reader, evicted >>

SetCache_OnlyIfMissing(w) ==
  /\ writer[w].pc = "set"
  /\ cache' = IF cache = None THEN w ELSE cache
  /\ Returned(w)
  /\ UNCHANGED << mode, s3, reader, evicted >>

SetCache(w) ==
  /\ writer[w].pc = "set"
  /\ cache' = w
  /\ Returned(w)
  /\ UNCHANGED << mode, s3, reader, evicted >>

\* The process dies or a call raises, after the store has done its work or
\* before: what was stored stays.
PutFails(w) ==
  /\ UnderWay(w)
  /\ s3' \in {s3} \cup (IF writer[w].pc = "upload" THEN {w} ELSE {})
  /\ cache' \in {cache} \cup (IF writer[w].pc = "set" THEN {w} ELSE {})
  /\ writer' = [writer EXCEPT ![w] = [ writer[w] EXCEPT !.pc = "dead" ]]
  /\ UNCHANGED << mode, reader, seen, evicted, quiet, last >>

---------------------------------------------------------------------------
(* get_*_to_bytes *)

StartGet(r) ==
  /\ reader[r].pc \in {"idle", "done", "failed"}
  /\ reader' = [reader EXCEPT ![r] =
       [ pc |-> IF UsesRedis THEN "get" ELSE "download", val |-> None, sure |-> seen, quiet |-> quiet ]]
  /\ UNCHANGED << mode, s3, cache, writer, seen, evicted, quiet, last >>

Answer(r, v) ==
  /\ reader' = [reader EXCEPT ![r] = [ reader[r] EXCEPT !.pc = "done", !.val = v ]]
  /\ seen' = TRUE

Fail(r, v) ==
  /\ reader' = [reader EXCEPT ![r] = [ reader[r] EXCEPT !.pc = "failed", !.val = v ]]
  /\ UNCHANGED seen

GetHit(r) ==
  /\ reader[r].pc = "get"
  /\ cache # None
  /\ Answer(r, cache)
  /\ UNCHANGED << mode, s3, cache, writer, evicted, quiet, last >>

\* Without a bucket a miss is an exception.
GetMiss(r) ==
  /\ reader[r].pc = "get"
  /\ cache = None
  /\ \/ /\ UsesS3
        /\ reader' = [reader EXCEPT ![r] = [ reader[r] EXCEPT !.pc = "download" ]]
        /\ UNCHANGED seen
     \/ ~UsesS3 /\ Fail(r, None)
  /\ UNCHANGED << mode, s3, cache, writer, evicted, quiet, last >>

\* download_fileobj raises if there is no object.  InOutRedis also takes an
\* object without content for a missing one.
DownloadFails(r) ==
  /\ reader[r].pc = "download"
  /\ s3 = None \/ (UsesRedis /\ s3 \in EmptyWriters)
  /\ Fail(r, s3)
  /\ UNCHANGED << mode, s3, cache, writer, evicted, quiet, last >>

Download_MissingIsContent(r) ==
  /\ reader[r].pc = "download"
  /\ \/ /\ UsesRedis
        /\ reader' = [reader EXCEPT ![r] = [ reader[r] EXCEPT !.pc = "fill", !.val = s3 ]]
        /\ UNCHANGED seen
     \/ ~UsesRedis /\ Answer(r, s3)
  /\ UNCHANGED << mode, s3, cache, writer, evicted, quiet, last >>

Download(r) ==
  /\ reader[r].pc = "download"
  /\ s3 # None
  /\ \/ /\ UsesRedis /\ s3 \notin EmptyWriters
        /\ reader' = [reader EXCEPT ![r] = [ reader[r] EXCEPT !.pc = "fill", !.val = s3 ]]
        /\ UNCHANGED seen
     \/ ~UsesRedis /\ Answer(r, s3)
  /\ UNCHANGED << mode, s3, cache, writer, evicted, quiet, last >>

\* The miss is repaired with what was downloaded, however old it is by now.
Fill(r) ==
  /\ reader[r].pc = "fill"
  /\ cache' = reader[r].val
  /\ Answer(r, reader[r].val)
  /\ UNCHANGED << mode, s3, writer, evicted, quiet, last >>

\* The reading process dies or a call raises.
GetStops(r) ==
  /\ reader[r].pc \in {"get", "download", "fill"}
  /\ reader' = [reader EXCEPT ![r] = IdleReader]
  /\ UNCHANGED << mode, s3, cache, writer, seen, evicted, quiet, last >>

---------------------------------------------------------------------------

\* maxmemory-policy is allkeys-lru and the cluster has no replica.
Evict ==
  /\ cache # None
  /\ cache' = None
  /\ evicted' = TRUE
  /\ UNCHANGED << mode, s3, writer, reader, seen, quiet, last >>

Next ==
  \/ \E w \in Writers : StartPut(w) \/ Upload(w) \/ SetCache(w) \/ PutFails(w)
  \/ \E r \in Readers :
       \/ StartGet(r) \/ GetHit(r) \/ GetMiss(r) \/ DownloadFails(r) \/ Download(r)
       \/ Fill(r) \/ GetStops(r)
  \/ Evict

Spec == Init /\ [][Next]_dpVars

---------------------------------------------------------------------------
(* Properties *)

\* What was there once is there for good: after a put has returned, or a get
\* was answered (by whichever put, even one that died half way), no get fails,
\* unless Redis evicted the entry and there was no bucket behind it, or the
\* bucket holds an object without content.
DurableOnceSeen ==
  \A r \in Readers :
    reader[r].pc = "failed" /\ reader[r].sure =>
      evicted /\ (mode = "REDIS" \/ (mode = "S3+REDIS" /\ reader[r].val \in EmptyWriters))

\* Two stores answer like one as long as the races they leave open do not
\* happen: a get returns the value of the last put if that put overlapped with
\* no other, no get was about to fill the cache with an older object when it
\* returned, and no put has begun since.
QuietGetIsLast ==
  \A r \in Readers : reader[r].pc = "done" /\ reader[r].quiet => reader[r].val = last

---------------------------------------------------------------------------
(* The inductive invariant *)

\* Calls go to the stores of the mode, and with a bucket the object is there
\* before anything is in the cache, or on its way into it.
ObjectFirst ==
  /\ \A w \in Writers :
       /\ writer[w].pc = "upload" => UsesS3
       /\ writer[w].pc = "set" => UsesRedis /\ (UsesS3 => s3 # None)
  /\ \A r \in Readers :
       /\ reader[r].pc = "get" => UsesRedis
       /\ reader[r].pc = "download" => UsesS3
       /\ reader[r].pc = "fill" => UsesRedis /\ UsesS3 /\ s3 # None
  /\ cache # None => UsesRedis /\ (UsesS3 => s3 # None)

\* What was seen is in every store of the mode, but for an eviction.
SeenIsStored ==
  /\ seen => (UsesS3 => s3 # None) /\ (UsesRedis => cache # None \/ evicted)
  /\ \A r \in Readers :
       /\ reader[r].sure => seen
       /\ reader[r].sure /\ reader[r].pc = "download" /\ UsesRedis => evicted

\* A put that is alone is the only one under way, and the bucket has its object
\* by the time it sets the cache.
AloneIsAlone ==
  \A w \in Writers : writer[w].alone /\ UnderWay(w) =>
    /\ \A x \in Writers : UnderWay(x) => x = w
    /\ writer[w].pc = "set" /\ UsesS3 => s3 = w

\* While it is quiet no put is under way and all there is to be read, from
\* either store or from a fill that is pending, is the last value.
QuietIsSettled ==
  /\ quiet =>
       /\ \A w \in Writers : ~UnderWay(w)
       /\ UsesS3 => s3 = last
       /\ cache \in {None, last}
       /\ \A r \in Readers : reader[r].pc = "fill" => reader[r].val = last
  /\ \A r \in Readers : reader[r].quiet => quiet

DpInv ==
  /\ DpTypeOK
  /\ ObjectFirst /\ SeenIsStored /\ DurableOnceSeen
  /\ AloneIsAlone /\ QuietIsSettled /\ QuietGetIsLast

=============================================================================
