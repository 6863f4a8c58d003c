----------------------------- MODULE DataPlaneProofs -----------------------------
(***************************************************************************)
(* Theorems about DataPlane for every set of writers and readers of a key  *)
(* and each of the three storage services: what was seen stays readable,   *)
(* and two stores answer like one outside the races they leave open.       *)
(***************************************************************************)
EXTENDS DataPlane, TLAPS

---------------------------------------------------------------------------
(* Records *)

\* A get that goes on stays in its state space, with the rest of its record.
LEMMA ReaderTypes ==
  ASSUME NEW g \in ReaderState
  PROVE  /\ g.sure \in BOOLEAN /\ g.quiet \in BOOLEAN /\ g.val \in Writers \cup {None}
         /\ g.pc \in {"idle", "get", "download", "failed", "fill", "done"}
         /\ g.pc \in {"fill", "done"} => g.val \in Writers
         /\ [ g EXCEPT !.quiet = FALSE ] \in ReaderState
         /\ [ g EXCEPT !.quiet = FALSE ].pc = g.pc
         /\ [ g EXCEPT !.quiet = FALSE ].val = g.val
         /\ [ g EXCEPT !.quiet = FALSE ].sure = g.sure
         /\ ~[ g EXCEPT !.quiet = FALSE ].quiet
  BY DEF ReaderState

---------------------------------------------------------------------------
(* Gets *)

\* What a step of one get has to respect for the invariant to hold on.
LEMMA ReaderMove ==
  ASSUME DpInv, NEW r \in Readers, NEW g \in ReaderState,
         reader' = [reader EXCEPT ![r] = g],
         UNCHANGED << mode, s3, writer, evicted, quiet, last >>,
         \/ UNCHANGED cache
         \/ /\ cache' \in Writers
            /\ UsesRedis /\ (UsesS3 => s3 # None) /\ (quiet => cache' = last),
         seen' \in BOOLEAN, seen => seen',
         seen' => seen \/ ((UsesS3 => s3 # None) /\ (UsesRedis => cache' # None)),
         g.pc = "get" => UsesRedis,
         g.pc = "download" => UsesS3,
         g.pc = "fill" => UsesRedis /\ UsesS3 /\ s3 # None,
         g.sure => seen',
         g.sure /\ g.pc = "download" /\ UsesRedis => evicted,
         g.quiet => quiet,
         quiet /\ g.pc = "fill" => g.val = last,
         g.pc = "failed" /\ g.sure =>
           evicted /\ (mode = "REDIS" \/ (mode = "S3+REDIS" /\ g.val \in EmptyWriters)),
         g.pc = "done" /\ g.quiet => g.val = last
  PROVE  DpInv'
  <1> USE DEF DpInv
  <1>0. None \notin Writers
    BY WritersAssumption
  <1>1. (UsesS3' <=> UsesS3) /\ (UsesRedis' <=> UsesRedis) /\ \A w \in Writers : UnderWay(w)' <=> UnderWay(w)
    BY DEF UsesS3, UsesRedis, UnderWay
  <1>2. reader \in [Readers -> ReaderState]
    BY DEF DpTypeOK
  <1>3. \A q \in Readers : reader'[q] = IF q = r THEN g ELSE reader[q]
    BY <1>2
  <1>4. DpTypeOK'
    BY <1>2 DEF DpTypeOK
  <1>5. ObjectFirst'
    BY <1>0, <1>1, <1>3 DEF ObjectFirst
  <1>6. SeenIsStored'
    BY <1>0, <1>1, <1>3 DEF SeenIsStored
  <1>7. DurableOnceSeen'
    BY <1>3 DEF DurableOnceSeen
  <1>8. AloneIsAlone'
    BY <1>1 DEF AloneIsAlone
  <1>9. QuietIsSettled' /\ QuietGetIsLast'
    BY <1>1, <1>3 DEF QuietIsSettled, QuietGetIsLast
  <1> QED
    BY <1>4, <1>5, <1>6, <1>7, <1>8, <1>9

\* The steps of a get.
LEMMA GetKeeps ==
  ASSUME DpInv, NEW r \in Readers,
         \/ StartGet(r) \/ GetHit(r) \/ GetMiss(r) \/ DownloadFails(r) \/ Download(r)
         \/ Fill(r) \/ GetStops(r)
  PROVE  DpInv'
  <1> USE DEF DpInv
  <1>0. /\ reader[r] \in ReaderState /\ None \notin Writers /\ seen \in BOOLEAN /\ quiet \in BOOLEAN
        /\ s3 \in Writers \cup {None} /\ cache \in Writers \cup {None}
        /\ mode \in {"S3", "REDIS", "S3+REDIS"}
    BY WritersAssumption DEF DpTypeOK
  <1>1. /\ reader[r].pc = "get" => UsesRedis
        /\ reader[r].pc = "download" => UsesS3
        /\ reader[r].pc = "fill" => UsesRedis /\ UsesS3 /\ s3 # None
        /\ cache # None => UsesRedis /\ (UsesS3 => s3 # None)
    BY DEF ObjectFirst
  <1>2. /\ seen => (UsesS3 => s3 # None) /\ (UsesRedis => cache # None \/ evicted)
        /\ reader[r].sure => seen
        /\ reader[r].sure /\ reader[r].pc = "download" /\ UsesRedis => evicted
    BY DEF SeenIsStored
  <1>3. /\ reader[r].quiet => quiet
        /\ quiet => /\ UsesS3 => s3 = last
                    /\ cache \in {None, last}
                    /\ reader[r].pc = "fill" => reader[r].val = last
    BY DEF QuietIsSettled
  <1>4. CASE StartGet(r)
    <2> DEFINE g == [ pc |-> IF UsesRedis THEN "get" ELSE "download", val |-> None,
                      sure |-> seen, quiet |-> quiet ]
    <2>1. g \in ReaderState
      BY <1>0 DEF ReaderState
    <2>2. g.pc = "get" => UsesRedis
      OBVIOUS
    <2>3. g.pc = "download" => ~UsesRedis /\ UsesS3
      BY <1>0 DEF UsesRedis, UsesS3
    <2>4. /\ reader' = [reader EXCEPT ![r] = g]
          /\ UNCHANGED << mode, s3, cache, writer, seen, evicted, quiet, last >>
      BY <1>4 DEF StartGet
    <2>5. g.sure = seen /\ g.quiet = quiet /\ g.pc \notin {"fill", "failed", "done"}
      OBVIOUS
    <2> HIDE DEF g
    <2> QED
      BY <1>0, <2>1, <2>2, <2>3, <2>4, <2>5, ReaderMove
  <1>5. CASE GetHit(r)
    <2> DEFINE g == [ reader[r] EXCEPT !.pc = "done", !.val = cache ]
    <2>1. /\ reader[r].pc = "get" /\ cache # None /\ seen' = TRUE
          /\ reader' = [reader EXCEPT ![r] = g]
          /\ UNCHANGED << mode, s3, cache, writer, evicted, quiet, last >>
      BY <1>5 DEF GetHit, Answer
    <2>2. cache \in Writers
      BY <1>0, <2>1
    <2>3. g \in ReaderState /\ g.pc = "done" /\ g.val = cache /\ g.sure = reader[r].sure /\ g.quiet = reader[r].quiet
      BY <1>0, <2>2 DEF ReaderState
    <2> HIDE DEF g
    <2> QED
      BY <1>0, <1>1, <1>2, <1>3, <2>1, <2>3, ReaderMove
  <1>6. CASE GetMiss(r)
    <2>1. /\ reader[r].pc = "get" /\ cache = None /\ seen' = seen
          /\ UNCHANGED << mode, s3, cache, writer, evicted, quiet, last >>
      BY <1>6 DEF GetMiss, Fail
    <2>2. CASE UsesS3 /\ reader' = [reader EXCEPT ![r] = [ reader[r] EXCEPT !.pc = "download" ]]
      <3> DEFINE g == [ reader[r] EXCEPT !.pc = "download" ]
      <3>1. g \in ReaderState /\ g.pc = "download" /\ g.sure = reader[r].sure /\ g.quiet = reader[r].quiet
        BY <1>0 DEF ReaderState
      <3> HIDE DEF g
      <3>2. reader' = [reader EXCEPT ![r] = g]
        BY <2>2 DEF g
      <3> QED
        BY <1>0, <1>1, <1>2, <1>3, <2>1, <2>2, <3>1, <3>2, ReaderMove
    <2>3. CASE ~UsesS3 /\ Fail(r, None)
      <3> DEFINE g == [ reader[r] EXCEPT !.pc = "failed", !.val = None ]
      <3>1. g \in ReaderState /\ g.pc = "failed" /\ g.sure = reader[r].sure /\ g.quiet = reader[r].quiet
        BY <1>0 DEF ReaderState
      <3>2. reader' = [reader EXCEPT ![r] = g]
        BY <2>3 DEF Fail
      <3>3. mode = "REDIS"
        BY <1>0, <2>3 DEF UsesS3
      <3> HIDE DEF g
      <3> QED
        BY <1>0, <1>1, <1>2, <1>3, <2>1, <3>1, <3>2, <3>3, ReaderMove
    <2> QED
      BY <1>6, <2>2, <2>3 DEF GetMiss
  <1>7. CASE DownloadFails(r)
    <2> DEFINE g == [ reader[r] EXCEPT !.pc = "failed", !.val = s3 ]
    <2>1. /\ reader[r].pc = "download" /\ seen' = seen
          /\ s3 = None \/ (UsesRedis /\ s3 \in EmptyWriters)
          /\ reader' = [reader EXCEPT ![r] = g]
          /\ UNCHANGED << mode, s3, cache, writer, evicted, quiet, last >>
      BY <1>7 DEF DownloadFails, Fail
    <2>2. g \in ReaderState /\ g.pc = "failed" /\ g.val = s3 /\ g.sure = reader[r].sure /\ g.quiet = reader[r].quiet
      BY <1>0 DEF ReaderState
    <2>3. g.sure => evicted /\ mode = "S3+REDIS" /\ g.val \in EmptyWriters
      <3>1. ASSUME g.sure PROVE UsesRedis /\ UsesS3 /\ evicted /\ s3 \in EmptyWriters
        BY <1>1, <1>2, <2>1, <2>2, <3>1
      <3> QED
        BY <1>0, <2>2, <3>1 DEF UsesS3, UsesRedis
    <2> HIDE DEF g
    <2> QED
      BY <1>0, <1>1, <1>2, <1>3, <2>1, <2>2, <2>3, ReaderMove
  <1>8. CASE Download(r)
    <2>1. /\ reader[r].pc = "download" /\ s3 # None
          /\ UNCHANGED << mode, s3, cache, writer, evicted, quiet, last >>
      BY <1>8 DEF Download
    <2>2. s3 \in Writers
      BY <1>0, <2>1
    <2>3. CASE UsesRedis /\ reader' = [reader EXCEPT ![r] = [ reader[r] EXCEPT !.pc = "fill", !.val = s3 ]]
               /\ UNCHANGED seen
      <3> DEFINE g == [ reader[r] EXCEPT !.pc = "fill", !.val = s3 ]
      <3>1. g \in ReaderState /\ g.pc = "fill" /\ g.val = s3 /\ g.sure = reader[r].sure /\ g.quiet = reader[r].quiet
        BY <1>0, <2>2 DEF ReaderState
      <3>2. reader' = [reader EXCEPT ![r] = g]
        BY <2>3
      <3> HIDE DEF g
      <3> QED
        BY <1>0, <1>1, <1>2, <1>3, <2>1, <2>3, <3>1, <3>2, ReaderMove
    <2>4. CASE ~UsesRedis /\ Answer(r, s3)
      <3> DEFINE g == [ reader[r] EXCEPT !.pc = "done", !.val = s3 ]
      <3>1. g \in ReaderState /\ g.pc = "done" /\ g.val = s3 /\ g.sure = reader[r].sure /\ g.quiet = reader[r].quiet
        BY <1>0, <2>2 DEF ReaderState
      <3>2. reader' = [reader EXCEPT ![r] = g] /\ seen' = TRUE
        BY <2>4 DEF Answer
      <3> HIDE DEF g
      <3> QED
        BY <1>0, <1>1, <1>2, <1>3, <2>1, <2>4, <3>1, <3>2, ReaderMove
    <2> QED
      BY <1>8, <2>3, <2>4 DEF Download
  <1>9. CASE Fill(r)
    <2> DEFINE g == [ reader[r] EXCEPT !.pc = "done", !.val = reader[r].val ]
    <2>1. /\ reader[r].pc = "fill" /\ cache' = reader[r].val /\ seen' = TRUE
          /\ reader' = [reader EXCEPT ![r] = g]
          /\ UNCHANGED << mode, s3, writer, evicted, quiet, last >>
      BY <1>9 DEF Fill, Answer
    <2>2. reader[r].val \in Writers
      BY <1>0, <2>1, ReaderTypes
    <2>3. g \in ReaderState /\ g.pc = "done" /\ g.val = reader[r].val /\ g.sure = reader[r].sure /\ g.quiet = reader[r].quiet
      BY <1>0, <2>2 DEF ReaderState
    <2> HIDE DEF g
    <2> QED
      BY <1>0, <1>1, <1>2, <1>3, <2>1, <2>2, <2>3, ReaderMove
  <1>10. CASE GetStops(r)
    <2>1. IdleReader \in ReaderState /\ IdleReader.pc = "idle" /\ ~IdleReader.sure /\ ~IdleReader.quiet
      BY DEF IdleReader, ReaderState
    <2>2. /\ reader' = [reader EXCEPT ![r] = IdleReader]
          /\ UNCHANGED << mode, s3, cache, writer, seen, evicted, quiet, last >>
      BY <1>10 DEF GetStops
    <2> QED
      BY <1>0, <2>1, <2>2, ReaderMove
  <1> QED
    BY <1>4, <1>5, <1>6, <1>7, <1>8, <1>9, <1>10

---------------------------------------------------------------------------
(* Puts *)

\* A put begins: from now on at most this one may be alone, and nothing is quiet.
LEMMA StartPutKeeps ==
  ASSUME DpInv, NEW w \in Writers, StartPut(w)
  PROVE  DpInv'
  <1> USE DEF DpInv
  <1>0. /\ \A v \in Writers : writer[v] \in WriterState
        /\ \A r \in Readers : reader[r] \in ReaderState
        /\ mode \in {"S3", "REDIS", "S3+REDIS"}
    BY DEF DpTypeOK, WriterState
  <1>1. /\ UNCHANGED << mode, s3, cache, seen, evicted, last >> /\ quiet' = FALSE
        /\ writer' = [v \in Writers |->
             IF v = w
               THEN [ pc |-> IF UsesS3 THEN "upload" ELSE "set", alone |-> \A x \in Writers : ~UnderWay(x) ]
               ELSE [ writer[v] EXCEPT !.alone = FALSE ]]
        /\ reader' = [r \in Readers |-> [ reader[r] EXCEPT !.quiet = FALSE ]]
    BY DEF StartPut
  <1>2. (UsesS3' <=> UsesS3) /\ (UsesRedis' <=> UsesRedis) /\ (~UsesS3 => UsesRedis)
    BY <1>0, <1>1 DEF UsesS3, UsesRedis
  <1>3. \A r \in Readers :
          /\ reader'[r] \in ReaderState
          /\ reader'[r].pc = reader[r].pc /\ reader'[r].val = reader[r].val
          /\ reader'[r].sure = reader[r].sure /\ ~reader'[r].quiet
    BY <1>0, <1>1, ReaderTypes
  <1>4. /\ writer'[w].pc = IF UsesS3 THEN "upload" ELSE "set"
        /\ writer'[w].alone = \A x \in Writers : ~UnderWay(x)
        /\ writer'[w] \in WriterState
    BY <1>1 DEF WriterState
  <1>5. \A v \in Writers \ {w} :
          writer'[v].pc = writer[v].pc /\ ~writer'[v].alone /\ writer'[v] \in WriterState
    BY <1>0, <1>1 DEF WriterState
  <1>6. DpTypeOK'
    <2>1. writer' \in [Writers -> WriterState]
      BY <1>1, <1>4, <1>5
    <2>2. reader' \in [Readers -> ReaderState]
      BY <1>1, <1>3
    <2> QED
      BY <1>1, <2>1, <2>2 DEF DpTypeOK, WriterState
  <1>7. ObjectFirst'
    <2>1. \A v \in Writers :
            /\ writer'[v].pc = "upload" => UsesS3
            /\ writer'[v].pc = "set" => UsesRedis /\ (UsesS3 => s3 # None)
      BY <1>2, <1>4, <1>5 DEF ObjectFirst
    <2> QED
      BY <1>1, <1>2, <1>3, <2>1 DEF ObjectFirst
  <1>8. SeenIsStored' /\ DurableOnceSeen'
    BY <1>1, <1>2, <1>3 DEF SeenIsStored, DurableOnceSeen
  <1>9. AloneIsAlone'
    <2> SUFFICES ASSUME NEW v \in Writers, writer'[v].alone, UnderWay(v)'
                 PROVE  /\ \A x \in Writers : UnderWay(x)' => x = v
                        /\ writer'[v].pc = "set" /\ UsesS3' => s3' = v
      BY DEF AloneIsAlone
    <2>1. v = w /\ \A x \in Writers : ~UnderWay(x)
      BY <1>4, <1>5
    <2>2. \A x \in Writers \ {w} : ~UnderWay(x)'
      BY <1>5, <2>1 DEF UnderWay
    <2> QED
      BY <1>2, <1>4, <2>1, <2>2
  <1>10. QuietIsSettled' /\ QuietGetIsLast'
    BY <1>1, <1>3 DEF QuietIsSettled, QuietGetIsLast
  <1> QED
    BY <1>6, <1>7, <1>8, <1>9, <1>10

\* A put goes on to pc: what its stores and its return have to respect.
LEMMA WriterMove ==
  ASSUME DpInv, NEW w \in Writers, NEW p \in {"set", "done", "dead"}, UnderWay(w),
         writer' = [writer EXCEPT ![w] = [ writer[w] EXCEPT !.pc = p ]],
         UNCHANGED << mode, reader, evicted >>,
         s3' = s3 \/ (s3' = w /\ writer[w].pc = "upload"),
         cache' = cache \/ (cache' = w /\ writer[w].pc = "set"),
         p = "set" => UsesRedis /\ s3' = w,
         seen' \in BOOLEAN, seen => seen',
         seen' => seen \/ ((UsesS3 => s3' # None) /\ (UsesRedis => cache' # None)),
         last' \in Writers \cup {None}, quiet' \in BOOLEAN,
         quiet' => /\ last' = w /\ p = "done" /\ writer[w].alone
                   /\ UsesS3 => s3' = w
                   /\ UsesRedis => cache' = w
                   /\ \A r \in Readers : reader[r].pc = "fill" => reader[r].val = w
  PROVE  DpInv'
  <1> USE DEF DpInv
  <1>0. /\ \A v \in Writers : writer[v] \in WriterState
        /\ writer \in [Writers -> WriterState]
        /\ reader \in [Readers -> ReaderState]
        /\ None \notin Writers
    BY WritersAssumption DEF DpTypeOK, WriterState
  <1>1. (UsesS3' <=> UsesS3) /\ (UsesRedis' <=> UsesRedis)
    BY DEF UsesS3, UsesRedis
  <1>2. /\ writer'[w].pc = p /\ writer'[w].alone = writer[w].alone /\ writer'[w] \in WriterState
        /\ \A v \in Writers \ {w} : writer'[v] = writer[v]
    BY <1>0 DEF WriterState
  <1>3. DpTypeOK'
    <2>1. writer' \in [Writers -> WriterState]
      BY <1>0, <1>2
    <2>2. s3' \in Writers \cup {None} /\ cache' \in Writers \cup {None}
      BY DEF DpTypeOK
    <2> QED
      BY <2>1, <2>2 DEF DpTypeOK, WriterState
  <1>4. s3 # None => s3' # None
    BY <1>0
  <1>5. ObjectFirst'
    <2>1. \A v \in Writers :
            /\ writer'[v].pc = "upload" => UsesS3
            /\ writer'[v].pc = "set" => UsesRedis /\ (UsesS3 => s3' # None)
      BY <1>0, <1>2, <1>4 DEF ObjectFirst
    <2>2. cache' # None => UsesRedis /\ (UsesS3 => s3' # None)
      BY <1>4 DEF ObjectFirst
    <2>3. \A r \in Readers :
            /\ reader[r].pc = "get" => UsesRedis
            /\ reader[r].pc = "download" => UsesS3
            /\ reader[r].pc = "fill" => UsesRedis /\ UsesS3 /\ s3' # None
      BY <1>4 DEF ObjectFirst
    <2> QED
      BY <1>1, <2>1, <2>2, <2>3 DEF ObjectFirst
  <1>6. SeenIsStored'
    <2>1. cache # None => cache' # None
      BY <1>0
    <2> QED
      BY <1>1, <1>4, <2>1 DEF SeenIsStored
  <1>7. DurableOnceSeen'
    BY DEF DurableOnceSeen
  <1>8. ~quiet /\ \A r \in Readers : ~reader[r].quiet
    BY DEF QuietIsSettled
  <1>9. AloneIsAlone'
    <2> SUFFICES ASSUME NEW v \in Writers, writer'[v].alone, UnderWay(v)'
                 PROVE  /\ \A x \in Writers : UnderWay(x)' => x = v
                        /\ writer'[v].pc = "set" /\ UsesS3' => s3' = v
      BY DEF AloneIsAlone
    <2>1. \A x \in Writers : UnderWay(x)' => UnderWay(x)
      BY <1>2 DEF UnderWay
    <2>2. \A x \in Writers : UnderWay(x) => x = v
      BY <1>2, <2>1 DEF AloneIsAlone
    <2>3. v = w
      BY <2>2
    <2> QED
      BY <1>2, <2>1, <2>2, <2>3 DEF UnderWay
  <1>10. QuietIsSettled'
    <2>1. ASSUME quiet'
          PROVE  /\ \A x \in Writers : ~UnderWay(x)'
                 /\ UsesS3 => s3' = last'
                 /\ cache' \in {None, last'}
                 /\ \A r \in Readers : reader[r].pc = "fill" => reader[r].val = last'
      <3>1. \A x \in Writers \ {w} : ~UnderWay(x)
        BY <2>1 DEF AloneIsAlone
      <3>2. \A x \in Writers : ~UnderWay(x)'
        BY <1>2, <2>1, <3>1 DEF UnderWay
      <3>3. ~UsesRedis => cache' = None
        BY DEF ObjectFirst
      <3> QED
        BY <2>1, <3>2, <3>3
    <2> QED
      BY <1>1, <1>8, <2>1 DEF QuietIsSettled
  <1>11. QuietGetIsLast'
    BY <1>8 DEF QuietGetIsLast
  <1> QED
    BY <1>3, <1>5, <1>6, <1>7, <1>9, <1>10, <1>11

\* The steps of a put: its calls to the stores, its return and its failure.
LEMMA PutKeeps ==
  ASSUME DpInv, NEW w \in Writers, Upload(w) \/ SetCache(w) \/ PutFails(w)
  PROVE  DpInv'
  <1> USE DEF DpInv
  <1>0. /\ writer[w] \in WriterState /\ None \notin Writers /\ seen \in BOOLEAN /\ quiet \in BOOLEAN
        /\ last \in Writers \cup {None}
    BY WritersAssumption DEF DpTypeOK, WriterState
  <1>1. /\ writer[w].pc = "upload" => UsesS3
        /\ writer[w].pc = "set" => UsesRedis /\ (UsesS3 => s3 # None)
    BY DEF ObjectFirst
  <1>2. writer[w].alone /\ writer[w].pc = "set" /\ UsesS3 => s3 = w
    BY DEF AloneIsAlone, UnderWay
  <1>3. UnderWay(w) => ~quiet
    BY DEF QuietIsSettled
  <1>4. CASE Upload(w)
    <2>1. /\ writer[w].pc = "upload" /\ s3' = w /\ UNCHANGED << mode, cache, reader, evicted >>
      BY <1>4 DEF Upload
    <2>2. UnderWay(w)
      BY <2>1 DEF UnderWay
    <2>3. CASE /\ UsesRedis
               /\ writer' = [writer EXCEPT ![w] = [ writer[w] EXCEPT !.pc = "set" ]]
               /\ UNCHANGED << seen, last, quiet >>
      BY <1>0, <1>3, <2>1, <2>2, <2>3, WriterMove
    <2>4. CASE ~UsesRedis /\ Returned(w)
      <3>1. /\ writer' = [writer EXCEPT ![w] = [ writer[w] EXCEPT !.pc = "done" ]]
            /\ seen' = TRUE /\ last' = w
            /\ quiet' = (writer[w].alone /\ \A r \in Readers : reader[r].pc = "fill" => reader[r].val = w)
        BY <2>4 DEF Returned
      <3>2. quiet' \in BOOLEAN
        BY <3>1
      <3>3. quiet' => writer[w].alone /\ \A r \in Readers : reader[r].pc = "fill" => reader[r].val = w
        BY <3>1
      <3>4. w # None /\ w \in Writers \cup {None}
        BY <1>0
      <3> HIDE DEF DpInv
      <3> QED
        BY <2>1, <2>2, <2>4, <3>1, <3>2, <3>3, <3>4, WriterMove
    <2> QED
      BY <1>4, <2>3, <2>4 DEF Upload
  <1>5. CASE SetCache(w)
    <2>1. /\ writer[w].pc = "set" /\ cache' = w /\ UNCHANGED << mode, s3, reader, evicted >>
          /\ writer' = [writer EXCEPT ![w] = [ writer[w] EXCEPT !.pc = "done" ]]
          /\ seen' = TRUE /\ last' = w
          /\ quiet' = (writer[w].alone /\ \A r \in Readers : reader[r].pc = "fill" => reader[r].val = w)
      BY <1>5 DEF SetCache, Returned
    <2>2. UnderWay(w)
      BY <2>1 DEF UnderWay
    <2>3. quiet' \in BOOLEAN
      BY <2>1
    <2>4. quiet' => /\ writer[w].alone /\ (UsesS3 => s3' = w)
                    /\ \A r \in Readers : reader[r].pc = "fill" => reader[r].val = w
      BY <1>2, <2>1
    <2>5. w # None /\ w \in Writers \cup {None}
      BY <1>0
    <2> HIDE DEF DpInv
    <2> QED
      BY <1>1, <2>1, <2>2, <2>3, <2>4, <2>5, WriterMove
  <1>6. CASE PutFails(w)
    <2>1. /\ UnderWay(w) /\ writer' = [writer EXCEPT ![w] = [ writer[w] EXCEPT !.pc = "dead" ]]
          /\ s3' = s3 \/ (s3' = w /\ writer[w].pc = "upload")
          /\ cache' = cache \/ (cache' = w /\ writer[w].pc = "set")
          /\ UNCHANGED << mode, reader, seen, evicted, quiet, last >>
      BY <1>6 DEF PutFails
    <2> QED
      BY <1>0, <1>3, <2>1, WriterMove
  <1> QED
    BY <1>4, <1>5, <1>6

---------------------------------------------------------------------------
(* Theorems *)

\* Redis drops the entry: the cache has nothing of its own but what an eviction
\* is blamed for.
LEMMA EvictKeeps ==
  ASSUME DpInv, Evict
  PROVE  DpInv'
  <1> USE DEF DpInv, Evict
  <1>1. (UsesS3' <=> UsesS3) /\ (UsesRedis' <=> UsesRedis) /\ \A w \in Writers : UnderWay(w)' <=> UnderWay(w)
    BY DEF UsesS3, UsesRedis, UnderWay
  <1>2. DpTypeOK'
    BY DEF DpTypeOK
  <1>3. ObjectFirst' /\ SeenIsStored' /\ DurableOnceSeen'
    BY <1>1 DEF ObjectFirst, SeenIsStored, DurableOnceSeen
  <1>4. AloneIsAlone' /\ QuietIsSettled' /\ QuietGetIsLast'
    BY <1>1 DEF AloneIsAlone, QuietIsSettled, QuietGetIsLast
  <1> QED
    BY <1>2, <1>3, <1>4

\* Before the first put there is nothing, in whatever mode.
LEMMA InitDp == Init => DpInv
  <1> SUFFICES ASSUME Init PROVE DpInv
    OBVIOUS
  <1> USE DEF Init, IdleReader
  <1>1. DpTypeOK
    <2>1. IdleReader \in ReaderState
      BY DEF ReaderState
    <2> QED
      BY <2>1 DEF DpTypeOK, WriterState
  <1>2. /\ \A w \in Writers : writer[w].pc = "idle"
        /\ \A r \in Readers : reader[r].pc = "idle" /\ ~reader[r].sure /\ ~reader[r].quiet
        /\ ~seen /\ ~quiet /\ cache = None
    OBVIOUS
  <1>3. ObjectFirst /\ SeenIsStored /\ DurableOnceSeen
    BY <1>2 DEF ObjectFirst, SeenIsStored, DurableOnceSeen
  <1>4. AloneIsAlone /\ QuietIsSettled /\ QuietGetIsLast
    BY <1>2 DEF AloneIsAlone, QuietIsSettled, QuietGetIsLast, UnderWay
  <1> QED
    BY <1>1, <1>3, <1>4 DEF DpInv

\* The invariant of stores, puts and gets.
THEOREM DataPlaneInvariant == Spec => []DpInv
  <1>1. DpInv /\ [Next]_dpVars => DpInv'
    <2> SUFFICES ASSUME DpInv, [Next]_dpVars PROVE DpInv'
      OBVIOUS
    <2>1. CASE UNCHANGED dpVars
      <3>1. UNCHANGED << mode, s3, cache, writer, reader, seen, evicted, quiet, last >>
        BY <2>1 DEF dpVars
      <3> QED
        BY <3>1 DEF DpInv, DpTypeOK, ObjectFirst, SeenIsStored, DurableOnceSeen, AloneIsAlone,
                    QuietIsSettled, QuietGetIsLast, UsesS3, UsesRedis, UnderWay
    <2> QED
      BY <2>1, GetKeeps, StartPutKeeps, PutKeeps, EvictKeeps DEF Next
  <1> QED
    BY <1>1, InitDp, PTL DEF Spec

\* Stores, puts and gets keep to their state space; a get that is answered, or
\* is to fill the cache, has a value.
THEOREM DataPlaneTypeCorrect == Spec => []DpTypeOK
  <1>1. DpInv => DpTypeOK
    BY DEF DpInv
  <1> QED
    BY <1>1, DataPlaneInvariant, PTL

\* InOutS3 and InOutRedis: once a put has returned or a get was answered, a get
\* fails only for an eviction with no bucket, or with an empty object, behind it.
THEOREM DataPlaneDurable == Spec => []DurableOnceSeen
  <1>1. DpInv => DurableOnceSeen
    BY DEF DpInv
  <1> QED
    BY <1>1, DataPlaneInvariant, PTL

\* InOutRedis: outside the races of overlapping puts and late fills, a get
\* returns the value of the last put.
THEOREM DataPlaneQuiet == Spec => []QuietGetIsLast
  <1>1. DpInv => QuietGetIsLast
    BY DEF DpInv
  <1> QED
    BY <1>1, DataPlaneInvariant, PTL

=============================================================================
