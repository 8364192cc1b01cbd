-------------------------- MODULE ConfigurationProofs --------------------------
(***************************************************************************)
(* Proofs about how configuration is stored, listed and delivered:         *)
(* ChangeFeed for any buffer sizes, number of timers, changes and faults,  *)
(* and for both deployments; Paging for any names, objects and callers;    *)
(* ConfigPath for any names, manifests, files and requests.                *)
(***************************************************************************)
EXTENDS ChangeFeed, Paging, ConfigPath, FiniteSetTheorems, SequenceTheorems, TLAPS

-----------------------------------------------------------------------------
(***************************************************************************)
(* ChangeFeed: what a hint still to be delivered guarantees.               *)
(***************************************************************************)

Job ==
  [step : {"idle", "flush", "fetch", "apply", "reconcile"}, todo : Seq(Key \cup Class),
   read : 0..MaxChanges, reconcile : BOOLEAN]

\* Only the consumer flushes, one key; a dispatch refreshes one class and only a
\* Resync may have both to do.
JobOK(g, j) ==
  /\ j.step = "flush" => g = "consumer" /\ \E k \in Key : j.todo = <<k>>
  /\ j.step \in {"fetch", "apply"} =>
       \/ \E c \in Class : j.todo = <<c>>
       \/ g = "resync" /\ j.todo = <<"cache", "registry">>

\* A key at MaxBuffer is the one the consumer goes on to flush.
Counted ==
  \A k \in Key :
    count[k] < MaxBuffer \/ (job["consumer"].step = "flush" /\ job["consumer"].todo = <<k>>)

\* Nothing is ahead of the store.
Bounded ==
  /\ cpVer["cache"] + cpVer["registry"] <= MaxChanges
  /\ \A k \in Key : unpublished[k] <= cpVer[ClassOf(k)]
  /\ \A c \in Class : fetched[c] <= cpVer[c] /\ excused[c] <= cpVer[c]

Sound ==
  /\ TypeOK /\ job \in [Goroutine -> Job]
  /\ \A g \in Goroutine : JobOK(g, job[g])
  /\ Counted /\ Bounded /\ (~distributed => serverBuf = <<>>)

\* The change of class c that is still to be fetched and was not lost outside.
Unfetched(c) == cpVer[c] > fetched[c] /\ cpVer[c] > excused[c]

\* Its own hint is on its way.  A Resync does not count: it comes on top of the
\* hint, and between its two classes nothing shows that the second is to come.
Announced(c) ==
  \/ \E k \in Key : ClassOf(k) = c /\ (unpublished[k] > 0 \/ count[k] > 0)
  \/ \E k \in Range(serverBuf) \cup Range(localBuf) : ClassOf(k) = c
  \/ \E g \in Goroutine \ {"resync"} : job[g].step = "fetch" /\ job[g].todo = <<c>>

Kept == \A c \in Class : Unfetched(c) => Announced(c)

-----------------------------------------------------------------------------
\* Keys and classes.
LEMMA KeyClasses ==
  /\ \A k \in Key : ClassOf(k) \in Class
  /\ \A c \in Class : c = "cache" \/ c = "registry"
  /\ "cache" \in Class /\ "registry" \in Class
  /\ "consumer" \in Goroutine /\ "resync" \in Goroutine /\ Timers \subseteq Goroutine
  /\ "consumer" \notin Timers /\ "resync" \notin Timers
BY FeedAssumption DEF Key, Class, ClassOf, Goroutine

\* A hint that is sent to a channel.
LEMMA Appended ==
  ASSUME NEW s \in Seq(Key), NEW k \in Key
  PROVE  /\ Append(s, k) \in Seq(Key) /\ Len(Append(s, k)) = Len(s) + 1
         /\ Range(Append(s, k)) = Range(s) \cup {k}
<1>1. /\ Append(s, k) \in Seq(Key) /\ Len(Append(s, k)) = Len(s) + 1 /\ Len(s) \in Nat
      /\ \A i \in 1..Len(s) : Append(s, k)[i] = s[i]
      /\ Append(s, k)[Len(s) + 1] = k
  BY AppendProperties
<1>2. DOMAIN s = 1..Len(s) /\ DOMAIN Append(s, k) = 1..(Len(s) + 1)
  BY <1>1
<1>3. 1..(Len(s) + 1) = (1..Len(s)) \cup {Len(s) + 1}
  BY <1>1
<1> QED
  BY <1>1, <1>2, <1>3 DEF Range

\* A hint that is received from a channel.
LEMMA Received ==
  ASSUME NEW s \in Seq(Key), s # <<>>
  PROVE  /\ Head(s) \in Key /\ Tail(s) \in Seq(Key) /\ Len(Tail(s)) = Len(s) - 1
         /\ Range(s) = {Head(s)} \cup Range(Tail(s))
<1>1. /\ Head(s) \in Key /\ Tail(s) \in Seq(Key) /\ Len(Tail(s)) = Len(s) - 1 /\ Len(s) \in Nat
      /\ Len(s) # 0 /\ Head(s) = s[1]
      /\ \A i \in 1..Len(Tail(s)) : Tail(s)[i] = s[i + 1]
  BY HeadTailProperties, EmptySeq
<1>2. DOMAIN s = 1..Len(s) /\ DOMAIN Tail(s) = 1..(Len(s) - 1)
  BY <1>1
<1>3. ASSUME NEW x \in Range(s) PROVE x = Head(s) \/ x \in Range(Tail(s))
  <2>1. PICK i \in 1..Len(s) : x = s[i]
    BY <1>2 DEF Range
  <2>2. CASE i = 1
    BY <1>1, <2>1, <2>2
  <2>3. CASE i # 1
    <3>1. i - 1 \in 1..(Len(s) - 1) /\ (i - 1) + 1 = i
      BY <1>1, <2>1, <2>3
    <3>2. Tail(s)[i - 1] = s[i]
      BY <1>1, <3>1
    <3> QED
      BY <1>2, <2>1, <3>1, <3>2 DEF Range
  <2> QED
    BY <2>2, <2>3
<1>4. ASSUME NEW x \in Range(Tail(s)) PROVE x \in Range(s)
  <2>1. PICK i \in 1..(Len(s) - 1) : x = Tail(s)[i]
    BY <1>2 DEF Range
  <2>2. i + 1 \in 1..Len(s) /\ x = s[i + 1]
    BY <1>1, <2>1
  <2> QED
    BY <1>2, <2>2 DEF Range
<1>5. Head(s) \in Range(s)
  BY <1>1, <1>2 DEF Range
<1> QED
  BY <1>1, <1>3, <1>4, <1>5

\* The short lists of classes.
LEMMA Lists ==
  /\ \A c : Head(<<c>>) = c /\ Tail(<<c>>) = <<>> /\ Range(<<c>>) = {c}
  /\ \A c, d : <<c>> = <<d>> => c = d
  /\ Head(<<"cache", "registry">>) = "cache" /\ Tail(<<"cache", "registry">>) = <<"registry">>
  /\ Range(<<"cache", "registry">>) = Class
<1>1. \A c : Head(<<c>>) = c /\ Tail(<<c>>) = <<>>
  OBVIOUS
<1>2. \A c : Range(<<c>>) = {c}
  BY DEF Range
<1>3. \A c, d : <<c>> = <<d>> => c = d
  OBVIOUS
<1>4. Head(<<"cache", "registry">>) = "cache" /\ Tail(<<"cache", "registry">>) = <<"registry">>
  OBVIOUS
<1>5. Range(<<"cache", "registry">>) = Class
  BY DEF Range, Class
<1> QED
  BY <1>1, <1>2, <1>3, <1>4, <1>5

\* Jobs are well formed.
LEMMA Jobs ==
  /\ NoJob \in Job /\ NoJob.step = "idle"
  /\ ResyncJob \in Job /\ ResyncJob.step = "fetch" /\ JobOK("resync", ResyncJob)
  /\ \A g \in Goroutine : JobOK(g, NoJob)
  /\ \A k \in Key : /\ DispatchOf(k) \in Job /\ DispatchOf(k).step = "fetch"
                    /\ DispatchOf(k).todo = <<ClassOf(k)>>
                    /\ \A g \in Goroutine : JobOK(g, DispatchOf(k))
<1>1. 0 \in 0..MaxChanges
  BY FeedAssumption
<1>2. NoJob \in Job /\ NoJob.step = "idle"
  BY <1>1 DEF NoJob, Job
<1>3. ResyncJob \in Job /\ ResyncJob.step = "fetch" /\ JobOK("resync", ResyncJob)
  BY <1>1 DEF ResyncJob, Job, JobOK, Class
<1>4. ASSUME NEW k \in Key
      PROVE  /\ DispatchOf(k) \in Job /\ DispatchOf(k).step = "fetch"
             /\ DispatchOf(k).todo = <<ClassOf(k)>>
             /\ \A g \in Goroutine : JobOK(g, DispatchOf(k))
  BY <1>1, KeyClasses DEF DispatchOf, Job, JobOK
<1> QED
  BY <1>2, <1>3, <1>4 DEF JobOK

\* A goroutine that is not flushing takes its next step.
LEMMA JobStep ==
  ASSUME Sound, NEW g \in Goroutine, NEW j \in Job, JobOK(g, j), job[g].step # "flush",
         job' = [job EXCEPT ![g] = j], UNCHANGED count
  PROVE  /\ job' \in [Goroutine -> Job] /\ (\A h \in Goroutine : JobOK(h, job'[h])) /\ Counted'
         /\ job'[g] = j /\ \A h \in Goroutine \ {g} : job'[h] = job[h]
<1>1. job'[g] = j /\ \A h \in Goroutine \ {g} : job'[h] = job[h]
  BY DEF Sound
<1>2. job' \in [Goroutine -> Job]
  BY DEF Sound
<1>3. \A h \in Goroutine : JobOK(h, job'[h])
  BY <1>1 DEF Sound
<1>4. Counted'
  BY <1>1, KeyClasses DEF Sound, Counted
<1> QED
  BY <1>1, <1>2, <1>3, <1>4

\* The rest of what TypeOK says of a job.
LEMMA JobTyped ==
  ASSUME job \in [Goroutine -> Job]
  PROVE  \A g \in Goroutine : /\ job[g].step \in {"idle", "flush", "fetch", "apply", "reconcile"}
                              /\ job[g].read \in 0..MaxChanges
BY DEF Job

\* A change is stored.
LEMMA PersistSound ==
  ASSUME Sound, NEW k \in Key, Persist(k), UNCHANGED distributed
  PROVE  Sound'
<1>1. PICK c \in Class : c = ClassOf(k)
  BY KeyClasses
<1>2. /\ cpVer["cache"] + cpVer["registry"] < MaxChanges
      /\ cpVer' = [cpVer EXCEPT ![c] = @ + 1] /\ unpublished' = [unpublished EXCEPT ![k] = @ + 1]
      /\ UNCHANGED <<stream, serverBuf, live, localBuf, count, job, dpVer, listeners, fetched,
                     excused, faults>>
  BY <1>1 DEF Persist, feed, dpState
<1>3. /\ cpVer \in [Class -> 0..MaxChanges] /\ unpublished \in [Key -> 0..MaxChanges]
      /\ MaxChanges \in Nat /\ unpublished[k] <= cpVer[c]
  BY <1>1, FeedAssumption DEF Sound, TypeOK, Bounded
<1>4. /\ cpVer'[c] = cpVer[c] + 1 /\ (\A d \in Class \ {c} : cpVer'[d] = cpVer[d])
      /\ cpVer["cache"] \in 0..MaxChanges /\ cpVer["registry"] \in 0..MaxChanges
  BY <1>2, <1>3, KeyClasses
<1>5. cpVer'["cache"] + cpVer'["registry"] <= MaxChanges /\ cpVer[c] + 1 \in 0..MaxChanges
  <2>1. CASE c = "cache"
    <3>1. cpVer'["cache"] = cpVer["cache"] + 1 /\ cpVer'["registry"] = cpVer["registry"]
      BY <1>4, <2>1, KeyClasses
    <3> QED
      BY <1>2, <1>3, <1>4, <2>1, <3>1
  <2>2. CASE c = "registry"
    <3>1. cpVer'["registry"] = cpVer["registry"] + 1 /\ cpVer'["cache"] = cpVer["cache"]
      BY <1>4, <2>2, KeyClasses
    <3> QED
      BY <1>2, <1>3, <1>4, <2>2, <3>1
  <2> QED
    BY <2>1, <2>2, KeyClasses
<1>6. cpVer' \in [Class -> 0..MaxChanges] /\ \A d \in Class : cpVer[d] <= cpVer'[d]
  BY <1>2, <1>3, <1>4, <1>5
<1>7. unpublished[k] + 1 <= cpVer[c] + 1 /\ unpublished[k] + 1 \in 0..MaxChanges
  BY <1>3, <1>5
<1>8. unpublished' \in [Key -> 0..MaxChanges]
  BY <1>2, <1>3, <1>7
<1>9. Bounded'
  <2>1. ASSUME NEW l \in Key PROVE unpublished'[l] <= cpVer'[ClassOf(l)]
    <3>1. CASE l = k
      BY <1>1, <1>2, <1>3, <1>4, <1>7, <3>1
    <3>2. CASE l # k
      <4>1. unpublished'[l] = unpublished[l] /\ unpublished[l] <= cpVer[ClassOf(l)] /\ unpublished[l] \in Int
        BY <1>2, <1>3, <3>2 DEF Sound, Bounded
      <4>2. /\ ClassOf(l) \in Class /\ cpVer[ClassOf(l)] \in Int /\ cpVer'[ClassOf(l)] \in Int
            /\ cpVer[ClassOf(l)] <= cpVer'[ClassOf(l)]
        BY <1>3, <1>6, KeyClasses
      <4> QED
        BY <4>1, <4>2
    <3> QED
      BY <3>1, <3>2
  <2>2. ASSUME NEW d \in Class PROVE fetched'[d] <= cpVer'[d] /\ excused'[d] <= cpVer'[d]
    <3>1. /\ fetched'[d] = fetched[d] /\ excused'[d] = excused[d] /\ fetched[d] <= cpVer[d]
          /\ excused[d] <= cpVer[d] /\ cpVer[d] <= cpVer'[d]
          /\ fetched[d] \in Int /\ excused[d] \in Int /\ cpVer[d] \in Int /\ cpVer'[d] \in Int
      BY <1>2, <1>3, <1>6 DEF Sound, TypeOK, Bounded
    <3> QED
      BY <3>1
  <2>3. (\A l \in Key : unpublished[l] <= cpVer[ClassOf(l)])'
    BY <2>1 DEF ClassOf
  <2> QED
    BY <1>5, <2>2, <2>3 DEF Bounded
<1>10. Counted'
  BY <1>2 DEF Sound, Counted
<1>11. TypeOK'
  BY <1>2, <1>6, <1>8 DEF Sound, TypeOK
<1> QED
  BY <1>2, <1>9, <1>10, <1>11 DEF Sound

\* What excusing classes does.
LEMMA Excused ==
  ASSUME Sound, NEW C, Excuse(C)
  PROVE  /\ excused' \in [Class -> 0..MaxChanges]
         /\ \A c \in Class : excused'[c] <= cpVer[c] /\ excused[c] <= excused'[c]
         /\ \A c \in Class : c \in C => excused'[c] = cpVer[c]
<1>1. /\ excused \in [Class -> 0..MaxChanges] /\ cpVer \in [Class -> 0..MaxChanges]
      /\ \A c \in Class : excused[c] <= cpVer[c]
  BY DEF Sound, TypeOK, Bounded
<1>2. excused' = [c \in Class |-> IF c \in C THEN cpVer[c] ELSE excused[c]]
  BY DEF Excuse
<1> QED
  BY <1>1, <1>2, FeedAssumption

\* Steps that store nothing new.
LEMMA StaysBounded ==
  ASSUME Sound, UNCHANGED cpVer,
         unpublished' \in [Key -> 0..MaxChanges], \A k \in Key : unpublished'[k] <= unpublished[k],
         \A c \in Class : fetched'[c] <= cpVer[c], \A c \in Class : excused'[c] <= cpVer[c]
  PROVE  Bounded'
<1>1. ASSUME NEW k \in Key PROVE unpublished'[k] <= cpVer[ClassOf(k)]
  <2>1. /\ unpublished[k] <= cpVer[ClassOf(k)] /\ unpublished'[k] <= unpublished[k]
        /\ unpublished[k] \in Int /\ unpublished'[k] \in Int /\ cpVer[ClassOf(k)] \in Int
    BY KeyClasses DEF Sound, TypeOK, Bounded
  <2> QED
    BY <2>1
<1>2. (\A k \in Key : unpublished[k] <= cpVer[ClassOf(k)])'
  BY <1>1 DEF ClassOf
<1> QED
  BY <1>2 DEF Sound, Bounded

\* A step that changes neither the versions nor what is announced.
LEMMA SameBounds ==
  ASSUME Sound, UNCHANGED <<cpVer, unpublished, fetched, excused>>
  PROVE  Bounded'
<1>1. \A k \in Key : unpublished[k] \in Int
  BY DEF Sound, TypeOK
<1> QED
  BY <1>1, StaysBounded DEF Sound, TypeOK, Bounded

\* A hint is published, heard or not.
LEMMA PublishSound ==
  ASSUME Sound, NEW k \in Key, Publish(k), UNCHANGED distributed
  PROVE  Sound'
<1>1. /\ unpublished[k] > 0 /\ unpublished' = [unpublished EXCEPT ![k] = @ - 1]
      /\ serverBuf' = serverBuf \/ (distributed /\ Len(serverBuf) < BufferSize /\ serverBuf' = Append(serverBuf, k))
      /\ localBuf' = localBuf \/ (Len(localBuf) < BufferSize /\ localBuf' = Append(localBuf, k))
      /\ UNCHANGED excused \/ Excuse({ClassOf(k)})
      /\ UNCHANGED <<cpVer, stream, live, count, job, dpVer, listeners, fetched, faults>>
  BY DEF Publish, dpState
<1>2. /\ unpublished \in [Key -> 0..MaxChanges] /\ serverBuf \in Seq(Key) /\ localBuf \in Seq(Key)
      /\ Len(serverBuf) <= BufferSize /\ Len(localBuf) <= BufferSize
      /\ MaxChanges \in Nat /\ BufferSize \in Nat
  BY FeedAssumption DEF Sound, TypeOK
<1>3. unpublished[k] - 1 \in 0..MaxChanges /\ unpublished[k] \in Int
  BY <1>1, <1>2
<1>4. /\ unpublished' \in [Key -> 0..MaxChanges]
      /\ \A l \in Key : unpublished'[l] <= unpublished[l]
  BY <1>1, <1>2, <1>3
<1>5. serverBuf' \in Seq(Key) /\ Len(serverBuf') <= BufferSize
  <2>1. CASE serverBuf' = serverBuf
    BY <1>2, <2>1
  <2>2. CASE Len(serverBuf) < BufferSize /\ serverBuf' = Append(serverBuf, k)
    <3>1. Append(serverBuf, k) \in Seq(Key) /\ Len(Append(serverBuf, k)) = Len(serverBuf) + 1 /\ Len(serverBuf) \in Nat
      BY <1>2, Appended, LenProperties
    <3> QED
      BY <1>2, <2>2, <3>1
  <2> QED
    BY <1>1, <2>1, <2>2
<1>6. localBuf' \in Seq(Key) /\ Len(localBuf') <= BufferSize
  <2>1. CASE localBuf' = localBuf
    BY <1>2, <2>1
  <2>2. CASE Len(localBuf) < BufferSize /\ localBuf' = Append(localBuf, k)
    <3>1. Append(localBuf, k) \in Seq(Key) /\ Len(Append(localBuf, k)) = Len(localBuf) + 1 /\ Len(localBuf) \in Nat
      BY <1>2, Appended, LenProperties
    <3> QED
      BY <1>2, <2>2, <3>1
  <2> QED
    BY <1>1, <2>1, <2>2
<1>7. excused' \in [Class -> 0..MaxChanges] /\ \A c \in Class : excused'[c] <= cpVer[c]
  BY <1>1, Excused DEF Sound, TypeOK, Bounded
<1>8. Bounded'
  BY <1>1, <1>4, <1>7, StaysBounded DEF Sound, Bounded
<1>9. Counted' /\ (~distributed => serverBuf = <<>>)'
  BY <1>1 DEF Sound, Counted
<1>10. TypeOK'
  BY <1>1, <1>4, <1>5, <1>6, <1>7 DEF Sound, TypeOK
<1> QED
  BY <1>1, <1>8, <1>9, <1>10 DEF Sound

\* A Watch session starts, or the periodic Resync.
LEMMA ResyncSound ==
  ASSUME Sound, WatchOpen \/ PeriodicResync, UNCHANGED distributed
  PROVE  Sound'
<1>1. /\ job' = [job EXCEPT !["resync"] = ResyncJob] /\ stream' \in {stream, "pending"}
      /\ job["resync"].step = "idle"
      /\ UNCHANGED <<cpVer, unpublished, serverBuf, live, localBuf, count, dpVer,
                     listeners, fetched, excused, faults>>
  BY DEF WatchOpen, PeriodicResync, Busy, feed
<1>2. job' \in [Goroutine -> Job] /\ (\A h \in Goroutine : JobOK(h, job'[h])) /\ Counted'
  BY <1>1, JobStep, Jobs, KeyClasses
<1>3. (\A g \in Goroutine : /\ job[g].step \in {"idle", "flush", "fetch", "apply", "reconcile"}
                            /\ job[g].read \in 0..MaxChanges)'
  BY <1>2, JobTyped DEF Job
<1>4. TypeOK'
  BY <1>1, <1>3 DEF Sound, TypeOK
<1> QED
  BY <1>1, <1>2, <1>4, SameBounds DEF Sound

\* The stream's other steps on the way up and down.
LEMMA StreamSound ==
  ASSUME Sound, ServerSubscribe \/ WatchLive \/ WatchEnd, UNCHANGED distributed
  PROVE  Sound'
<1>1. /\ stream' \in {stream, "subscribed", "none"} /\ live' \in BOOLEAN
      /\ UNCHANGED <<cpVer, unpublished, serverBuf, localBuf, count, job, dpVer, listeners,
                     fetched, excused, faults>>
  BY DEF ServerSubscribe, WatchLive, WatchEnd, dpState, Sound, TypeOK
<1>2. TypeOK' /\ Counted'
  BY <1>1 DEF Sound, TypeOK, Counted
<1> QED
  BY <1>1, <1>2, SameBounds DEF Sound

\* A hint arrives on the local bus, or is dropped there.
LEMMA RecvSound ==
  ASSUME Sound, WatchRecv, UNCHANGED distributed
  PROVE  Sound'
<1>1. /\ serverBuf # <<>> /\ serverBuf' = Tail(serverBuf)
      /\ \/ Len(localBuf) < BufferSize /\ localBuf' = Append(localBuf, Head(serverBuf)) /\ UNCHANGED excused
         \/ Excuse({ClassOf(Head(serverBuf))}) /\ UNCHANGED localBuf
      /\ UNCHANGED <<cpVer, unpublished, stream, live, count, job, dpVer, listeners, fetched, faults>>
  BY DEF WatchRecv, dpState
<1>2. /\ serverBuf \in Seq(Key) /\ localBuf \in Seq(Key) /\ BufferSize \in Nat
      /\ Len(serverBuf) <= BufferSize /\ Len(localBuf) <= BufferSize
  BY FeedAssumption DEF Sound, TypeOK
<1>3. Head(serverBuf) \in Key /\ Tail(serverBuf) \in Seq(Key) /\ Len(Tail(serverBuf)) = Len(serverBuf) - 1
  BY <1>1, <1>2, Received
<1>4. serverBuf' \in Seq(Key) /\ Len(serverBuf') <= BufferSize
  BY <1>1, <1>2, <1>3, LenProperties
<1>5. localBuf' \in Seq(Key) /\ Len(localBuf') <= BufferSize
  BY <1>1, <1>2, <1>3, Appended, LenProperties, SMTT(30)
<1>6. excused' \in [Class -> 0..MaxChanges] /\ \A c \in Class : excused'[c] <= cpVer[c]
  BY <1>1, Excused DEF Sound, TypeOK, Bounded
<1>7. \A k \in Key : unpublished'[k] <= unpublished[k]
  <2>1. \A k \in Key : unpublished[k] \in Int
    BY DEF Sound, TypeOK
  <2> QED
    BY <1>1, <2>1
<1>8. Bounded'
  BY <1>1, <1>6, <1>7, StaysBounded DEF Sound, TypeOK, Bounded
<1>9. Counted' /\ (~distributed => serverBuf = <<>>)'
  BY <1>1 DEF Sound, Counted
<1>10. TypeOK'
  BY <1>1, <1>4, <1>5, <1>6 DEF Sound, TypeOK
<1> QED
  BY <1>1, <1>8, <1>9, <1>10 DEF Sound

\* The stream breaks.
LEMMA BreakSound ==
  ASSUME Sound, StreamBreak, UNCHANGED distributed
  PROVE  Sound'
<1>1. /\ stream' = "broken" /\ serverBuf' = <<>> /\ Excuse(Class)
      /\ unpublished' \in {unpublished, [k \in Key |-> 0]}
      /\ faults < MaxFaults /\ faults' = faults + 1
      /\ UNCHANGED <<cpVer, live, localBuf, count, job, dpVer, listeners, fetched>>
  BY DEF StreamBreak, dpState
<1>2. unpublished \in [Key -> 0..MaxChanges] /\ MaxChanges \in Nat
  BY FeedAssumption DEF Sound, TypeOK
<1>3. /\ unpublished' \in [Key -> 0..MaxChanges]
      /\ \A k \in Key : unpublished'[k] <= unpublished[k]
  BY <1>1, <1>2
<1>4. excused' \in [Class -> 0..MaxChanges] /\ \A c \in Class : excused'[c] <= cpVer[c]
  BY <1>1, Excused
<1>5. Bounded'
  BY <1>1, <1>3, <1>4, StaysBounded DEF Sound, Bounded
<1>6. faults' \in 0..MaxFaults /\ Len(<<>>) <= BufferSize /\ <<>> \in Seq(Key)
  BY <1>1, FeedAssumption DEF Sound, TypeOK
<1>7. Counted'
  BY <1>1 DEF Sound, Counted
<1>8. TypeOK'
  BY <1>1, <1>3, <1>4, <1>6 DEF Sound, TypeOK
<1> QED
  BY <1>1, <1>5, <1>7, <1>8 DEF Sound

\* The consumer buffers a hint.
LEMMA OfferSound ==
  ASSUME Sound, Offer, UNCHANGED distributed
  PROVE  Sound'
<1>1. PICK k : k = Head(localBuf)
  OBVIOUS
<1>2. /\ localBuf # <<>> /\ job["consumer"].step = "idle" /\ localBuf' = Tail(localBuf)
      /\ count' = [count EXCEPT ![k] = @ + 1]
      /\ job' = IF count[k] + 1 >= MaxBuffer
                THEN [job EXCEPT !["consumer"] = [NoJob EXCEPT !.step = "flush", !.todo = <<k>>]]
                ELSE job
      /\ UNCHANGED <<cpVer, unpublished, stream, serverBuf, live, dpVer, listeners, fetched,
                     excused, faults>>
  BY <1>1 DEF Offer, Busy, feed
<1>3. /\ localBuf \in Seq(Key) /\ Len(localBuf) <= BufferSize /\ BufferSize \in Nat /\ MaxBuffer \in Nat
      /\ count \in [Key -> 0..MaxBuffer]
  BY FeedAssumption DEF Sound, TypeOK
<1>4. k \in Key /\ localBuf' \in Seq(Key) /\ Len(localBuf') <= BufferSize
  <2>1. /\ Head(localBuf) \in Key /\ Tail(localBuf) \in Seq(Key)
        /\ Len(Tail(localBuf)) = Len(localBuf) - 1 /\ Len(localBuf) \in Nat
    BY <1>2, <1>3, Received, LenProperties
  <2> QED
    BY <1>1, <1>2, <1>3, <2>1
<1>5. \A l \in Key : count[l] < MaxBuffer
  BY <1>2 DEF Sound, Counted
<1>6. /\ count[k] + 1 \in 0..MaxBuffer /\ count'[k] = count[k] + 1
      /\ \A l \in Key \ {k} : count'[l] = count[l]
  BY <1>2, <1>3, <1>4, <1>5
<1>7. count' \in [Key -> 0..MaxBuffer]
  BY <1>2, <1>3, <1>6
<1>8. PICK j : j = [NoJob EXCEPT !.step = "flush", !.todo = <<k>>]
  OBVIOUS
<1>9. j \in Job /\ j.step = "flush" /\ j.todo = <<k>> /\ JobOK("consumer", j)
  <2>1. NoJob \in Job /\ <<k>> \in Seq(Key \cup Class)
    BY <1>4, Jobs
  <2>2. j \in Job /\ j.step = "flush" /\ j.todo = <<k>>
    BY <1>8, <2>1 DEF Job
  <2> QED
    BY <1>4, <2>2 DEF JobOK
<1>10. CASE count[k] + 1 >= MaxBuffer
  <2>1. /\ job'["consumer"] = j /\ \A g \in Goroutine \ {"consumer"} : job'[g] = job[g]
    BY <1>2, <1>8, <1>10, KeyClasses DEF Sound
  <2>2. job' \in [Goroutine -> Job]
    BY <1>2, <1>8, <1>9, <1>10 DEF Sound
  <2>3. \A g \in Goroutine : JobOK(g, job'[g])
    BY <1>9, <2>1 DEF Sound
  <2>4. Counted'
    BY <1>5, <1>6, <1>9, <2>1 DEF Counted
  <2>5. (\A g \in Goroutine : /\ job[g].step \in {"idle", "flush", "fetch", "apply", "reconcile"}
                              /\ job[g].read \in 0..MaxChanges)'
    BY <2>2 DEF Job
  <2>6. TypeOK'
    BY <1>2, <1>4, <1>7, <2>5 DEF Sound, TypeOK
  <2> QED
    BY <1>2, <2>2, <2>3, <2>4, <2>6, SameBounds DEF Sound
<1>11. CASE ~(count[k] + 1 >= MaxBuffer)
  <2>1. UNCHANGED job
    BY <1>2, <1>11
  <2>2. count[k] + 1 < MaxBuffer
    BY <1>3, <1>6, <1>11
  <2>3. Counted'
    BY <1>5, <1>6, <2>2 DEF Counted
  <2>4. TypeOK'
    BY <1>2, <1>4, <1>7, <2>1 DEF Sound, TypeOK
  <2> QED
    BY <1>2, <2>1, <2>3, <2>4, SameBounds DEF Sound
<1> QED
  BY <1>10, <1>11

\* A key is emptied and dispatched.
LEMMA TakeSound ==
  ASSUME Sound, NEW g \in Goroutine, NEW k \in Key, TakeKey(g, k), UNCHANGED distributed,
         job[g].step = "flush" => job[g].todo = <<k>>,
         UNCHANGED <<cpVer, unpublished, stream, serverBuf, live, localBuf, dpVer, listeners,
                     fetched, excused, faults>>
  PROVE  /\ Sound' /\ count' = [count EXCEPT ![k] = 0]
         /\ \A h \in Goroutine \ {g} : job'[h] = job[h]
         /\ job'[g] = IF count[k] > 0 THEN DispatchOf(k) ELSE NoJob
<1>1. PICK j \in Job : /\ j = IF count[k] > 0 THEN DispatchOf(k) ELSE NoJob
                       /\ j.step # "flush" /\ JobOK(g, j)
  BY Jobs
<1>2. /\ job' = [job EXCEPT ![g] = j] /\ count' = [count EXCEPT ![k] = 0]
  BY <1>1 DEF TakeKey
<1>3. count \in [Key -> 0..MaxBuffer] /\ MaxBuffer \in Nat \ {0}
  BY FeedAssumption DEF Sound, TypeOK
<1>4. /\ count' \in [Key -> 0..MaxBuffer] /\ count'[k] = 0
      /\ \A l \in Key \ {k} : count'[l] = count[l]
  BY <1>2, <1>3
<1>5. /\ job' \in [Goroutine -> Job] /\ job'[g] = j
      /\ \A h \in Goroutine \ {g} : job'[h] = job[h]
  BY <1>2 DEF Sound
<1>6. \A h \in Goroutine : JobOK(h, job'[h])
  BY <1>1, <1>5 DEF Sound
<1>7. Counted'
  <2> SUFFICES ASSUME NEW l \in Key
               PROVE  count'[l] < MaxBuffer \/ (job'["consumer"].step = "flush" /\ job'["consumer"].todo = <<l>>)
    BY DEF Counted
  <2>1. CASE l = k
    BY <1>3, <1>4, <2>1
  <2>2. CASE l # k /\ g = "consumer"
    <3>1. job[g].step = "flush" => job[g].todo # <<l>>
      BY <2>2, Lists
    <3> QED
      BY <1>4, <2>2, <3>1 DEF Sound, Counted
  <2>3. CASE l # k /\ g # "consumer"
    BY <1>4, <1>5, <2>3, KeyClasses DEF Sound, Counted
  <2> QED
    BY <2>1, <2>2, <2>3
<1>8. (\A h \in Goroutine : /\ job[h].step \in {"idle", "flush", "fetch", "apply", "reconcile"}
                            /\ job[h].read \in 0..MaxChanges)'
  BY <1>5 DEF Job
<1>9. TypeOK'
  BY <1>4, <1>8 DEF Sound, TypeOK
<1>10. Sound'
  BY <1>5, <1>6, <1>7, <1>9, SameBounds DEF Sound
<1> QED
  BY <1>1, <1>2, <1>5, <1>10

\* Which key a flush of the consumer or a timer takes.
LEMMA FlushTakes ==
  ASSUME Sound, UNCHANGED distributed,
         FlushNow \/ \E g \in Timers, k \in Key : TimerFires(g, k)
  PROVE  /\ UNCHANGED <<cpVer, unpublished, stream, serverBuf, live, localBuf, dpVer, listeners,
                        fetched, excused, faults>>
         /\ \E g \in Goroutine \ {"resync"}, k \in Key :
              /\ TakeKey(g, k) /\ job[g].step # "fetch"
              /\ job[g].step = "flush" => job[g].todo = <<k>>
<1>1. CASE FlushNow
  <2>1. PICK k \in Key : job["consumer"].todo = <<k>>
    BY <1>1, KeyClasses DEF FlushNow, Sound, JobOK
  <2>2. TakeKey("consumer", k)
    BY <1>1, <2>1, Lists DEF FlushNow
  <2> QED
    BY <1>1, <2>1, <2>2, KeyClasses DEF FlushNow, feed
<1>2. ASSUME NEW g \in Timers, NEW k \in Key, TimerFires(g, k)
      PROVE  /\ UNCHANGED <<cpVer, unpublished, stream, serverBuf, live, localBuf, dpVer, listeners,
                            fetched, excused, faults>>
             /\ g \in Goroutine \ {"resync"} /\ TakeKey(g, k) /\ job[g].step = "idle"
  BY <1>2, KeyClasses DEF TimerFires, Busy, feed
<1> QED
  BY <1>1, <1>2

\* A goroutine that fetches or applies has a class to do.
LEMMA ToDo ==
  ASSUME Sound, NEW g \in Goroutine, job[g].step \in {"fetch", "apply"}
  PROVE  /\ Head(job[g].todo) \in Class /\ Range(job[g].todo) \subseteq Class
         /\ g # "resync" => job[g].todo = <<Head(job[g].todo)>>
<1>1. JobOK(g, job[g])
  BY DEF Sound
<1> QED
  BY <1>1, Lists DEF JobOK, Class

\* What is left to do after a class was refreshed.
LEMMA Refreshed ==
  ASSUME NEW g \in Goroutine, NEW j \in Job, JobOK(g, j), j.step \in {"fetch", "apply"}
  PROVE  /\ AfterRefresh(j, Tail(j.todo)) \in Job
         /\ JobOK(g, AfterRefresh(j, Tail(j.todo)))
         /\ AfterRefresh(j, Tail(j.todo)).step # "flush"
         /\ g # "resync" => AfterRefresh(j, Tail(j.todo)).step # "fetch"
<1>1. PICK t : t = Tail(j.todo)
  OBVIOUS
<1>2. t = <<>> \/ (g = "resync" /\ t = <<"registry">>)
  BY <1>1, Lists DEF JobOK
<1>3. CASE t = <<>>
  <2>1. [j EXCEPT !.step = "reconcile", !.todo = t] \in Job
    <3>1. t \in Seq(Key \cup Class)
      BY <1>3
    <3> QED
      BY <3>1 DEF Job
  <2>2. [j EXCEPT !.step = "reconcile", !.todo = t].step = "reconcile"
    BY DEF Job
  <2>3. AfterRefresh(j, t) \in {[j EXCEPT !.step = "reconcile", !.todo = t], NoJob}
    BY <1>3 DEF AfterRefresh
  <2> QED
    BY <1>1, <2>1, <2>2, <2>3, Jobs DEF JobOK
<1>4. CASE g = "resync" /\ t = <<"registry">>
  <2>1. PICK n : n = [j EXCEPT !.step = "fetch", !.todo = t]
    OBVIOUS
  <2>2. n \in Job /\ n.step = "fetch" /\ n.todo = <<"registry">>
    <3>1. t \in Seq(Key \cup Class)
      BY <1>4, KeyClasses
    <3> QED
      BY <1>4, <2>1, <3>1 DEF Job
  <2>3. AfterRefresh(j, t) = n
    BY <1>4, <2>1 DEF AfterRefresh
  <2> QED
    BY <1>1, <1>4, <2>2, <2>3, KeyClasses DEF JobOK
<1> QED
  BY <1>2, <1>3, <1>4

\* A class is fetched.
LEMMA FetchSound ==
  ASSUME Sound, NEW g \in Goroutine, Fetch(g), UNCHANGED distributed
  PROVE  /\ Sound' /\ job'[g].step = "apply" /\ (\A h \in Goroutine \ {g} : job'[h] = job[h])
         /\ \A d \in Class : fetched[d] <= fetched'[d]
         /\ \A d \in Class : d = Head(job[g].todo) => fetched'[d] = cpVer[d]
<1>1. PICK c \in Class : c = Head(job[g].todo)
  BY ToDo DEF Fetch
<1>2. /\ job[g].step = "fetch" /\ job' = [job EXCEPT ![g].step = "apply", ![g].read = cpVer[c]]
      /\ fetched' = [fetched EXCEPT ![c] = cpVer[c]]
      /\ UNCHANGED <<cpVer, unpublished, stream, serverBuf, live, localBuf, count, dpVer, listeners,
                     excused, faults>>
  BY <1>1 DEF Fetch, feed
<1>3. PICK j : j = [job[g] EXCEPT !.step = "apply", !.read = cpVer[c]]
  OBVIOUS
<1>4. job[g] \in Job /\ JobOK(g, job[g]) /\ cpVer[c] \in 0..MaxChanges
  BY DEF Sound, TypeOK
<1>5. j \in Job /\ j.step = "apply" /\ j.todo = job[g].todo
  BY <1>3, <1>4 DEF Job
<1>6. JobOK(g, j)
  BY <1>2, <1>4, <1>5 DEF JobOK
<1>7. job' = [job EXCEPT ![g] = j]
  BY <1>2, <1>3 DEF Sound
<1>8. /\ job' \in [Goroutine -> Job] /\ (\A h \in Goroutine : JobOK(h, job'[h])) /\ Counted'
      /\ job'[g] = j /\ \A h \in Goroutine \ {g} : job'[h] = job[h]
  BY <1>2, <1>5, <1>6, <1>7, JobStep
<1>9. /\ fetched' \in [Class -> 0..MaxChanges] /\ fetched'[c] = cpVer[c]
      /\ \A d \in Class \ {c} : fetched'[d] = fetched[d]
  BY <1>2, <1>4 DEF Sound, TypeOK
<1>10. \A d \in Class : fetched[d] <= fetched'[d] /\ fetched'[d] <= cpVer[d]
  <2>1. \A d \in Class : /\ fetched[d] <= cpVer[d] /\ fetched[d] \in Int /\ cpVer[d] \in Int
    BY DEF Sound, TypeOK, Bounded
  <2> QED
    BY <1>9, <2>1
<1>11. Bounded'
  <2>1. \A k \in Key : unpublished'[k] <= unpublished[k]
    <3>1. \A k \in Key : unpublished[k] \in Int
      BY DEF Sound, TypeOK
    <3> QED
      BY <1>2, <3>1
  <2> QED
    BY <1>2, <1>10, <2>1, StaysBounded DEF Sound, TypeOK, Bounded
<1>12. (\A h \in Goroutine : /\ job[h].step \in {"idle", "flush", "fetch", "apply", "reconcile"}
                             /\ job[h].read \in 0..MaxChanges)'
  BY <1>8 DEF Job
<1>13. TypeOK'
  BY <1>2, <1>9, <1>12 DEF Sound, TypeOK
<1>14. Sound'
  BY <1>2, <1>8, <1>11, <1>13 DEF Sound
<1> QED
  BY <1>1, <1>5, <1>8, <1>9, <1>10, <1>14

\* What was fetched is applied, or the listeners are reconciled.
LEMMA ApplySound ==
  ASSUME Sound, NEW g \in Goroutine, Apply(g) \/ Reconcile(g), UNCHANGED distributed
  PROVE  /\ Sound' /\ job[g].step # "fetch" /\ (\A h \in Goroutine \ {g} : job'[h] = job[h])
         /\ UNCHANGED <<cpVer, unpublished, serverBuf, localBuf, count, fetched, excused>>
<1>1. job[g] \in Job /\ JobOK(g, job[g]) /\ job[g].read \in 0..MaxChanges
  BY DEF Sound, TypeOK
<1>2. PICK j \in Job : /\ job' = [job EXCEPT ![g] = j] /\ JobOK(g, j) /\ j.step # "flush"
                       /\ job[g].step \in {"apply", "reconcile"}
  <2>1. CASE Apply(g)
    <3>1. /\ job[g].step = "apply"
          /\ job' = [job EXCEPT ![g] = AfterRefresh(job[g], Tail(job[g].todo))]
      BY <2>1 DEF Apply
    <3> QED
      BY <1>1, <3>1, Refreshed
  <2>2. CASE Reconcile(g)
    BY <2>2, Jobs DEF Reconcile
  <2> QED
    BY <2>1, <2>2
<1>3. /\ job' \in [Goroutine -> Job] /\ (\A h \in Goroutine : JobOK(h, job'[h]))
      /\ job'[g] = j /\ \A h \in Goroutine \ {g} : job'[h] = job[h]
  BY <1>2 DEF Sound
<1>4. UNCHANGED <<cpVer, unpublished, stream, serverBuf, live, localBuf, count, fetched, excused, faults>>
  BY DEF Apply, Reconcile, feed
<1>5. dpVer' \in [Class -> 0..MaxChanges] /\ listeners' \in 0..MaxChanges
  <2>1. dpVer \in [Class -> 0..MaxChanges] /\ listeners \in 0..MaxChanges
    BY DEF Sound, TypeOK
  <2>2. CASE Apply(g)
    <3>1. dpVer' = [dpVer EXCEPT ![Head(job[g].todo)] = job[g].read] /\ UNCHANGED listeners
      BY <2>2 DEF Apply
    <3> QED
      BY <1>1, <2>1, <3>1
  <2>3. CASE Reconcile(g)
    BY <2>1, <2>3, KeyClasses DEF Reconcile
  <2> QED
    BY <2>2, <2>3
<1>6. Counted'
  BY <1>2, <1>3, <1>4, JobStep
<1>7. (\A h \in Goroutine : /\ job[h].step \in {"idle", "flush", "fetch", "apply", "reconcile"}
                            /\ job[h].read \in 0..MaxChanges)'
  BY <1>3 DEF Job
<1>8. TypeOK'
  BY <1>4, <1>5, <1>7 DEF Sound, TypeOK
<1>9. Sound'
  BY <1>3, <1>4, <1>6, <1>8, SameBounds DEF Sound
<1> QED
  BY <1>2, <1>3, <1>4, <1>9

\* A fetch fails.
LEMMA FailSound ==
  ASSUME Sound, NEW g \in Goroutine, FetchFails(g), UNCHANGED distributed
  PROVE  /\ Sound' /\ job[g].step = "fetch" /\ \A h \in Goroutine \ {g} : job'[h] = job[h]
<1>1. job[g] \in Job /\ JobOK(g, job[g]) /\ job[g].step = "fetch"
  BY DEF Sound, FetchFails
<1>2. PICK j \in Job : job' = [job EXCEPT ![g] = j] /\ JobOK(g, j) /\ j.step # "flush"
  <2>1. CASE g = "resync"
    BY <2>1, Jobs DEF FetchFails
  <2>2. CASE g # "resync"
    <3>1. job' = [job EXCEPT ![g] = AfterRefresh(job[g], Tail(job[g].todo))]
      BY <2>2 DEF FetchFails
    <3> QED
      BY <1>1, <3>1, Refreshed
  <2> QED
    BY <2>1, <2>2
<1>3. PICK C : Excuse(C)
  BY DEF FetchFails
<1>4. /\ stream' \in {stream, "none"} /\ serverBuf' \in {serverBuf, <<>>}
      /\ faults < MaxFaults /\ faults' = faults + 1
      /\ UNCHANGED <<cpVer, unpublished, live, localBuf, count, dpVer, listeners, fetched>>
  BY DEF FetchFails
<1>5. /\ job' \in [Goroutine -> Job] /\ (\A h \in Goroutine : JobOK(h, job'[h])) /\ Counted'
      /\ \A h \in Goroutine \ {g} : job'[h] = job[h]
  BY <1>1, <1>2, <1>4, JobStep
<1>6. excused' \in [Class -> 0..MaxChanges] /\ \A c \in Class : excused'[c] <= cpVer[c]
  BY <1>3, Excused
<1>7. Bounded'
  <2>1. \A k \in Key : unpublished'[k] <= unpublished[k]
    <3>1. \A k \in Key : unpublished[k] \in Int
      BY DEF Sound, TypeOK
    <3> QED
      BY <1>4, <3>1
  <2> QED
    BY <1>4, <1>6, <2>1, StaysBounded DEF Sound, TypeOK, Bounded
<1>8. (\A h \in Goroutine : /\ job[h].step \in {"idle", "flush", "fetch", "apply", "reconcile"}
                            /\ job[h].read \in 0..MaxChanges)'
  BY <1>5 DEF Job
<1>9. faults' \in 0..MaxFaults /\ Len(<<>>) <= BufferSize /\ <<>> \in Seq(Key)
  BY <1>4, FeedAssumption DEF Sound, TypeOK
<1>10. serverBuf' \in Seq(Key) /\ Len(serverBuf') <= BufferSize
  BY <1>4, <1>9 DEF Sound, TypeOK
<1>11. TypeOK'
  BY <1>4, <1>6, <1>8, <1>9, <1>10 DEF Sound, TypeOK
<1> QED
  BY <1>1, <1>4, <1>5, <1>7, <1>11 DEF Sound

-----------------------------------------------------------------------------
\* What keeps a change announced while nothing new is stored.
LEMMA StaysUnfetched ==
  ASSUME Sound, Kept, NEW c \in Class, UNCHANGED cpVer,
         fetched'[c] \in Int, excused'[c] \in Int,
         fetched[c] <= fetched'[c], excused[c] <= excused'[c], Unfetched(c)'
  PROVE  Announced(c)
<1>1. fetched[c] \in Int /\ excused[c] \in Int /\ cpVer[c] \in Int
  BY DEF Sound, TypeOK
<1>2. cpVer[c] > fetched'[c] /\ cpVer[c] > excused'[c]
  BY DEF Unfetched
<1>3. Unfetched(c)
  BY <1>1, <1>2 DEF Unfetched
<1> QED
  BY <1>3 DEF Kept

\* A change that was excused or fetched is not missing.
LEMMA NotUnfetched ==
  ASSUME Sound, NEW c \in Class, UNCHANGED cpVer,
         fetched'[c] = cpVer[c] \/ excused'[c] = cpVer[c]
  PROVE  ~Unfetched(c)'
<1>1. cpVer[c] \in Int
  BY DEF Sound, TypeOK
<1> QED
  BY <1>1 DEF Unfetched

\* A change that is stored is announced by the hint to be published.
LEMMA PersistKept ==
  ASSUME Sound, Kept, NEW k \in Key, Persist(k)
  PROVE  Kept'
<1>1. PICK c \in Class : c = ClassOf(k)
  BY KeyClasses
<1>2. /\ cpVer' = [cpVer EXCEPT ![c] = @ + 1] /\ unpublished' = [unpublished EXCEPT ![k] = @ + 1]
      /\ UNCHANGED <<serverBuf, localBuf, count, job, fetched, excused>>
  BY <1>1 DEF Persist, feed, dpState
<1>3. \A l \in Key : unpublished[l] > 0 => unpublished'[l] > 0
  BY <1>2 DEF Sound, TypeOK
<1>4. unpublished'[k] > 0
  BY <1>2 DEF Sound, TypeOK
<1>5. ASSUME NEW d \in Class, Unfetched(d)' PROVE Announced(d)'
  <2>1. CASE d = c
    BY <1>1, <1>4, <2>1 DEF Announced, ClassOf
  <2>2. CASE d # c
    <3>1. cpVer'[d] = cpVer[d]
      BY <1>2, <2>2 DEF Sound, TypeOK
    <3>2. Announced(d)
      BY <1>2, <1>5, <3>1 DEF Kept, Unfetched
    <3> QED
      BY <1>2, <1>3, <3>2 DEF Announced, ClassOf
  <2> QED
    BY <2>1, <2>2
<1> QED
  BY <1>5 DEF Kept

\* A hint that is published is in a channel, or its loss is excused.
LEMMA PublishKept ==
  ASSUME Sound, Kept, NEW k \in Key, Publish(k)
  PROVE  Kept'
<1> DEFINE heard == Len(IF distributed THEN serverBuf ELSE localBuf) < BufferSize
                      /\ (distributed => stream = "subscribed")
<1>1. /\ unpublished' = [unpublished EXCEPT ![k] = @ - 1]
      /\ serverBuf' = IF distributed /\ heard THEN Append(serverBuf, k) ELSE serverBuf
      /\ localBuf' = IF ~distributed /\ heard THEN Append(localBuf, k) ELSE localBuf
      /\ IF heard THEN UNCHANGED excused ELSE Excuse({ClassOf(k)})
      /\ UNCHANGED <<cpVer, count, job, fetched>>
  BY DEF Publish, dpState
<1>2. /\ Range(serverBuf) \subseteq Range(serverBuf') /\ Range(localBuf) \subseteq Range(localBuf')
      /\ heard => k \in Range(serverBuf') \cup Range(localBuf')
  <2>1. serverBuf \in Seq(Key) /\ localBuf \in Seq(Key)
    BY DEF Sound, TypeOK
  <2>2. /\ Range(Append(serverBuf, k)) = Range(serverBuf) \cup {k}
        /\ Range(Append(localBuf, k)) = Range(localBuf) \cup {k}
    BY <2>1, Appended
  <2> HIDE DEF heard
  <2> QED
    BY <1>1, <2>2
<1>3. \A l \in Key : l # k => unpublished'[l] = unpublished[l]
  BY <1>1 DEF Sound, TypeOK
<1> HIDE DEF heard
<1>4. ASSUME NEW c \in Class, Unfetched(c)' PROVE Announced(c)'
  <2>1. /\ fetched[c] \in Int /\ excused[c] \in Int /\ fetched'[c] = fetched[c]
        /\ excused'[c] \in Int /\ excused[c] <= excused'[c]
    <3>1. fetched[c] \in Int /\ excused[c] \in Int
      BY DEF Sound, TypeOK
    <3> QED
      BY <1>1, <3>1, Excused
  <2>2. Announced(c)
    BY <1>1, <1>4, <2>1, StaysUnfetched
  <2>3. CASE ClassOf(k) = c /\ heard
    BY <1>2, <2>3 DEF Announced, ClassOf
  <2>4. CASE ClassOf(k) = c /\ ~heard
    <3>1. excused'[c] = cpVer[c]
      BY <1>1, <2>4, Excused
    <3> QED
      BY <1>1, <1>4, <3>1, NotUnfetched
  <2>5. CASE ClassOf(k) # c
    BY <1>1, <1>2, <1>3, <2>2, <2>5 DEF Announced, ClassOf
  <2> QED
    BY <2>3, <2>4, <2>5
<1> QED
  BY <1>4 DEF Kept

\* A hint that is received moves to the local bus, or its loss is excused.
LEMMA RecvKept ==
  ASSUME Sound, Kept, WatchRecv
  PROVE  Kept'
<1>1. PICK k : k = Head(serverBuf)
  OBVIOUS
<1>2. /\ serverBuf # <<>> /\ serverBuf' = Tail(serverBuf)
      /\ \/ localBuf' = Append(localBuf, k) /\ UNCHANGED excused
         \/ Excuse({ClassOf(k)}) /\ UNCHANGED localBuf
      /\ UNCHANGED <<cpVer, unpublished, count, job, fetched>>
  BY <1>1 DEF WatchRecv, dpState
<1>3. serverBuf \in Seq(Key) /\ localBuf \in Seq(Key)
  BY DEF Sound, TypeOK
<1>4. k \in Key /\ Range(serverBuf) = {k} \cup Range(serverBuf')
  BY <1>1, <1>2, <1>3, Received
<1>5. Range(Append(localBuf, k)) = Range(localBuf) \cup {k}
  BY <1>3, <1>4, Appended
<1>6. ASSUME NEW c \in Class, Unfetched(c)' PROVE Announced(c)'
  <2>1. /\ fetched'[c] \in Int /\ fetched[c] <= fetched'[c]
        /\ excused'[c] \in Int /\ excused[c] <= excused'[c]
    <3>1. fetched[c] \in Int /\ excused[c] \in Int
      BY DEF Sound, TypeOK
    <3> QED
      BY <1>2, <3>1, Excused
  <2>2. Announced(c)
    BY <1>2, <1>6, <2>1, StaysUnfetched
  <2>3. CASE localBuf' = Append(localBuf, k)
    BY <1>2, <1>4, <1>5, <2>2, <2>3 DEF Announced, ClassOf
  <2>4. CASE Excuse({ClassOf(k)}) /\ UNCHANGED localBuf
    <3>1. ClassOf(k) # c
      BY <1>2, <1>6, <2>4, Excused, NotUnfetched
    <3> QED
      BY <1>2, <1>4, <2>2, <2>4, <3>1 DEF Announced, ClassOf
  <2> QED
    BY <1>2, <2>3, <2>4
<1> QED
  BY <1>6 DEF Kept

\* Steps that fetch nothing, lose nothing and leave every hint where it is.
LEMMA SameHints ==
  ASSUME Sound, Kept, UNCHANGED <<cpVer, fetched, excused>>,
         \A c \in Class : Announced(c) => Announced(c)'
  PROVE  Kept'
<1>1. \A c \in Class : fetched[c] \in Int /\ excused[c] \in Int
  BY DEF Sound, TypeOK
<1>2. ASSUME NEW c \in Class, Unfetched(c)' PROVE Announced(c)'
  BY <1>1, <1>2, StaysUnfetched
<1> QED
  BY <1>2 DEF Kept

\* The stream's steps and the start of a Resync.
LEMMA StreamKept ==
  ASSUME Sound, Kept, WatchOpen \/ PeriodicResync \/ ServerSubscribe \/ WatchLive \/ WatchEnd
  PROVE  Kept'
<1>1. /\ \A g \in Goroutine \ {"resync"} : job'[g] = job[g]
      /\ UNCHANGED <<cpVer, unpublished, serverBuf, localBuf, count, fetched, excused>>
  BY DEF WatchOpen, PeriodicResync, ServerSubscribe, WatchLive, WatchEnd, feed, dpState, Sound
<1>2. \A c \in Class : Announced(c) => Announced(c)'
  BY <1>1 DEF Announced, ClassOf
<1> QED
  BY <1>1, <1>2, SameHints

\* A broken stream excuses everything.
LEMMA BreakKept ==
  ASSUME Sound, StreamBreak
  PROVE  Kept'
<1>1. UNCHANGED cpVer /\ \A c \in Class : excused'[c] = cpVer[c]
  BY Excused DEF StreamBreak
<1> QED
  BY <1>1, NotUnfetched DEF Kept

\* A hint that the consumer takes is in its buffer.
LEMMA OfferKept ==
  ASSUME Sound, Kept, Offer
  PROVE  Kept'
<1>1. PICK k : k = Head(localBuf)
  OBVIOUS
<1>2. /\ localBuf # <<>> /\ job["consumer"].step = "idle" /\ localBuf' = Tail(localBuf)
      /\ count' = [count EXCEPT ![k] = @ + 1]
      /\ (\A g \in Goroutine \ {"consumer"} : job'[g] = job[g])
      /\ UNCHANGED <<cpVer, unpublished, serverBuf, fetched, excused>>
  BY <1>1, KeyClasses DEF Offer, Busy, feed, Sound
<1>3. localBuf \in Seq(Key) /\ count \in [Key -> 0..MaxBuffer]
  BY DEF Sound, TypeOK
<1>4. k \in Key /\ Range(localBuf) = {k} \cup Range(localBuf')
  BY <1>1, <1>2, <1>3, Received
<1>5. count'[k] > 0 /\ \A l \in Key : count[l] > 0 => count'[l] > 0
  BY <1>2, <1>3, <1>4
<1>6. ASSUME NEW c \in Class, Announced(c) PROVE Announced(c)'
  <2>1. CASE ClassOf(k) = c
    BY <1>4, <1>5, <2>1 DEF Announced, ClassOf
  <2>2. CASE ClassOf(k) # c
    <3>1. \A g \in Goroutine \ {"resync"} : job[g].step = "fetch" => job'[g] = job[g]
      BY <1>2
    <3> QED
      BY <1>2, <1>4, <1>5, <1>6, <2>2, <3>1 DEF Announced, ClassOf
  <2> QED
    BY <2>1, <2>2
<1> QED
  BY <1>2, <1>6, SameHints

\* A key that is taken is dispatched.
LEMMA TakeKept ==
  ASSUME Sound, Kept, UNCHANGED distributed,
         FlushNow \/ \E g \in Timers, k \in Key : TimerFires(g, k)
  PROVE  Sound' /\ Kept'
<1>1. UNCHANGED <<cpVer, unpublished, stream, serverBuf, live, localBuf, dpVer, listeners,
                  fetched, excused, faults>>
  BY FlushTakes
<1>2. PICK g \in Goroutine \ {"resync"}, k \in Key :
        /\ TakeKey(g, k) /\ job[g].step # "fetch"
        /\ job[g].step = "flush" => job[g].todo = <<k>>
  BY FlushTakes
<1>3. /\ Sound' /\ count' = [count EXCEPT ![k] = 0]
      /\ (\A h \in Goroutine \ {g} : job'[h] = job[h])
      /\ job'[g] = IF count[k] > 0 THEN DispatchOf(k) ELSE NoJob
  BY <1>1, <1>2, TakeSound
<1>4. \A l \in Key \ {k} : count'[l] = count[l]
  BY <1>3 DEF Sound, TypeOK
<1>5. \A h \in Goroutine \ {"resync"} : job[h].step = "fetch" => job'[h] = job[h]
  BY <1>2, <1>3
<1>6. ASSUME NEW c \in Class, Announced(c) PROVE Announced(c)'
  <2>1. CASE ClassOf(k) = c /\ count[k] > 0
    <3>1. job'[g].step = "fetch" /\ job'[g].todo = <<c>>
      BY <1>3, <2>1, Jobs
    <3> QED
      BY <3>1 DEF Announced
  <2>2. CASE ~(ClassOf(k) = c /\ count[k] > 0)
    BY <1>1, <1>4, <1>5, <1>6, <2>2 DEF Announced, ClassOf
  <2> QED
    BY <2>1, <2>2
<1>7. Kept'
  BY <1>1, <1>6, SameHints
<1> QED
  BY <1>3, <1>7

\* A fetch serves the class that its dispatch was for.
LEMMA FetchKept ==
  ASSUME Sound, Kept, UNCHANGED distributed, NEW g \in Goroutine, Fetch(g)
  PROVE  Sound' /\ Kept'
<1>1. /\ Sound' /\ job'[g].step = "apply" /\ (\A h \in Goroutine \ {g} : job'[h] = job[h])
      /\ \A d \in Class : fetched[d] <= fetched'[d]
  BY FetchSound
<1>2. \A d \in Class : d = Head(job[g].todo) => fetched'[d] = cpVer[d]
  BY FetchSound
<1>3. UNCHANGED <<cpVer, unpublished, serverBuf, localBuf, count, excused>> /\ job[g].step = "fetch"
  BY DEF Fetch, feed
<1>4. ASSUME NEW c \in Class, Unfetched(c)' PROVE Announced(c)'
  <2>1. fetched'[c] \in Int /\ excused[c] \in Int /\ excused'[c] \in Int
    BY <1>1, <1>3 DEF Sound, TypeOK
  <2>2. Announced(c)
    BY <1>1, <1>3, <1>4, <2>1, StaysUnfetched
  <2>3. c # Head(job[g].todo)
    BY <1>2, <1>3, <1>4, NotUnfetched
  <2>4. \A h \in Goroutine \ {"resync"} : job[h].step = "fetch" /\ job[h].todo = <<c>> => job'[h] = job[h]
    BY <1>1, <2>3, Lists
  <2> QED
    BY <1>3, <2>2, <2>4 DEF Announced, ClassOf
<1> QED
  BY <1>1, <1>4 DEF Kept

\* Applying and reconciling concern no hint.
LEMMA ApplyKept ==
  ASSUME Sound, Kept, UNCHANGED distributed, NEW g \in Goroutine, Apply(g) \/ Reconcile(g)
  PROVE  Sound' /\ Kept'
<1>1. /\ Sound' /\ job[g].step # "fetch" /\ (\A h \in Goroutine \ {g} : job'[h] = job[h])
      /\ UNCHANGED <<cpVer, unpublished, serverBuf, localBuf, count, fetched, excused>>
  BY ApplySound
<1>2. \A h \in Goroutine \ {"resync"} : job[h].step = "fetch" => job'[h] = job[h]
  BY <1>1
<1>3. \A c \in Class : Announced(c) => Announced(c)'
  BY <1>1, <1>2 DEF Announced, ClassOf
<1> QED
  BY <1>1, <1>3, SameHints

\* A failed fetch excuses what it was for.
LEMMA FailKept ==
  ASSUME Sound, Kept, UNCHANGED distributed, NEW g \in Goroutine, FetchFails(g)
  PROVE  Sound' /\ Kept'
<1>1. /\ Sound' /\ job[g].step = "fetch" /\ \A h \in Goroutine \ {g} : job'[h] = job[h]
  BY FailSound
<1>2. /\ Excuse(IF g = "resync" /\ distributed THEN Class ELSE Range(job[g].todo))
      /\ UNCHANGED <<cpVer, unpublished, localBuf, count, fetched>>
      /\ g # "resync" => UNCHANGED serverBuf
      /\ g = "resync" => serverBuf' = <<>>
  BY DEF FetchFails
<1>3. ASSUME NEW c \in Class, Unfetched(c)' PROVE Announced(c)'
  <2>1. /\ fetched'[c] \in Int /\ fetched[c] <= fetched'[c]
        /\ excused'[c] \in Int /\ excused[c] <= excused'[c]
    <3>1. fetched[c] \in Int /\ excused[c] \in Int
      BY DEF Sound, TypeOK
    <3> QED
      BY <1>2, <3>1, Excused
  <2>2. Announced(c)
    BY <1>2, <1>3, <2>1, StaysUnfetched
  <2>3. CASE g = "resync" /\ distributed
    BY <1>2, <1>3, <2>3, Excused, NotUnfetched
  <2>4. CASE g = "resync" /\ ~distributed
    <3>1. UNCHANGED serverBuf
      BY <1>2, <2>4 DEF Sound
    <3>2. \A h \in Goroutine \ {"resync"} : job'[h] = job[h]
      BY <1>1, <2>4
    <3> QED
      BY <1>2, <2>2, <3>1, <3>2 DEF Announced, ClassOf
  <2>5. CASE g # "resync"
    <3>1. job[g].todo # <<c>>
      <4> SUFFICES ASSUME job[g].todo = <<c>> PROVE FALSE
        OBVIOUS
      <4>1. excused'[c] = cpVer[c]
        BY <1>2, <2>5, Lists, Excused
      <4> QED
        BY <1>2, <1>3, <4>1, NotUnfetched
    <3>2. \A h \in Goroutine \ {"resync"} : job[h].todo = <<c>> => job'[h] = job[h]
      BY <1>1, <3>1
    <3> QED
      BY <1>2, <2>2, <2>5, <3>2 DEF Announced, ClassOf
  <2> QED
    BY <2>3, <2>4, <2>5
<1> QED
  BY <1>1, <1>3 DEF Kept

-----------------------------------------------------------------------------
FeedInv == Sound /\ Kept

\* Before the first change.
LEMMA FeedInit == Init => FeedInv
<1> SUFFICES ASSUME Init PROVE FeedInv
  OBVIOUS
<1>1. 0 \in 0..MaxChanges /\ 0 \in 0..MaxBuffer /\ 0 \in 0..MaxFaults /\ 0 < MaxBuffer /\ 0 <= BufferSize
      /\ MaxChanges \in Nat
  BY FeedAssumption
<1>2. /\ job \in [Goroutine -> Job] /\ \A g \in Goroutine : JobOK(g, job[g])
  BY Jobs DEF Init
<1>3. <<>> \in Seq(Key) /\ Len(<<>>) = 0
  OBVIOUS
<1>4. TypeOK
  BY <1>1, <1>2, <1>3, JobTyped DEF Init, TypeOK
<1>5. Counted
  BY <1>1 DEF Init, Counted
<1>6. Bounded
  BY <1>1, KeyClasses DEF Init, Bounded
<1>7. Kept
  BY DEF Init, Kept, Unfetched
<1> QED
  BY <1>2, <1>4, <1>5, <1>6, <1>7 DEF FeedInv, Sound, Init

\* Every step keeps the invariant.
LEMMA FeedNext == FeedInv /\ [Next]_<<distributed, vars>> => FeedInv'
<1> SUFFICES ASSUME FeedInv, [Next]_<<distributed, vars>> PROVE FeedInv'
  OBVIOUS
<1>1. Sound /\ Kept
  BY DEF FeedInv
<1>2. CASE UNCHANGED <<distributed, vars>>
  BY <1>1, <1>2 DEF vars, FeedInv, Sound, TypeOK, Counted, Bounded, ClassOf, Kept, Unfetched, Announced
<1>3. CASE Step /\ UNCHANGED distributed
  <2>1. ASSUME NEW k \in Key, Persist(k) \/ Publish(k) PROVE FeedInv'
    BY <1>1, <1>3, <2>1, PersistSound, PublishSound, PersistKept, PublishKept DEF FeedInv
  <2>2. CASE Deliver
    BY <1>1, <1>3, <2>2, ResyncSound, StreamSound, RecvSound, OfferSound, StreamKept, RecvKept,
       OfferKept, TakeKept DEF Deliver, FeedInv
  <2>3. CASE \E g \in Timers, k \in Key : TimerFires(g, k)
    BY <1>1, <1>3, <2>3, TakeKept DEF FeedInv
  <2>4. CASE PeriodicResync \/ StreamBreak
    BY <1>1, <1>3, <2>4, ResyncSound, StreamKept, BreakSound, BreakKept DEF FeedInv
  <2>5. ASSUME NEW g \in Goroutine, Dispatch(g) \/ FetchFails(g) PROVE FeedInv'
    BY <1>1, <1>3, <2>5, FetchKept, ApplyKept, FailKept DEF Dispatch, FeedInv
  <2> QED
    BY <1>3, <2>1, <2>2, <2>3, <2>4, <2>5 DEF Step
<1> QED
  BY <1>2, <1>3 DEF Next

\* The invariant holds always.
LEMMA FeedInvAlways == Spec => []FeedInv
BY FeedInit, FeedNext, PTL DEF Spec

\* events/bus.go, consumer.go: every queue respects its limit, the subscriptions
\* their capacity and a coalescing key MaxBuffer.
THEOREM FeedTypeOK == Spec => []TypeOK
<1>1. FeedInv => TypeOK
  BY DEF FeedInv, Sound
<1> QED
  BY <1>1, FeedInvAlways, PTL

\* consumer.go:89-206: a hint the consumer accepted is never lost on its way
\* through coalescing, early flushes, timers and shared keys.
THEOREM NoHintIsLost == Spec => []HintNeverLost
<1>1. FeedInv => HintNeverLost
  <2> SUFFICES ASSUME FeedInv, NEW c \in Class, cpVer[c] > fetched[c], cpVer[c] > excused[c]
               PROVE  Carrier(c)
    BY DEF HintNeverLost
  <2>1. Announced(c)
    BY DEF FeedInv, Kept, Unfetched
  <2>2. c \in Range(<<c>>)
    BY Lists
  <2> QED
    BY <2>1, <2>2 DEF Announced, Carrier
<1> QED
  BY <1>1, FeedInvAlways, PTL

-----------------------------------------------------------------------------
(***************************************************************************)
(* Paging: the pass over the keys.                                         *)
(***************************************************************************)

\* Induction, for a set of naturals.
LEMMA NatClosed ==
  ASSUME NEW A, 0 \in A, \A n \in Nat : n \in A => n + 1 \in A
  PROVE  Nat \subseteq A
<1> SUFFICES ASSUME NEW n \in Nat, n \notin A PROVE FALSE
  OBVIOUS
<1> DEFINE B == A \cap (0..n)
<1> DEFINE f == [x \in B |-> x + 1]
<1>1. IsFiniteSet(B) /\ Cardinality(B) \in Nat
  <2>1. IsFiniteSet(0..n) /\ B \in SUBSET (0..n)
    BY FS_Interval
  <2> QED
    BY <2>1, FS_Subset, FS_CardinalityType
<1>2. 0 \in B
  OBVIOUS
<1>3. IsFiniteSet(B \ {0}) /\ Cardinality(B \ {0}) = Cardinality(B) - 1
  BY <1>1, <1>2, FS_RemoveElement
<1>4. f \in Injection(B, B \ {0})
  BY DEF Injection, IsInjective
<1>5. Cardinality(B) <= Cardinality(B \ {0})
  <2> HIDE DEF B, f
  <2> QED
    BY <1>3, <1>4, FS_Injection
<1> QED
  BY <1>1, <1>3, <1>5

\* The keys are 1 to the number of names.
LEMMA KeysAre ==
  /\ Len(Names) \in Nat /\ Keys = 1..Len(Names) /\ IsFiniteSet(Keys)
  /\ {0} \cup Keys = 0..Len(Names)
<1>1. Len(Names) \in Nat /\ Keys = 1..Len(Names)
  BY PagingAssumption DEF Keys
<1>2. IsFiniteSet(1..Len(Names))
  BY <1>1, FS_Interval
<1> QED
  BY <1>1, <1>2

\* The pages after each key, by the page after the key before.
PassEquation(r, q, size, cursor, g) ==
  g = [k \in {0} \cup Keys |->
         IF k = 0 THEN EmptyPage ELSE Turn(r, q, size, cursor, g[k - 1], k)]

\* The recursive function that Pass chooses exists,
LEMMA PassExists ==
  ASSUME NEW r, NEW q, NEW size, NEW cursor
  PROVE  \E g : PassEquation(r, q, size, cursor, g)
<1> DEFINE Val(g, k) == IF k = 0 THEN EmptyPage ELSE Turn(r, q, size, cursor, g[k - 1], k)
<1> DEFINE D == {0} \cup Keys
<1> DEFINE OK(g, m) == \A k \in D : k <= m => g[k] = Val(g, k)
<1> DEFINE A == {m \in Nat : \E g : OK(g, m)}
<1>1. Len(Names) \in Nat /\ D = 0..Len(Names)
  BY KeysAre
<1> HIDE DEF D
<1>2. 0 \in A
  <2> DEFINE g == [k \in D |-> EmptyPage]
  <2>1. OK(g, 0)
    BY <1>1
  <2> HIDE DEF g, OK
  <2> QED
    BY <2>1
<1>3. ASSUME NEW m \in Nat, m \in A PROVE m + 1 \in A
  <2>1. PICK g : OK(g, m)
    BY <1>3
  <2> DEFINE h == [k \in D |-> Val(g, k)]
  <2>2. ASSUME NEW k \in D, k <= m + 1 PROVE h[k] = Val(h, k)
    <3>1. CASE k = 0
      BY <3>1
    <3>2. CASE k # 0
      <4>1. k - 1 \in D /\ k - 1 <= m
        BY <1>1, <2>2, <3>2
      <4>2. g[k - 1] = Val(g, k - 1)
        BY <2>1, <4>1
      <4>3. h[k - 1] = Val(g, k - 1) /\ h[k] = Val(g, k)
        BY <4>1
      <4> HIDE DEF h
      <4>4. h[k - 1] = g[k - 1]
        BY <4>2, <4>3
      <4> QED
        BY <4>3, <4>4
    <3> QED
      BY <3>1, <3>2
  <2>3. OK(h, m + 1)
    BY <2>2
  <2> HIDE DEF h, OK
  <2> QED
    BY <2>3
<1>4. Len(Names) \in A
  <2> HIDE DEF A
  <2> QED
    BY <1>1, <1>2, <1>3, NatClosed
<1>5. PICK g : OK(g, Len(Names))
  BY <1>4
<1> DEFINE h == [k \in D |-> g[k]]
<1>6. ASSUME NEW k \in D PROVE h[k] = Val(h, k)
  <2>1. g[k] = Val(g, k)
    BY <1>1, <1>5
  <2>2. k # 0 => k - 1 \in D
    BY <1>1
  <2> QED
    BY <2>1, <2>2
<1>7. h = [k \in D |-> Val(h, k)]
  <2>1. DOMAIN h = D /\ h = [k \in D |-> h[k]]
    OBVIOUS
  <2> HIDE DEF h, Val
  <2> QED
    BY <1>6, <2>1
<1> HIDE DEF h
<1>8. PassEquation(r, q, size, cursor, h)
  BY <1>7 DEF D, PassEquation
<1> QED
  BY <1>8

\* so Pass obeys its equation.
LEMMA PassIs ==
  ASSUME NEW r, NEW q, NEW size, NEW cursor
  PROVE  /\ Pass(r, q, size, cursor)[0] = EmptyPage
         /\ \A k \in Keys : Pass(r, q, size, cursor)[k] =
                              Turn(r, q, size, cursor, Pass(r, q, size, cursor)[k - 1], k)
<1>1. Pass(r, q, size, cursor) = CHOOSE g : PassEquation(r, q, size, cursor, g)
  BY DEF Pass, PassEquation
<1>2. PassEquation(r, q, size, cursor, Pass(r, q, size, cursor))
  BY <1>1, PassExists
<1> HIDE DEF Pass
<1>3. \A k \in Keys : k # 0
  BY KeysAre
<1> QED
  BY <1>2, <1>3 DEF PassEquation

Increasing(s) == \A i, j \in DOMAIN s : i < j => s[i] < s[j]

\* A page under way: it has everything ahead of the cursor, or it is full and its
\* next key is the first that is left over.
PageSoFar(ahead, size, items, next) ==
  /\ items \in Seq(Keys) /\ Increasing(items) /\ Cardinality(Range(items)) = Len(items)
  /\ next = 0 => Range(items) = ahead /\ (size # 0 => Len(items) <= size \/ (size < 0 /\ Len(items) = 0))
  /\ next # 0 => /\ next \in ahead /\ Range(items) = {i \in ahead : i < next}
                 /\ size # 0 /\ Len(items) = IF size < 0 THEN 0 ELSE size

\* A sequence and one element more.
LEMMA AppendRange ==
  ASSUME NEW S, NEW s \in Seq(S), NEW e \in S
  PROVE  /\ Append(s, e) \in Seq(S) /\ Len(Append(s, e)) = Len(s) + 1 /\ Len(s) \in Nat
         /\ Range(Append(s, e)) = Range(s) \cup {e}
         /\ DOMAIN s = 1..Len(s) /\ DOMAIN Append(s, e) = 1..(Len(s) + 1)
         /\ \A i \in 1..Len(s) : Append(s, e)[i] = s[i]
         /\ Append(s, e)[Len(s) + 1] = e
<1>1. /\ Append(s, e) \in Seq(S) /\ Len(Append(s, e)) = Len(s) + 1 /\ Len(s) \in Nat
      /\ DOMAIN s = 1..Len(s) /\ DOMAIN Append(s, e) = 1..(Len(s) + 1)
      /\ \A i \in 1..Len(s) : Append(s, e)[i] = s[i]
      /\ Append(s, e)[Len(s) + 1] = e
  OBVIOUS
<1> DEFINE t == Append(s, e)
           n == Len(s)
<1>2. /\ n \in Nat /\ DOMAIN s = 1..n /\ DOMAIN t = 1..(n + 1) /\ t[n + 1] = e
      /\ \A i \in 1..n : t[i] = s[i]
  BY <1>1
<1> HIDE DEF t, n
<1>3. Range(t) = Range(s) \cup {e}
  <2>1. ASSUME NEW x \in Range(t) PROVE x \in Range(s) \cup {e}
    <3>1. PICK i \in 1..(n + 1) : x = t[i]
      BY <1>2 DEF Range
    <3>2. i \in 1..n \/ i = n + 1
      BY <1>2
    <3> QED
      BY <1>2, <3>1, <3>2 DEF Range
  <2>2. ASSUME NEW x \in Range(s) PROVE x \in Range(t)
    <3>1. PICK i \in 1..n : x = s[i]
      BY <1>2 DEF Range
    <3>2. i \in 1..(n + 1)
      BY <1>2
    <3> QED
      BY <1>2, <3>1, <3>2 DEF Range
  <2>3. e \in Range(t)
    <3>1. n + 1 \in 1..(n + 1)
      BY <1>2
    <3> QED
      BY <1>2, <3>1 DEF Range
  <2> QED
    BY <2>1, <2>2, <2>3
<1> QED
  BY <1>1, <1>3 DEF t

\* The page after one key more that is ahead of the cursor.
LEMMA OneKeyMore ==
  ASSUME NEW ahead \in SUBSET Keys, NEW key \in Keys, \A i \in ahead : i < key,
         NEW size \in Int, NEW items, NEW next, PageSoFar(ahead, size, items, next)
  PROVE  /\ next # 0 => PageSoFar(ahead \cup {key}, size, items, next)
         /\ next = 0 /\ size # 0 /\ Len(items) >= size => PageSoFar(ahead \cup {key}, size, items, key)
         /\ next = 0 /\ ~(size # 0 /\ Len(items) >= size)
              => PageSoFar(ahead \cup {key}, size, Append(items, key), 0)
<1>1. /\ Len(Names) \in Nat /\ Keys = 1..Len(Names) /\ IsFiniteSet(Keys) /\ key \in Nat /\ key # 0
      /\ \A i \in Keys : i \in Nat /\ i # 0
  BY KeysAre
<1>2. items \in Seq(Keys) /\ Increasing(items) /\ Cardinality(Range(items)) = Len(items) /\ Len(items) \in Nat
  BY DEF PageSoFar
<1>3. ASSUME next # 0 PROVE PageSoFar(ahead \cup {key}, size, items, next)
  <2>1. next \in ahead /\ Range(items) = {i \in ahead : i < next} /\ next < key
    BY <1>3 DEF PageSoFar
  <2>2. {i \in ahead \cup {key} : i < next} = {i \in ahead : i < next}
    BY <1>1, <2>1
  <2> QED
    BY <1>3, <2>1, <2>2 DEF PageSoFar
<1>4. ASSUME next = 0, size # 0, Len(items) >= size PROVE PageSoFar(ahead \cup {key}, size, items, key)
  <2>1. Range(items) = ahead /\ (Len(items) <= size \/ (size < 0 /\ Len(items) = 0))
    BY <1>4 DEF PageSoFar
  <2>2. {i \in ahead \cup {key} : i < key} = ahead
    <3>1. ~(key < key)
      BY <1>1
    <3> QED
      BY <3>1, Zenon
  <2>3. Len(items) = IF size < 0 THEN 0 ELSE size
    BY <1>2, <1>4, <2>1
  <2> QED
    BY <1>1, <1>2, <1>4, <2>1, <2>2, <2>3 DEF PageSoFar
<1>5. ASSUME next = 0, ~(size # 0 /\ Len(items) >= size)
      PROVE  PageSoFar(ahead \cup {key}, size, Append(items, key), 0)
  <2> DEFINE t == Append(items, key)
             n == Len(items)
  <2>1. /\ t \in Seq(Keys) /\ Len(t) = n + 1 /\ Range(t) = Range(items) \cup {key}
        /\ DOMAIN items = 1..n /\ DOMAIN t = 1..(n + 1) /\ n \in Nat
        /\ t[n + 1] = key /\ \A i \in 1..n : t[i] = items[i]
    BY <1>2, AppendRange
  <2>2. Range(items) = ahead
    BY <1>5 DEF PageSoFar
  <2>3. Cardinality(Range(t)) = n + 1
    <3>1. IsFiniteSet(ahead) /\ key \notin ahead
      <4>1. ~(key < key)
        BY <1>1
      <4>2. IsFiniteSet(ahead)
        BY <1>1, FS_Subset
      <4> QED
        BY <4>1, <4>2
    <3>2. Cardinality(ahead \cup {key}) = Cardinality(ahead) + 1
      BY <3>1, FS_AddElement
    <3> QED
      BY <1>2, <2>1, <2>2, <3>2
  <2> HIDE DEF t
  <2>4. Increasing(t)
    <3> SUFFICES ASSUME NEW i \in 1..(n + 1), NEW j \in 1..(n + 1), i < j PROVE t[i] < t[j]
      BY <2>1 DEF Increasing
    <3>1. i \in 1..n /\ t[i] = items[i] /\ items[i] \in ahead
      <4>1. i \in 1..n
        BY <2>1
      <4> QED
        BY <2>1, <2>2, <4>1 DEF Range
    <3>2. CASE j = n + 1
      BY <2>1, <3>1, <3>2
    <3>3. CASE j # n + 1
      <4>1. j \in 1..n
        BY <2>1, <3>3
      <4> QED
        BY <1>2, <2>1, <3>1, <4>1 DEF Increasing
    <3> QED
      BY <3>2, <3>3
  <2>5. size # 0 => n + 1 <= size
    BY <1>5, <2>1
  <2> QED
    BY <2>1, <2>2, <2>3, <2>4, <2>5 DEF PageSoFar, t
<1> QED
  BY <1>3, <1>4, <1>5

\* A query that asks for nothing matches every object.
LEMMA UnfilteredMatches ==
  ASSUME NEW r, r.kind \in ListKinds, NEW q, Unfiltered(q)
  PROVE  Matching(r, q) = Present(r)
<1>1. \A f : f # "labels" => ~Given(q, f)
  BY DEF Unfiltered, Given
<1>2. "labels" \in DOMAIN q => q.labels = {}
  BY DEF Unfiltered
<1>3. \A texts : Search(q, texts)
  BY <1>1 DEF Search
<1>4. \A f, v : f # "labels" => Wanted(q, f, v)
  BY <1>1 DEF Wanted
<1>5. \A labels : WithLabels(q, labels)
  BY <1>2 DEF WithLabels, MatchesLabels
<1>6. /\ ~Given(q, "proxy_id") /\ ~Given(q, "target") /\ ~Given(q, "has_catch_all") /\ ~Given(q, "mode")
      /\ ~Given(q, "host")
  BY <1>1
<1>7. \A v : /\ Wanted(q, "protocol", v) /\ Wanted(q, "type", v) /\ Wanted(q, "pool_id", v)
             /\ Wanted(q, "router_id", v) /\ Wanted(q, "balancer_id", v)
             /\ Wanted(q, "flow_id", v) /\ Wanted(q, "role", v)
  BY <1>4
<1>8. ASSUME NEW id, NEW o PROVE Predicate(r.kind, q, id, o)
  <2>1. /\ BuildProxyPredicate(q, id, o) /\ BuildPoolPredicate(q, id, o) /\ BuildBalancerPredicate(q, id, o)
    BY <1>3, <1>5, <1>6, <1>7 DEF BuildProxyPredicate, BuildPoolPredicate, BuildBalancerPredicate
  <2>2. /\ BuildRouterPredicate(q, id, o) /\ BuildFlowPredicate(q, id, o) /\ BuildEntrypointPredicate(q, id, o)
    BY <1>3, <1>6, <1>7 DEF BuildRouterPredicate, BuildFlowPredicate, BuildEntrypointPredicate
  <2>3. BuildUserPredicate(q, id, o) /\ BuildAgentPredicate(q, id, o)
    BY <1>3, <1>5, <1>7 DEF BuildUserPredicate, BuildAgentPredicate
  <2> QED
    BY <2>1, <2>2, <2>3 DEF Predicate, ListKinds
<1> QED
  BY <1>8 DEF Matching

\* The matching keys that a page may show, of those a pass has seen.
Ahead(r, q, cursor, n) == {i \in Matching(r, q) : cursor <= i /\ i <= n}

\* A page is a record of three parts.
IsPage(page) == page = [items |-> page.items, next |-> page.next, total |-> page.total]

\* A page with another next key, or an item more.
LEMMA PageChange ==
  ASSUME NEW page, IsPage(page), NEW key
  PROVE  /\ [page EXCEPT !.next = key] = [items |-> page.items, next |-> key, total |-> page.total]
         /\ [page EXCEPT !.items = Append(@, key)]
              = [items |-> Append(page.items, key), next |-> page.next, total |-> page.total]
BY DEF IsPage

\* The page before a key and the page after it.
KeyTurns(r, q, size, cursor, key, page, after) ==
  /\ r.kind \in ListKinds /\ size \in Int /\ cursor \in Keys \cup {0} /\ key \in Keys
  /\ IsPage(page) /\ page.total \in Nat
  /\ PageSoFar(Ahead(r, q, cursor, key - 1), size, page.items, page.next)
  /\ after = Turn(r, q, size, cursor, page, key)

\* What one turn of either loop does to the page.
LEMMA TurnKeeps ==
  ASSUME NEW r, NEW q, NEW size, NEW cursor, NEW key, NEW page, NEW after,
         KeyTurns(r, q, size, cursor, key, page, after)
  PROVE  /\ IsPage(after) /\ after.total \in Nat
         /\ PageSoFar(Ahead(r, q, cursor, key), size, after.items, after.next)
         /\ after.total = IF ~Unfiltered(q) /\ key \in Matching(r, q) THEN page.total + 1 ELSE page.total
<1> USE DEF KeyTurns
<1> DEFINE before == Ahead(r, q, cursor, key - 1)
           full == size # 0 /\ Len(page.items) >= size
<1>1. /\ Len(Names) \in Nat /\ Keys = 1..Len(Names) /\ key \in Nat /\ key # 0
      /\ \A i \in Keys : i \in Nat /\ i # 0
      /\ cursor \in Nat
  BY KeysAre
<1>2. before \in SUBSET Keys /\ \A i \in before : i < key
  BY <1>1 DEF Ahead, Matching, Present
<1>3. IF key \in Matching(r, q) /\ cursor <= key THEN Ahead(r, q, cursor, key) = before \cup {key}
                                                 ELSE Ahead(r, q, cursor, key) = before
  <2>1. \A i \in Matching(r, q) : i \in Keys /\ (i <= key <=> i <= key - 1 \/ i = key)
    BY <1>1 DEF Matching, Present
  <2> QED
    BY <1>1, <2>1 DEF Ahead
<1>4. page.items \in Seq(Keys)
  BY DEF PageSoFar
<1>5. /\ page.next # 0 => PageSoFar(before \cup {key}, size, page.items, page.next)
      /\ page.next = 0 /\ full => PageSoFar(before \cup {key}, size, page.items, key)
      /\ page.next = 0 /\ ~full => PageSoFar(before \cup {key}, size, Append(page.items, key), 0)
  BY <1>2, OneKeyMore
<1> HIDE DEF before
<1>6. CASE Unfiltered(q)
  <2>1. Matching(r, q) = Present(r)
    BY <1>6, UnfilteredMatches
  <2>2. CASE key \in Present(r) /\ key >= cursor
    <3>1. after = IF page.next # 0 THEN page
                  ELSE IF full THEN [page EXCEPT !.next = key]
                  ELSE [page EXCEPT !.items = Append(@, key)]
      BY <1>6, <2>2 DEF Turn, UnfilteredStep
    <3>2. Ahead(r, q, cursor, key) = before \cup {key}
      BY <1>1, <1>3, <2>1, <2>2
    <3> HIDE DEF full
    <3>3. /\ IsPage(after) /\ after.total = page.total
          /\ after.next = IF page.next # 0 THEN page.next ELSE IF full THEN key ELSE page.next
          /\ after.items = IF page.next # 0 \/ full THEN page.items ELSE Append(page.items, key)
      BY <3>1 DEF IsPage
    <3>4. PageSoFar(before \cup {key}, size, after.items, after.next)
      BY <1>5, <3>3
    <3> QED
      BY <1>6, <3>2, <3>3, <3>4
  <2>3. CASE ~(key \in Present(r) /\ key >= cursor)
    <3>1. after = page
      BY <1>6, <2>3 DEF Turn
    <3>2. Ahead(r, q, cursor, key) = before
      BY <1>1, <1>3, <2>1, <2>3
    <3> QED
      BY <1>6, <3>1, <3>2 DEF before
  <2> QED
    BY <2>2, <2>3
<1>7. CASE ~Unfiltered(q)
  <2>1. CASE key \in Matching(r, q)
    <3> DEFINE skip == (cursor # 0 /\ key < cursor) \/ page.next # 0
               c == [page EXCEPT !.total = @ + 1]
    <3>1. after = IF skip THEN c
                  ELSE IF full THEN [c EXCEPT !.next = key]
                  ELSE [c EXCEPT !.items = Append(@, key)]
      <4>1. after = FilteredStep(size, cursor, page, key)
        BY <1>7, <2>1 DEF Turn
      <4>2. c.items = page.items /\ c.next = page.next
        BY DEF IsPage
      <4> QED
        BY <4>1, <4>2 DEF FilteredStep
    <3>2. c = [items |-> page.items, next |-> page.next, total |-> page.total + 1]
      BY DEF IsPage
    <3> HIDE DEF full, c, skip
    <3>3. /\ IsPage(after) /\ after.total = page.total + 1
          /\ after.next = IF skip THEN page.next ELSE IF full THEN key ELSE page.next
          /\ after.items = IF skip \/ full THEN page.items ELSE Append(page.items, key)
      <4>1. /\ [c EXCEPT !.next = key] = [items |-> page.items, next |-> key, total |-> page.total + 1]
            /\ [c EXCEPT !.items = Append(@, key)]
                 = [items |-> Append(page.items, key), next |-> page.next, total |-> page.total + 1]
        <5>1. c.items = page.items /\ c.next = page.next /\ c.total = page.total + 1
          BY <3>2
        <5>2. IsPage(c)
          BY <3>2 DEF IsPage
        <5>3. /\ [c EXCEPT !.next = key] = [items |-> c.items, next |-> key, total |-> c.total]
              /\ [c EXCEPT !.items = Append(@, key)]
                   = [items |-> Append(c.items, key), next |-> c.next, total |-> c.total]
          BY <5>2, PageChange
        <5> QED
          BY <5>1, <5>3
      <4>2. CASE skip
        BY <3>1, <3>2, <4>2 DEF IsPage
      <4>3. CASE ~skip /\ full
        BY <3>1, <4>1, <4>3 DEF IsPage
      <4>4. CASE ~skip /\ ~full
        BY <3>1, <4>1, <4>4 DEF IsPage
      <4> QED
        BY <4>2, <4>3, <4>4
    <3>4. CASE key < cursor
      <4>1. Ahead(r, q, cursor, key) = before /\ skip
        BY <1>1, <1>3, <3>4 DEF skip
      <4> QED
        BY <1>7, <2>1, <3>3, <4>1 DEF before
    <3>5. CASE ~(key < cursor)
      <4>1. Ahead(r, q, cursor, key) = before \cup {key}
        BY <1>1, <1>3, <2>1, <3>5
      <4>2. PageSoFar(before \cup {key}, size, after.items, after.next)
        BY <1>5, <3>3, <3>5 DEF skip
      <4> QED
        BY <1>7, <2>1, <3>3, <4>1, <4>2
    <3> QED
      BY <3>4, <3>5
  <2>2. CASE key \notin Matching(r, q)
    <3>1. after = page
      BY <1>7, <2>2 DEF Turn
    <3>2. Ahead(r, q, cursor, key) = before
      BY <1>3, <2>2
    <3> QED
      BY <1>7, <2>2, <3>1, <3>2 DEF before
  <2> QED
    BY <2>1, <2>2
<1> QED
  BY <1>6, <1>7

-----------------------------------------------------------------------------
(***************************************************************************)
(* Paging: a page so far.                                                  *)
(***************************************************************************)

\* The keys up to the next one.
LEMMA UpTo ==
  ASSUME NEW M \in SUBSET Keys, NEW k \in Keys
  PROVE  /\ {i \in M : i <= k} = IF k \in M THEN {i \in M : i <= k - 1} \cup {k} ELSE {i \in M : i <= k - 1}
         /\ IsFiniteSet({i \in M : i <= k - 1}) /\ k \notin {i \in M : i <= k - 1}
<1>1. \A i \in M : (i <= k <=> i <= k - 1 \/ i = k) /\ i \in Keys
  BY KeysAre
<1>2. ~(k <= k - 1)
  BY KeysAre
<1>3. IsFiniteSet({i \in M : i <= k - 1})
  BY KeysAre, FS_Subset
<1> QED
  BY <1>1, <1>2, <1>3

\* The page after each key of a pass.
PassOK(r, q, size, cursor, n) ==
  LET page == Pass(r, q, size, cursor)[n] IN
  /\ IsPage(page) /\ page.total \in Nat
  /\ PageSoFar(Ahead(r, q, cursor, n), size, page.items, page.next)
  /\ page.total = IF Unfiltered(q) THEN 0 ELSE Cardinality({i \in Matching(r, q) : i <= n})

\* So after any number of keys the page is exact so far.
LEMMA PassSoFar ==
  ASSUME NEW r, r.kind \in ListKinds, NEW q, NEW size \in Int, NEW cursor \in Keys \cup {0},
         NEW k \in 0..Len(Names)
  PROVE  PassOK(r, q, size, cursor, k)
<1> DEFINE g == Pass(r, q, size, cursor)
           M == Matching(r, q)
           A == {n \in Nat : n \in 0..Len(Names) => PassOK(r, q, size, cursor, n)}
<1>1. /\ Len(Names) \in Nat /\ Keys = 1..Len(Names) /\ M \in SUBSET Keys
      /\ g[0] = EmptyPage /\ \A n \in Keys : g[n] = Turn(r, q, size, cursor, g[n - 1], n)
  BY KeysAre, PassIs DEF Matching, Present
<1>2. 0 \in A
  <2>1. Ahead(r, q, cursor, 0) = {} /\ {i \in M : i <= 0} = {}
    <3>1. \A i \in M : ~(i <= 0)
      BY <1>1
    <3> QED
      BY <3>1 DEF Ahead
  <2>2. PageSoFar({}, size, <<>>, 0)
    <3>1. Range(<<>>) = {} /\ Len(<<>>) = 0 /\ <<>> \in Seq(Keys)
      BY DEF Range
    <3>2. Cardinality({}) = 0
      BY FS_EmptySet
    <3>3. Increasing(<<>>)
      BY DEF Increasing
    <3>4. size # 0 => 0 <= size \/ (size < 0 /\ 0 = 0)
      OBVIOUS
    <3> QED
      BY <3>1, <3>2, <3>3, <3>4 DEF PageSoFar
  <2>3. IsPage(g[0]) /\ g[0].total = 0 /\ g[0].items = <<>> /\ g[0].next = 0
    BY <1>1 DEF EmptyPage, IsPage
  <2>4. Cardinality({i \in M : i <= 0}) = 0
    BY <2>1, FS_EmptySet
  <2> DEFINE page == g[0]
  <2>5. /\ IsPage(page) /\ page.total \in Nat
        /\ PageSoFar(Ahead(r, q, cursor, 0), size, page.items, page.next)
        /\ page.total = IF Unfiltered(q) THEN 0 ELSE Cardinality({i \in M : i <= 0})
    <3> HIDE DEF page, M
    <3>1. IsPage(page) /\ page.total = 0 /\ page.items = <<>> /\ page.next = 0
      BY <2>3 DEF page
    <3>2. PageSoFar(Ahead(r, q, cursor, 0), size, page.items, page.next)
      BY <2>1, <2>2, <3>1, Zenon
    <3> QED
      BY <2>4, <3>1, <3>2
  <2> QED
    BY <2>5, Zenon DEF PassOK
<1>3. ASSUME NEW n \in Nat, n \in A PROVE n + 1 \in A
  <2> SUFFICES ASSUME n + 1 \in 0..Len(Names) PROVE PassOK(r, q, size, cursor, n + 1)
    OBVIOUS
  <2>1. PICK key \in Keys : key = n + 1 /\ key - 1 = n /\ n \in 0..Len(Names)
    BY <1>1
  <2> DEFINE page == g[n]
             after == g[key]
             seen == {i \in M : i <= n}
  <2>2. /\ IsPage(page) /\ page.total \in Nat
        /\ PageSoFar(Ahead(r, q, cursor, n), size, page.items, page.next)
        /\ page.total = IF Unfiltered(q) THEN 0 ELSE Cardinality(seen)
    BY <1>3, <2>1 DEF PassOK
  <2>3. after = Turn(r, q, size, cursor, page, key)
    BY <1>1, <2>1
  <2>4. /\ {i \in M : i <= key} = IF key \in M THEN seen \cup {key} ELSE seen
        /\ IsFiniteSet(seen) /\ key \notin seen
    <3>1. /\ {i \in M : i <= key} = IF key \in M THEN {i \in M : i <= key - 1} \cup {key} ELSE {i \in M : i <= key - 1}
          /\ IsFiniteSet({i \in M : i <= key - 1}) /\ key \notin {i \in M : i <= key - 1}
      BY <1>1, UpTo
    <3>2. {i \in M : i <= key - 1} = seen
      BY <2>1
    <3> QED
      BY <3>1, <3>2, Zenon
  <2>5. PageSoFar(Ahead(r, q, cursor, key - 1), size, page.items, page.next)
    BY <2>1, <2>2
  <2> HIDE DEF page, after, seen
  <2>6. /\ IsPage(after) /\ after.total \in Nat
        /\ PageSoFar(Ahead(r, q, cursor, key), size, after.items, after.next)
        /\ after.total = IF ~Unfiltered(q) /\ key \in Matching(r, q) THEN page.total + 1 ELSE page.total
    <3>1. KeyTurns(r, q, size, cursor, key, page, after)
      BY <2>2, <2>3, <2>5 DEF KeyTurns
    <3> QED
      BY <3>1, TurnKeeps
  <2>7. after.total = IF Unfiltered(q) THEN 0 ELSE Cardinality({i \in M : i <= key})
    <3>1. CASE Unfiltered(q)
      BY <2>2, <2>6, <3>1
    <3>2. CASE ~Unfiltered(q)
      <4>1. key \in M => Cardinality(seen \cup {key}) = Cardinality(seen) + 1
        BY <2>4, FS_AddElement
      <4>2. page.total = Cardinality(seen)
        BY <2>2, <3>2
      <4>3. CASE key \in M
        BY <2>4, <2>6, <3>2, <4>1, <4>2, <4>3
      <4>4. CASE key \notin M
        BY <2>4, <2>6, <3>2, <4>2, <4>4
      <4> QED
        BY <4>3, <4>4
    <3> QED
      BY <3>1, <3>2
  <2>8. PassOK(r, q, size, cursor, key)
    BY <2>6, <2>7, Zenon DEF PassOK, after
  <2> QED
    BY <2>1, <2>8
<1>4. k \in A
  <2> HIDE DEF A
  <2>1. k \in Nat
    BY <1>1
  <2> QED
    BY <1>2, <1>3, <2>1, NatClosed
<1> QED
  BY <1>4

\* A page is what matches from the cursor on, as far as the page size goes.
PageOf(page, size, matches, ahead, rest) ==
  /\ page.items \in Seq(Keys) /\ Increasing(page.items)
  /\ ahead \in SUBSET Keys /\ Range(page.items) \subseteq ahead
  /\ page.total = Cardinality(matches)
  /\ \A i \in Range(page.items), j \in rest : i < j
  /\ Len(page.items) = IF size = 0 THEN Cardinality(ahead)
                       ELSE IF size < 0 THEN 0
                       ELSE IF size <= Cardinality(ahead) THEN size ELSE Cardinality(ahead)
  /\ page.next = 0 => rest = {}
  /\ page.next # 0 => page.next \in rest /\ \A j \in rest : page.next <= j

PageExact(r, q, size, cursor) ==
  LET page == ListWithCursor(r, q, size, cursor)
      ahead == {i \in Matching(r, q) : i >= cursor}
  IN  PageOf(page, size, Matching(r, q), ahead, ahead \ Range(page.items))

\* A page is exact.
LEMMA PageIsExact ==
  ASSUME NEW r, r.kind \in ListKinds, NEW q, NEW size \in Int, NEW cursor \in Keys \cup {0}
  PROVE  PageExact(r, q, size, cursor)
<1> SUFFICES ASSUME NEW page, page = ListWithCursor(r, q, size, cursor),
                    NEW matches, matches = Matching(r, q),
                    NEW ahead, ahead = {i \in matches : i >= cursor},
                    NEW rest, rest = ahead \ Range(page.items)
             PROVE  PageOf(page, size, matches, ahead, rest)
  BY Zenon DEF PageExact
<1> USE DEF PageOf
<1> DEFINE last == Pass(r, q, size, cursor)[Len(Names)]
<1>1. Len(Names) \in Nat /\ Keys = 1..Len(Names) /\ IsFiniteSet(Keys) /\ cursor \in Nat
  BY KeysAre
<1>2. /\ IsPage(last) /\ last.total \in Nat
      /\ PageSoFar(Ahead(r, q, cursor, Len(Names)), size, last.items, last.next)
      /\ last.total = IF Unfiltered(q) THEN 0 ELSE Cardinality({i \in Matching(r, q) : i <= Len(Names)})
  <2>1. Len(Names) \in 0..Len(Names)
    BY <1>1
  <2>2. PassOK(r, q, size, cursor, Len(Names))
    BY <2>1, PassSoFar
  <2> QED
    BY <2>2, Zenon DEF PassOK
<1>3. page = IF Unfiltered(q) THEN [last EXCEPT !.total = Cardinality(Present(r))] ELSE last
  BY DEF ListWithCursor
<1> HIDE DEF last
<1>4. matches \in SUBSET Keys /\ Ahead(r, q, cursor, Len(Names)) = ahead
      /\ {i \in Matching(r, q) : i <= Len(Names)} = matches
  <2>1. \A i \in matches : i \in Keys /\ i <= Len(Names) /\ (i >= cursor <=> cursor <= i)
    BY <1>1 DEF Matching, Present
  <2> QED
    BY <2>1 DEF Ahead
<1>5. page.items = last.items /\ page.next = last.next
  BY <1>2, <1>3 DEF IsPage
<1>6. page.total = Cardinality(matches)
  <2>1. CASE Unfiltered(q)
    <3>1. matches = Present(r)
      BY <2>1, UnfilteredMatches
    <3>2. page.total = Cardinality(Present(r))
      BY <1>2, <1>3, <2>1 DEF IsPage
    <3> QED
      BY <3>1, <3>2
  <2>2. CASE ~Unfiltered(q)
    BY <1>2, <1>3, <1>4, <2>2
  <2> QED
    BY <2>1, <2>2
<1>7. PageSoFar(ahead, size, page.items, page.next)
  BY <1>2, <1>4, <1>5
<1>8. page.items \in Seq(Keys) /\ Increasing(page.items) /\ Range(page.items) \subseteq ahead
      /\ Cardinality(Range(page.items)) = Len(page.items)
  BY <1>7 DEF PageSoFar
<1>9. ahead \in SUBSET Keys /\ IsFiniteSet(ahead) /\ Cardinality(ahead) \in Nat
      /\ Len(page.items) <= Cardinality(ahead) /\ Len(page.items) \in Nat
  <2>1. ahead \in SUBSET Keys
    BY <1>4
  <2>2. IsFiniteSet(ahead)
    BY <1>1, <2>1, FS_Subset
  <2>3. Cardinality(Range(page.items)) <= Cardinality(ahead)
    BY <1>8, <2>2, FS_Subset
  <2> QED
    BY <1>8, <2>1, <2>2, <2>3, FS_CardinalityType
<1>10. CASE page.next = 0
  <2>1. Range(page.items) = ahead /\ rest = {}
        /\ (size # 0 => Len(page.items) <= size \/ (size < 0 /\ Len(page.items) = 0))
    BY <1>7, <1>10 DEF PageSoFar
  <2> QED
    BY <1>6, <1>8, <1>9, <1>10, <2>1
<1>11. CASE page.next # 0
  <2>1. /\ page.next \in ahead /\ Range(page.items) = {i \in ahead : i < page.next}
        /\ size # 0 /\ Len(page.items) = IF size < 0 THEN 0 ELSE size
    BY <1>7, <1>11 DEF PageSoFar
  <2>2. page.next \in Nat /\ \A i \in ahead : i \in Nat
    BY <1>1, <1>9, <2>1
  <2>3. \A j \in rest : page.next <= j /\ j \in Nat
    BY <2>1, <2>2
  <2>4. \A i \in Range(page.items), j \in rest : i < j
    BY <2>1, <2>2, <2>3
  <2>5. page.next \in rest
    <3>1. ~(page.next < page.next)
      BY <2>2
    <3> QED
      BY <2>1, <3>1
  <2> QED
    BY <1>6, <1>8, <1>9, <1>11, <2>1, <2>3, <2>4, <2>5
<1> QED
  BY <1>10, <1>11

\* Every object that was there all the time is shown or still ahead; what is shown
\* is behind the cursor.
WalkOn(w, r) ==
  /\ w.size \in Int /\ w.cursor \in Keys \cup {0} /\ w.since \subseteq Matching(r, w.query)
  /\ \A j \in Range(w.seen) : j < w.cursor
  /\ \A i \in w.since : i < w.cursor => i \in Range(w.seen)

WalkDone(w) == w.size >= 0 => w.since \subseteq Range(w.seen)

IsWalk(w) ==
  w = [phase |-> w.phase, size |-> w.size, query |-> w.query, cursor |-> w.cursor, seen |-> w.seen,
       since |-> w.since]

WalkOK(w, r) ==
  /\ IsWalk(w) /\ w.phase \in {"idle", "refused", "walking", "done"}
  /\ w.seen \in Seq(Keys) /\ Increasing(w.seen)
  /\ w.phase = "walking" => WalkOn(w, r)
  /\ w.phase = "done" => WalkDone(w)

PagingInv ==
  /\ rows = [kind |-> rows.kind, at |-> rows.at] /\ rows.kind \in ListKinds
  /\ WalkOK(walk, rows)

\* A sequence after another, all of it above.
LEMMA IncreasingConcat ==
  ASSUME NEW s \in Seq(Keys), NEW t \in Seq(Keys), Increasing(s), Increasing(t),
         \A i \in Range(s), j \in Range(t) : i < j
  PROVE  /\ s \o t \in Seq(Keys) /\ Increasing(s \o t) /\ Range(s \o t) = Range(s) \cup Range(t)
<1> DEFINE u == s \o t
           m == Len(s)
           n == Len(t)
<1>1. \A i \in Keys : i \in Nat
  BY KeysAre
<1>2. /\ m \in Nat /\ n \in Nat /\ DOMAIN s = 1..m /\ DOMAIN t = 1..n /\ DOMAIN u = 1..(m + n)
      /\ u \in Seq(Keys)
      /\ \A i \in 1..(m + n) : u[i] = IF i <= m THEN s[i] ELSE t[i - m]
  OBVIOUS
<1>3. /\ \A i \in 1..m : s[i] \in Range(s) /\ s[i] \in Keys
      /\ \A i \in 1..n : t[i] \in Range(t) /\ t[i] \in Keys
  BY <1>2 DEF Range
<1> HIDE DEF u, m, n
<1>4. Increasing(u)
  <2> SUFFICES ASSUME NEW i \in 1..(m + n), NEW j \in 1..(m + n), i < j PROVE u[i] < u[j]
    BY <1>2 DEF Increasing
  <2>1. CASE j <= m
    <3>1. i \in 1..m /\ j \in 1..m
      BY <1>2, <2>1
    <3>2. u[i] = s[i] /\ u[j] = s[j]
      BY <1>2, <3>1
    <3> QED
      BY <1>2, <3>1, <3>2 DEF Increasing
  <2>2. CASE i <= m /\ ~(j <= m)
    <3>1. i \in 1..m /\ j - m \in 1..n
      BY <1>2, <2>2
    <3>2. u[i] = s[i] /\ u[j] = t[j - m]
      BY <1>2, <2>2, <3>1
    <3> QED
      BY <1>3, <3>1, <3>2
  <2>3. CASE ~(i <= m)
    <3>1. ~(j <= m)
      BY <1>2, <2>3
    <3>2. i - m \in 1..n /\ j - m \in 1..n /\ i - m < j - m
      BY <1>2, <2>3, <3>1
    <3>3. u[i] = t[i - m] /\ u[j] = t[j - m]
      BY <1>2, <2>3, <3>1
    <3> QED
      BY <1>2, <3>2, <3>3 DEF Increasing
  <2> QED
    BY <1>2, <2>1, <2>2, <2>3
<1>5. Range(u) = Range(s) \cup Range(t)
  <2>1. ASSUME NEW x \in Range(u) PROVE x \in Range(s) \cup Range(t)
    <3>1. PICK i \in 1..(m + n) : x = u[i]
      BY <1>2 DEF Range
    <3>2. CASE i <= m
      BY <1>2, <1>3, <3>1, <3>2
    <3>3. CASE ~(i <= m)
      <4>1. i - m \in 1..n
        BY <1>2, <3>3
      <4> QED
        BY <1>2, <1>3, <3>1, <3>3, <4>1
    <3> QED
      BY <3>2, <3>3
  <2>2. ASSUME NEW x \in Range(s) PROVE x \in Range(u)
    <3>1. PICK i \in 1..m : x = s[i]
      BY <1>2, <2>2 DEF Range
    <3>2. i \in 1..(m + n) /\ u[i] = x
      BY <1>2, <3>1
    <3> QED
      BY <1>2, <3>2 DEF Range
  <2>3. ASSUME NEW x \in Range(t) PROVE x \in Range(u)
    <3>1. PICK i \in 1..n : x = t[i]
      BY <1>2, <2>3 DEF Range
    <3>2. m + i \in 1..(m + n) /\ ~(m + i <= m) /\ (m + i) - m = i
      BY <1>2
    <3>3. u[m + i] = x
      BY <1>2, <3>1, <3>2
    <3> QED
      BY <1>2, <3>2, <3>3 DEF Range
  <2> QED
    BY <2>1, <2>2, <2>3
<1> QED
  BY <1>2, <1>4, <1>5 DEF u

\* The page size a repository gets.
LEMMA AskedSize ==
  ASSUME NEW channel, NEW kind, NEW raw \in PageSizes, NEW q, NEW a,
         a = Asked(channel, kind, raw, q), a # Absent
  PROVE  a.size \in Int
<1>1. DefaultListPageSize \in Int /\ MaxPageSize \in Int /\ (raw # Absent => raw \in Int)
  BY PagingAssumption
<1>2. CASE channel = "grpc"
  <2> DEFINE size == IF raw = Absent THEN 0 ELSE raw
  <2>1. a.size = Capped(size)
    BY <1>2 DEF Asked
  <2>2. size \in Int
    BY <1>1
  <2> QED
    BY <1>1, <2>1, <2>2 DEF Capped
<1>3. CASE channel # "grpc"
  <2>1. ParsePageSize(raw) # Absent /\ a.size = ParsePageSize(raw)
    BY <1>3 DEF Asked
  <2>2. CASE raw = Absent
    BY <1>1, <2>1, <2>2 DEF ParsePageSize
  <2>3. CASE raw # Absent
    <3>1. ~(raw < 1 \/ raw > MaxInt32)
      BY <2>1, <2>3, Zenon DEF ParsePageSize
    <3>2. ParsePageSize(raw) = Capped(raw)
      BY <2>3, <3>1 DEF ParsePageSize
    <3> QED
      BY <1>1, <2>1, <2>3, <3>2 DEF Capped
  <2> QED
    BY <2>2, <2>3
<1> QED
  BY <1>2, <1>3

\* Nobody lists at first.
LEMMA PagingInvInit == PagingInit => PagingInv
<1> SUFFICES ASSUME PagingInit PROVE PagingInv
  OBVIOUS
<1>1. PICK k \in ListKinds : rows \in [kind : {k}, at : [Keys -> Bodies[k] \cup {Absent}]]
  BY DEF PagingInit
<1>2. rows = [kind |-> rows.kind, at |-> rows.at] /\ rows.kind \in ListKinds
  BY <1>1
<1>3. IsWalk(walk) /\ walk.phase = "idle" /\ walk.seen = <<>>
  BY DEF PagingInit, NoWalk, IsWalk
<1>4. <<>> \in Seq(Keys) /\ Increasing(<<>>)
  BY DEF Increasing
<1> QED
  BY <1>2, <1>3, <1>4 DEF PagingInv, WalkOK

\* The first page of a walk.
LEMMA StartWalkKeeps ==
  ASSUME PagingInv, NEW c, NEW raw \in PageSizes, NEW q, StartWalk(c, raw, q)
  PROVE  PagingInv'
<1> DEFINE a == Asked(c, rows.kind, raw, q)
<1>1. rows' = rows /\ walk.phase = "idle" /\ IsWalk(walk) /\ walk.seen \in Seq(Keys) /\ Increasing(walk.seen)
  BY DEF StartWalk, PagingInv, WalkOK
<1>2. walk' = IF a = Absent THEN [walk EXCEPT !.phase = "refused"]
              ELSE [phase |-> "walking", size |-> a.size, query |-> a.query, cursor |-> 0,
                    seen |-> <<>>, since |-> Matching(rows, a.query)]
  BY DEF StartWalk
<1>3. a # Absent => a.size \in Int
  BY AskedSize
<1> HIDE DEF a
<1>4. ASSUME NEW w, w = walk' PROVE WalkOK(w, rows)
  <2>1. CASE a = Absent
    <3>1. w = [walk EXCEPT !.phase = "refused"]
      BY <1>2, <1>4, <2>1
    <3>2. IsWalk(w) /\ w.phase = "refused" /\ w.seen = walk.seen
      BY <1>1, <3>1 DEF IsWalk
    <3> QED
      BY <1>1, <3>2 DEF WalkOK
  <2>2. CASE a # Absent
    <3>1. w = [phase |-> "walking", size |-> a.size, query |-> a.query, cursor |-> 0,
               seen |-> <<>>, since |-> Matching(rows, a.query)]
      BY <1>2, <1>4, <2>2
    <3>2. /\ IsWalk(w) /\ w.phase = "walking" /\ w.size \in Int /\ w.cursor = 0 /\ w.seen = <<>>
          /\ w.since = Matching(rows, w.query)
      BY <1>3, <2>2, <3>1 DEF IsWalk
    <3>3. <<>> \in Seq(Keys) /\ Increasing(<<>>) /\ Range(<<>>) = {}
      BY DEF Increasing, Range
    <3>4. \A i \in w.since : ~(i < 0)
      BY KeysAre, <3>2 DEF Matching, Present
    <3>5. WalkOn(w, rows)
      BY <3>2, <3>3, <3>4 DEF WalkOn
    <3> QED
      BY <3>2, <3>3, <3>5 DEF WalkOK
  <2> QED
    BY <2>1, <2>2
<1> QED
  BY <1>1, <1>4 DEF PagingInv

\* A later page of it.
LEMMA NextPageKeeps ==
  ASSUME PagingInv, NextPage
  PROVE  PagingInv'
<1> DEFINE page == ListWithCursor(rows, walk.query, walk.size, walk.cursor)
           matches == Matching(rows, walk.query)
           ahead == {i \in matches : i >= walk.cursor}
           rest == ahead \ Range(page.items)
           seen == walk.seen \o page.items
<1>1. /\ rows' = rows /\ rows.kind \in ListKinds /\ IsWalk(walk) /\ walk.phase = "walking"
      /\ walk.seen \in Seq(Keys) /\ Increasing(walk.seen) /\ WalkOn(walk, rows)
  BY DEF NextPage, PagingInv, WalkOK
<1>2. /\ walk.size \in Int /\ walk.cursor \in Keys \cup {0} /\ walk.since \subseteq matches
      /\ \A j \in Range(walk.seen) : j < walk.cursor
      /\ \A i \in walk.since : i < walk.cursor => i \in Range(walk.seen)
  BY <1>1 DEF WalkOn
<1>3. walk' = [walk EXCEPT !.phase = IF page.next = 0 \/ walk.size < 0 THEN "done" ELSE @,
                           !.cursor = page.next, !.seen = seen]
  BY DEF NextPage
<1>4. /\ page.items \in Seq(Keys) /\ Increasing(page.items)
      /\ ahead \in SUBSET Keys /\ Range(page.items) \subseteq ahead
      /\ page.next = 0 => rest = {}
      /\ page.next # 0 => page.next \in rest /\ \A j \in rest : page.next <= j
      /\ \A i \in Range(page.items), j \in rest : i < j
  <2>1. PageExact(rows, walk.query, walk.size, walk.cursor)
    BY <1>1, <1>2, PageIsExact
  <2> QED
    BY <2>1 DEF PageExact, PageOf
<1>5. walk.cursor \in Nat /\ \A i \in Keys : i \in Nat
  BY <1>2, KeysAre
<1>6. \A i \in matches : i \in Keys
  BY DEF Matching, Present
<1>7. \A i \in ahead : i \in matches /\ walk.cursor <= i /\ i \in Nat
  BY <1>5, <1>6
<1>8. Range(walk.seen) \subseteq Keys
  BY <1>1 DEF Range
<1>9. \A i \in matches : ~(i < walk.cursor) => i \in ahead
  BY <1>5, <1>6
<1> HIDE DEF page, matches, ahead
<1>10. seen \in Seq(Keys) /\ Increasing(seen) /\ Range(seen) = Range(walk.seen) \cup Range(page.items)
  <2>1. \A i \in Range(walk.seen), j \in Range(page.items) : i < j
    BY <1>2, <1>4, <1>5, <1>7, <1>8
  <2> QED
    BY <1>1, <1>4, <2>1, IncreasingConcat
<1> HIDE DEF seen
<1>11. ASSUME NEW w, w = walk' PROVE WalkOK(w, rows)
  <2>1. /\ IsWalk(w) /\ w.phase = IF page.next = 0 \/ walk.size < 0 THEN "done" ELSE "walking"
        /\ w.cursor = page.next /\ w.seen = seen /\ w.size = walk.size /\ w.query = walk.query
        /\ w.since = walk.since
    BY <1>1, <1>3, <1>11 DEF IsWalk
  <2>2. CASE page.next = 0
    <3>1. walk.since \subseteq Range(seen)
      <4>1. ahead \subseteq Range(page.items)
        BY <1>4, <2>2
      <4> QED
        BY <1>2, <1>9, <1>10, <4>1
    <3> QED
      BY <1>10, <2>1, <2>2, <3>1 DEF WalkOK, WalkDone
  <2>3. CASE page.next # 0 /\ walk.size < 0
    <3>1. ~(w.size >= 0)
      BY <1>2, <2>1, <2>3
    <3> QED
      BY <1>10, <2>1, <2>3, <3>1 DEF WalkOK, WalkDone
  <2>4. CASE page.next # 0 /\ ~(walk.size < 0)
    <3>1. page.next \in rest /\ page.next \in ahead /\ page.next \in Keys
          /\ walk.cursor <= page.next /\ page.next \in Nat
      BY <1>4, <1>5, <1>7, <2>4
    <3>2. \A j \in Range(seen) : j < page.next
      BY <1>2, <1>4, <1>5, <1>8, <1>10, <3>1
    <3>3. \A i \in walk.since : i < page.next => i \in Range(seen)
      <4> SUFFICES ASSUME NEW i \in walk.since, i < page.next, i \notin Range(seen) PROVE FALSE
        OBVIOUS
      <4>1. i \in matches /\ i \in Keys /\ i \in Nat
        BY <1>2, <1>5, <1>6
      <4>2. ~(i < walk.cursor)
        BY <1>2, <1>10
      <4>3. i \in rest
        BY <1>9, <1>10, <4>1, <4>2
      <4> QED
        BY <1>4, <2>4, <3>1, <4>1, <4>3
    <3>4. walk.since \subseteq Matching(rows, walk.query)
      BY <1>2 DEF matches
    <3>5. WalkOn(w, rows)
      BY <1>2, <2>1, <3>1, <3>2, <3>3, <3>4 DEF WalkOn
    <3> QED
      BY <1>10, <2>1, <2>4, <3>5 DEF WalkOK
  <2> QED
    BY <2>2, <2>3, <2>4
<1> QED
  BY <1>1, <1>11 DEF PagingInv

\* An edit changes what a key holds, never the keys.
LEMMA EditKeeps ==
  ASSUME PagingInv, NEW i \in Keys, NEW body, Edit(i, body)
  PROVE  PagingInv'
<1>1. /\ rows = [kind |-> rows.kind, at |-> rows.at] /\ rows.kind \in ListKinds /\ IsWalk(walk)
      /\ walk.phase = "walking" /\ walk.seen \in Seq(Keys) /\ Increasing(walk.seen) /\ WalkOn(walk, rows)
  BY DEF Edit, PagingInv, WalkOK
<1>2. rows' = [rows EXCEPT !.at[i] = body]
      /\ walk' = [walk EXCEPT !.since = @ \cap Matching(rows', walk.query)]
  BY DEF Edit
<1>3. rows' = [kind |-> rows'.kind, at |-> rows'.at] /\ rows'.kind = rows.kind
  BY <1>1, <1>2
<1>4. ASSUME NEW w, w = walk', NEW r, r = rows' PROVE WalkOK(w, r)
  <2>1. w = [walk EXCEPT !.since = @ \cap Matching(r, walk.query)]
    BY <1>2, <1>4
  <2>2. /\ IsWalk(w) /\ w.phase = "walking" /\ w.size = walk.size /\ w.query = walk.query
        /\ w.cursor = walk.cursor /\ w.seen = walk.seen
        /\ w.since = walk.since \cap Matching(r, walk.query)
    BY <1>1, <2>1 DEF IsWalk
  <2>3. WalkOn(w, r)
    BY <1>1, <2>2 DEF WalkOn
  <2> QED
    BY <1>1, <2>2, <2>3 DEF WalkOK
<1> QED
  BY <1>1, <1>3, <1>4 DEF PagingInv

\* PagingInv is inductive.
LEMMA PagingInvStep == PagingInv /\ [PagingNext]_pagingVars => PagingInv'
<1> SUFFICES ASSUME PagingInv, [PagingNext]_pagingVars PROVE PagingInv'
  OBVIOUS
<1>1. ASSUME NEW c \in {"grpc", "dashboard"}, NEW raw \in PageSizes, NEW q \in Queries[rows.kind],
             StartWalk(c, raw, q)
      PROVE  PagingInv'
  BY <1>1, StartWalkKeeps
<1>2. CASE NextPage
  BY <1>2, NextPageKeeps
<1>3. ASSUME NEW i \in Keys, NEW b \in Bodies[rows.kind] \cup {Absent}, Edit(i, b) PROVE PagingInv'
  BY <1>3, EditKeeps
<1>4. CASE UNCHANGED pagingVars
  BY <1>4 DEF PagingInv, pagingVars
<1> QED
  BY <1>1, <1>2, <1>3, <1>4 DEF PagingNext

\* The least and the greatest of a set.
LEMMA MinIs ==
  ASSUME NEW S, NEW x \in S, S \subseteq Int, \A y \in S : x <= y
  PROVE  Min(S) = x
<1>1. Min(S) \in S /\ \A y \in S : Min(S) <= y
  BY DEF Min
<1>2. PICK m \in Int : m = Min(S)
  BY <1>1
<1> QED
  BY <1>1, <1>2

\* The size the property speaks of.
LEMMA PageSizeIs ==
  ASSUME NEW size \in Int, NEW n \in Nat
  PROVE  Min({Max({size, 0}), n}) = IF size < 0 THEN 0 ELSE IF size <= n THEN size ELSE n
<1>1. Max({size, 0}) = IF size < 0 THEN 0 ELSE size
  <2> DEFINE top == IF size < 0 THEN 0 ELSE size
  <2>1. top \in {size, 0} /\ \A y \in {size, 0} : top >= y
    OBVIOUS
  <2>2. Max({size, 0}) \in {size, 0} /\ \A y \in {size, 0} : Max({size, 0}) >= y
    BY <2>1 DEF Max
  <2> QED
    BY <2>2
<1> DEFINE m == IF size < 0 THEN 0 ELSE size
           least == IF m <= n THEN m ELSE n
<1>2. Min({m, n}) = least
  <2>1. least \in {m, n} /\ {m, n} \subseteq Int /\ \A y \in {m, n} : least <= y
    OBVIOUS
  <2> HIDE DEF m, least
  <2> QED
    BY <2>1, MinIs
<1> QED
  BY <1>1, <1>2

\* The invariant contains the property.
LEMMA PagingInvExact == PagingInv => PagingExact
<1> SUFFICES ASSUME PagingInv PROVE PagingExact
  OBVIOUS
<1>1. rows.kind \in ListKinds /\ WalkOK(walk, rows)
  BY DEF PagingInv
<1>2. \A i, j \in DOMAIN walk.seen : i < j => walk.seen[i] < walk.seen[j]
  BY <1>1 DEF WalkOK, Increasing
<1>3. walk.phase = "done" /\ walk.size >= 0 => walk.since \subseteq Range(walk.seen)
  BY <1>1 DEF WalkOK, WalkDone
<1>4. ASSUME NEW q \in Queries[rows.kind], NEW size \in -1..MaxPageSize, NEW cursor \in Keys \cup {0}
      PROVE  LET page == ListWithCursor(rows, q, size, cursor)
                 matches == Matching(rows, q)
                 ahead == {i \in matches : i >= cursor}
                 rest == ahead \ Range(page.items)
             IN  /\ page.total = Cardinality(matches)
                 /\ Range(page.items) \subseteq ahead
                 /\ \A i \in Range(page.items), j \in rest : i < j
                 /\ Len(page.items) =
                      IF size = 0 THEN Cardinality(ahead) ELSE Min({Max({size, 0}), Cardinality(ahead)})
                 /\ page.next = IF rest = {} THEN 0 ELSE Min(rest)
  <2> DEFINE page == ListWithCursor(rows, q, size, cursor)
             matches == Matching(rows, q)
             ahead == {i \in matches : i >= cursor}
             rest == ahead \ Range(page.items)
  <2>1. size \in Int
    BY PagingAssumption
  <2>2. /\ ahead \in SUBSET Keys /\ Range(page.items) \subseteq ahead
        /\ page.total = Cardinality(matches)
        /\ \A i \in Range(page.items), j \in rest : i < j
        /\ Len(page.items) = IF size = 0 THEN Cardinality(ahead)
                             ELSE IF size < 0 THEN 0
                             ELSE IF size <= Cardinality(ahead) THEN size ELSE Cardinality(ahead)
        /\ page.next = 0 => rest = {}
        /\ page.next # 0 => page.next \in rest /\ \A j \in rest : page.next <= j
    <3>1. PageExact(rows, q, size, cursor)
      BY <1>1, <2>1, PageIsExact
    <3> QED
      BY <3>1 DEF PageExact, PageOf
  <2> HIDE DEF page, matches, ahead
  <2>3. Cardinality(ahead) \in Nat
    BY <2>2, KeysAre, FS_Subset, FS_CardinalityType
  <2>4. Min({Max({size, 0}), Cardinality(ahead)})
          = IF size < 0 THEN 0 ELSE IF size <= Cardinality(ahead) THEN size ELSE Cardinality(ahead)
    BY <2>1, <2>3, PageSizeIs
  <2>5. rest \subseteq Int
    <3>1. \A i \in ahead : i \in Int
      BY <2>2, KeysAre
    <3> QED
      BY <3>1
  <2> HIDE DEF rest
  <2>6. page.next = IF rest = {} THEN 0 ELSE Min(rest)
    <3>1. CASE page.next = 0
      BY <2>2, <3>1
    <3>2. CASE page.next # 0
      <4>1. page.next \in rest /\ \A j \in rest : page.next <= j
        BY <2>2, <3>2
      <4>2. Min(rest) = page.next
        BY <2>5, <4>1, MinIs
      <4> QED
        BY <4>1, <4>2
    <3> QED
      BY <3>1, <3>2
  <2>7. Len(page.items) = IF size = 0 THEN Cardinality(ahead) ELSE Min({Max({size, 0}), Cardinality(ahead)})
    BY <2>2, <2>4
  <2> QED
    BY <2>2, <2>6, <2>7 DEF page, matches, ahead, rest
<1> QED
  BY <1>2, <1>3, <1>4 DEF PagingExact

\* pagination.go:13-128 and the handlers over it: for any names, page sizes, queries
\* and edits in between, every page is the first matches after its cursor, in key
\* order, and its next token is there exactly when more of them follow.
THEOREM PagesAreExact == PagingSpec => []PagingExact
<1>1. PagingInit => PagingInv
  BY PagingInvInit
<1>2. PagingInv /\ [PagingNext]_pagingVars => PagingInv'
  BY PagingInvStep
<1>3. PagingInv => PagingExact
  BY PagingInvExact
<1> QED
  BY <1>1, <1>2, <1>3, PTL DEF PagingSpec

-----------------------------------------------------------------------------
(***************************************************************************)
(* ConfigPath: what a call over either channel comes to.                   *)
(***************************************************************************)

\* The six kinds.
LEMMA KindsAre == Kind = {"Proxy", "Pool", "LoadBalancer", "Router", "Flow", "Entrypoint"}
<1>1. DOMAIN Kinds = 1..6
  BY DEF Kinds
<1>2. Kinds[1] = "Proxy" /\ Kinds[2] = "Pool" /\ Kinds[3] = "LoadBalancer" /\ Kinds[4] = "Router"
      /\ Kinds[5] = "Flow" /\ Kinds[6] = "Entrypoint"
  BY DEF Kinds
<1>3. \A i \in 1..6 : i = 1 \/ i = 2 \/ i = 3 \/ i = 4 \/ i = 5 \/ i = 6
  OBVIOUS
<1> QED
  BY <1>1, <1>2, <1>3 DEF Kind, Range

\* The call of the API behind an apply, and the spec that gets there over gRPC.
Applied(st, k, meta, s) ==
  CASE k = "Proxy" -> ApplyProxyV1(st, meta, s)
    [] k = "Pool" -> ApplyPoolV1(st, meta, s)
    [] k = "LoadBalancer" -> ApplyBalancerV1(st, meta, s)
    [] k = "Router" -> ApplyRouterV1(st, meta, s)
    [] k = "Flow" -> ApplyFlowV1(st, meta, s)
    [] k = "Entrypoint" -> ApplyEntrypointV1(st, meta, s)

Sent(k, s) ==
  CASE k = "Proxy" -> ProxySpecFromProto(ProxySpecToProto(s))
    [] k = "Pool" -> PoolSpecFromProto(PoolSpecToProto(s))
    [] k = "LoadBalancer" -> BalancerSpecFromProto(BalancerSpecToProto(s))
    [] k = "Router" -> RouterSpecFromProto(RouterSpecToProto(s))
    [] k = "Flow" -> FlowSpecFromProto(FlowSpecToProto(s))
    [] k = "Entrypoint" -> EntrypointSpecFromProto(EntrypointSpecToProto(s))

\* What comes back of a stored object over gRPC, and what the dashboard shows.
Back(k, o) ==
  CASE k = "Proxy" -> ProxyFromProto(ProxyToProto(o))
    [] k = "Pool" -> PoolFromProto(PoolToProto(o))
    [] k = "LoadBalancer" -> BalancerFromProto(BalancerToProto(o))
    [] k = "Router" -> RouterFromProto(RouterToProto(o))
    [] k = "Flow" -> FlowFromProto(FlowToProto(o))
    [] k = "Entrypoint" -> EntrypointFromProto(EntrypointToProto(o))

Viewed(k, o) ==
  CASE k = "Proxy" -> RedactProxy(o)
    [] k = "LoadBalancer" -> MapBalancer(o)
    [] OTHER -> o

AllBack(k, S) == {Back(k, o) : o \in S}
AllViewed(k, S) == {Viewed(k, o) : o \in S}
OneBack(k, x) == {Back(k, o) : o \in {x} \ {None}}
OneViewed(k, x) == {Viewed(k, o) : o \in {x} \ {None}}

\* Metadata comes over the wire as it was sent.
LEMMA MetaTravels ==
  ASSUME NEW meta \in Metadata
  PROVE  MetaFromProto(MetaToProto(meta)) = meta
BY DEF MetaFromProto, MetaToProto, Metadata

\* An apply over gRPC saves what arrives of the spec.
LEMMA ClientApplies ==
  ASSUME NEW st, NEW k \in Kind, NEW meta \in Metadata, NEW s
  PROVE  LET r == Client(st, k, Rq("apply", meta, s))
             a == Applied(st, k, meta, Sent(k, s))
         IN  r.st = a.st /\ r.code = GrpcCode(a.err)
<1> DEFINE rq == Rq("apply", meta, s)
<1>1. rq.op = "apply" /\ rq.spec = s /\ rq.meta = meta
  BY DEF Rq
<1>2. MetaFromProto(MetaToProto(meta)) = meta
  BY MetaTravels
<1>3. CASE k = "Proxy"
  <2> DEFINE pb == Rq("apply", MetaToProto(meta), ProxySpecToProto(s))
             a == ApplyProxyV1(st, meta, Sent(k, s))
  <2>1. Client(st, k, rq) = CallProxies(st, rq)
    BY <1>3, Zenon DEF Client
  <2>2. CallProxies(st, rq).st = ServeProxies(st, pb).st /\ CallProxies(st, rq).code = ServeProxies(st, pb).code
    BY <1>1 DEF CallProxies, Call
  <2>3. ServeProxies(st, pb).st = a.st /\ ServeProxies(st, pb).code = GrpcCode(a.err)
    BY <1>2, <1>3 DEF ServeProxies, Serve, Sent, Rq
  <2>4. Applied(st, k, meta, Sent(k, s)) = a
    BY <1>3, Zenon DEF Applied
  <2> QED
    BY <2>1, <2>2, <2>3, <2>4
<1>4. CASE k = "Pool"
  <2> DEFINE pb == Rq("apply", MetaToProto(meta), PoolSpecToProto(s))
             a == ApplyPoolV1(st, meta, Sent(k, s))
  <2>1. Client(st, k, rq) = CallPools(st, rq)
    BY <1>4, Zenon DEF Client
  <2>2. CallPools(st, rq).st = ServePools(st, pb).st /\ CallPools(st, rq).code = ServePools(st, pb).code
    BY <1>1 DEF CallPools, Call
  <2>3. ServePools(st, pb).st = a.st /\ ServePools(st, pb).code = GrpcCode(a.err)
    BY <1>2, <1>4 DEF ServePools, Serve, Sent, Rq
  <2>4. Applied(st, k, meta, Sent(k, s)) = a
    BY <1>4, Zenon DEF Applied
  <2> QED
    BY <2>1, <2>2, <2>3, <2>4
<1>5. CASE k = "LoadBalancer"
  <2> DEFINE pb == Rq("apply", MetaToProto(meta), BalancerSpecToProto(s))
             a == ApplyBalancerV1(st, meta, Sent(k, s))
  <2>1. Client(st, k, rq) = CallBalancers(st, rq)
    BY <1>5, Zenon DEF Client
  <2>2. CallBalancers(st, rq).st = ServeBalancers(st, pb).st /\ CallBalancers(st, rq).code = ServeBalancers(st, pb).code
    BY <1>1 DEF CallBalancers, Call
  <2>3. ServeBalancers(st, pb).st = a.st /\ ServeBalancers(st, pb).code = GrpcCode(a.err)
    BY <1>2, <1>5 DEF ServeBalancers, Serve, Sent, Rq
  <2>4. Applied(st, k, meta, Sent(k, s)) = a
    BY <1>5, Zenon DEF Applied
  <2> QED
    BY <2>1, <2>2, <2>3, <2>4
<1>6. CASE k = "Router"
  <2> DEFINE pb == Rq("apply", MetaToProto(meta), RouterSpecToProto(s))
             a == ApplyRouterV1(st, meta, Sent(k, s))
  <2>1. Client(st, k, rq) = CallRouters(st, rq)
    BY <1>6, Zenon DEF Client
  <2>2. CallRouters(st, rq).st = ServeRouters(st, pb).st /\ CallRouters(st, rq).code = ServeRouters(st, pb).code
    BY <1>1 DEF CallRouters, Call
  <2>3. ServeRouters(st, pb).st = a.st /\ ServeRouters(st, pb).code = GrpcCode(a.err)
    BY <1>2, <1>6 DEF ServeRouters, Serve, Sent, Rq
  <2>4. Applied(st, k, meta, Sent(k, s)) = a
    BY <1>6, Zenon DEF Applied
  <2> QED
    BY <2>1, <2>2, <2>3, <2>4
<1>7. CASE k = "Flow"
  <2> DEFINE pb == Rq("apply", MetaToProto(meta), FlowSpecToProto(s))
             a == ApplyFlowV1(st, meta, Sent(k, s))
  <2>1. Client(st, k, rq) = CallFlows(st, rq)
    BY <1>7, Zenon DEF Client
  <2>2. CallFlows(st, rq).st = ServeFlows(st, pb).st /\ CallFlows(st, rq).code = ServeFlows(st, pb).code
    BY <1>1 DEF CallFlows, Call
  <2>3. ServeFlows(st, pb).st = a.st /\ ServeFlows(st, pb).code = GrpcCode(a.err)
    BY <1>2, <1>7 DEF ServeFlows, Serve, Sent, Rq
  <2>4. Applied(st, k, meta, Sent(k, s)) = a
    BY <1>7, Zenon DEF Applied
  <2> QED
    BY <2>1, <2>2, <2>3, <2>4
<1>8. CASE k = "Entrypoint"
  <2> DEFINE pb == Rq("apply", MetaToProto(meta), EntrypointSpecToProto(s))
             a == ApplyEntrypointV1(st, meta, Sent(k, s))
  <2>1. Client(st, k, rq) = CallEntrypoints(st, rq)
    BY <1>8, Zenon DEF Client
  <2>2. CallEntrypoints(st, rq).st = ServeEntrypoints(st, pb).st /\ CallEntrypoints(st, rq).code = ServeEntrypoints(st, pb).code
    BY <1>1 DEF CallEntrypoints, Call
  <2>3. ServeEntrypoints(st, pb).st = a.st /\ ServeEntrypoints(st, pb).code = GrpcCode(a.err)
    BY <1>2, <1>8 DEF ServeEntrypoints, Serve, Sent, Rq
  <2>4. Applied(st, k, meta, Sent(k, s)) = a
    BY <1>8, Zenon DEF Applied
  <2> QED
    BY <2>1, <2>2, <2>3, <2>4
<1> QED
  BY <1>3, <1>4, <1>5, <1>6, <1>7, <1>8, KindsAre

\* A list or a get over gRPC returns the objects as the wire brings them back.
LEMMA ClientReads ==
  ASSUME NEW st, NEW k \in Kind, NEW n
  PROVE  /\ Client(st, k, Rq("list", Name(n), None)).objs = AllBack(k, Range(st[k]))
         /\ Client(st, k, Rq("get", Name(n), None)).objs = OneBack(k, Find(st, k, n))
<1> DEFINE list == Rq("list", Name(n), None)
           get == Rq("get", Name(n), None)
           listed == Rq("list", MetaToProto(Name(n)), None)
           got == Rq("get", MetaToProto(Name(n)), None)
<1>1. /\ list.op = "list" /\ list.meta = Name(n) /\ get.op = "get" /\ get.meta = Name(n)
      /\ listed.op = "list" /\ got.op = "get" /\ got.meta.name = n
  BY DEF Rq, Name, MetaToProto
<1> HIDE DEF list, get
<1>2. CASE k = "Proxy"
  <2>1. Client(st, k, list) = CallProxies(st, list) /\ Client(st, k, get) = CallProxies(st, get)
    BY <1>2, Zenon DEF Client
  <2>2. /\ CallProxies(st, list).objs = {ProxyFromProto(pb) : pb \in ServeProxies(st, listed).msgs}
        /\ CallProxies(st, get).objs = {ProxyFromProto(pb) : pb \in ServeProxies(st, got).msgs}
    BY <1>1 DEF CallProxies, Call
  <2> HIDE DEF listed, got
  <2>3. /\ ServeProxies(st, listed).msgs = {ProxyToProto(o) : o \in Range(st[k])}
        /\ ServeProxies(st, got).msgs = {ProxyToProto(o) : o \in {Find(st, k, n)} \ {None}}
    BY <1>1, <1>2 DEF ServeProxies, Serve
  <2>4. \A o : Back(k, o) = ProxyFromProto(ProxyToProto(o))
    BY <1>2, Zenon DEF Back
  <2> QED
    BY <2>1, <2>2, <2>3, <2>4 DEF list, get, AllBack, OneBack
<1>3. CASE k = "Pool"
  <2>1. Client(st, k, list) = CallPools(st, list) /\ Client(st, k, get) = CallPools(st, get)
    BY <1>3, Zenon DEF Client
  <2>2. /\ CallPools(st, list).objs = {PoolFromProto(pb) : pb \in ServePools(st, listed).msgs}
        /\ CallPools(st, get).objs = {PoolFromProto(pb) : pb \in ServePools(st, got).msgs}
    BY <1>1 DEF CallPools, Call
  <2> HIDE DEF listed, got
  <2>3. /\ ServePools(st, listed).msgs = {PoolToProto(o) : o \in Range(st[k])}
        /\ ServePools(st, got).msgs = {PoolToProto(o) : o \in {Find(st, k, n)} \ {None}}
    BY <1>1, <1>3 DEF ServePools, Serve
  <2>4. \A o : Back(k, o) = PoolFromProto(PoolToProto(o))
    BY <1>3, Zenon DEF Back
  <2> QED
    BY <2>1, <2>2, <2>3, <2>4 DEF list, get, AllBack, OneBack
<1>4. CASE k = "LoadBalancer"
  <2>1. Client(st, k, list) = CallBalancers(st, list) /\ Client(st, k, get) = CallBalancers(st, get)
    BY <1>4, Zenon DEF Client
  <2>2. /\ CallBalancers(st, list).objs = {BalancerFromProto(pb) : pb \in ServeBalancers(st, listed).msgs}
        /\ CallBalancers(st, get).objs = {BalancerFromProto(pb) : pb \in ServeBalancers(st, got).msgs}
    BY <1>1 DEF CallBalancers, Call
  <2> HIDE DEF listed, got
  <2>3. /\ ServeBalancers(st, listed).msgs = {BalancerToProto(o) : o \in Range(st[k])}
        /\ ServeBalancers(st, got).msgs = {BalancerToProto(o) : o \in {Find(st, k, n)} \ {None}}
    BY <1>1, <1>4 DEF ServeBalancers, Serve
  <2>4. \A o : Back(k, o) = BalancerFromProto(BalancerToProto(o))
    BY <1>4, Zenon DEF Back
  <2> QED
    BY <2>1, <2>2, <2>3, <2>4 DEF list, get, AllBack, OneBack
<1>5. CASE k = "Router"
  <2>1. Client(st, k, list) = CallRouters(st, list) /\ Client(st, k, get) = CallRouters(st, get)
    BY <1>5, Zenon DEF Client
  <2>2. /\ CallRouters(st, list).objs = {RouterFromProto(pb) : pb \in ServeRouters(st, listed).msgs}
        /\ CallRouters(st, get).objs = {RouterFromProto(pb) : pb \in ServeRouters(st, got).msgs}
    BY <1>1 DEF CallRouters, Call
  <2> HIDE DEF listed, got
  <2>3. /\ ServeRouters(st, listed).msgs = {RouterToProto(o) : o \in Range(st[k])}
        /\ ServeRouters(st, got).msgs = {RouterToProto(o) : o \in {Find(st, k, n)} \ {None}}
    BY <1>1, <1>5 DEF ServeRouters, Serve
  <2>4. \A o : Back(k, o) = RouterFromProto(RouterToProto(o))
    BY <1>5, Zenon DEF Back
  <2> QED
    BY <2>1, <2>2, <2>3, <2>4 DEF list, get, AllBack, OneBack
<1>6. CASE k = "Flow"
  <2>1. Client(st, k, list) = CallFlows(st, list) /\ Client(st, k, get) = CallFlows(st, get)
    BY <1>6, Zenon DEF Client
  <2>2. /\ CallFlows(st, list).objs = {FlowFromProto(pb) : pb \in ServeFlows(st, listed).msgs}
        /\ CallFlows(st, get).objs = {FlowFromProto(pb) : pb \in ServeFlows(st, got).msgs}
    BY <1>1 DEF CallFlows, Call
  <2> HIDE DEF listed, got
  <2>3. /\ ServeFlows(st, listed).msgs = {FlowToProto(o) : o \in Range(st[k])}
        /\ ServeFlows(st, got).msgs = {FlowToProto(o) : o \in {Find(st, k, n)} \ {None}}
    BY <1>1, <1>6 DEF ServeFlows, Serve
  <2>4. \A o : Back(k, o) = FlowFromProto(FlowToProto(o))
    BY <1>6, Zenon DEF Back
  <2> QED
    BY <2>1, <2>2, <2>3, <2>4 DEF list, get, AllBack, OneBack
<1>7. CASE k = "Entrypoint"
  <2>1. Client(st, k, list) = CallEntrypoints(st, list) /\ Client(st, k, get) = CallEntrypoints(st, get)
    BY <1>7, Zenon DEF Client
  <2>2. /\ CallEntrypoints(st, list).objs = {EntrypointFromProto(pb) : pb \in ServeEntrypoints(st, listed).msgs}
        /\ CallEntrypoints(st, get).objs = {EntrypointFromProto(pb) : pb \in ServeEntrypoints(st, got).msgs}
    BY <1>1 DEF CallEntrypoints, Call
  <2> HIDE DEF listed, got
  <2>3. /\ ServeEntrypoints(st, listed).msgs = {EntrypointToProto(o) : o \in Range(st[k])}
        /\ ServeEntrypoints(st, got).msgs = {EntrypointToProto(o) : o \in {Find(st, k, n)} \ {None}}
    BY <1>1, <1>7 DEF ServeEntrypoints, Serve
  <2>4. \A o : Back(k, o) = EntrypointFromProto(EntrypointToProto(o))
    BY <1>7, Zenon DEF Back
  <2> QED
    BY <2>1, <2>2, <2>3, <2>4 DEF list, get, AllBack, OneBack
<1> QED
  BY <1>2, <1>3, <1>4, <1>5, <1>6, <1>7, KindsAre

\* A delete over gRPC.
LEMMA ClientDeletes ==
  ASSUME NEW st, NEW k \in Kind, NEW n
  PROVE  LET r == Client(st, k, Rq("delete", Name(n), None))
             a == Delete(st, k, n)
         IN  r.st = a.st /\ r.code = GrpcCode(a.err)
<1> DEFINE rq == Rq("delete", Name(n), None)
           pb == Rq("delete", MetaToProto(Name(n)), None)
<1>1. rq.op = "delete" /\ rq.meta = Name(n) /\ pb.op = "delete" /\ pb.meta.name = n
  BY DEF Rq, Name, MetaToProto
<1> HIDE DEF rq
<1>2. CASE k = "Proxy"
  <2>1. Client(st, k, rq) = CallProxies(st, rq)
    BY <1>2, Zenon DEF Client
  <2>2. CallProxies(st, rq).st = ServeProxies(st, pb).st /\ CallProxies(st, rq).code = ServeProxies(st, pb).code
    BY <1>1 DEF CallProxies, Call
  <2> HIDE DEF pb
  <2>3. ServeProxies(st, pb).st = Delete(st, k, n).st /\ ServeProxies(st, pb).code = GrpcCode(Delete(st, k, n).err)
    BY <1>1, <1>2 DEF ServeProxies, Serve
  <2> QED
    BY <2>1, <2>2, <2>3 DEF rq
<1>3. CASE k = "Pool"
  <2>1. Client(st, k, rq) = CallPools(st, rq)
    BY <1>3, Zenon DEF Client
  <2>2. CallPools(st, rq).st = ServePools(st, pb).st /\ CallPools(st, rq).code = ServePools(st, pb).code
    BY <1>1 DEF CallPools, Call
  <2> HIDE DEF pb
  <2>3. ServePools(st, pb).st = Delete(st, k, n).st /\ ServePools(st, pb).code = GrpcCode(Delete(st, k, n).err)
    BY <1>1, <1>3 DEF ServePools, Serve
  <2> QED
    BY <2>1, <2>2, <2>3 DEF rq
<1>4. CASE k = "LoadBalancer"
  <2>1. Client(st, k, rq) = CallBalancers(st, rq)
    BY <1>4, Zenon DEF Client
  <2>2. CallBalancers(st, rq).st = ServeBalancers(st, pb).st /\ CallBalancers(st, rq).code = ServeBalancers(st, pb).code
    BY <1>1 DEF CallBalancers, Call
  <2> HIDE DEF pb
  <2>3. ServeBalancers(st, pb).st = Delete(st, k, n).st /\ ServeBalancers(st, pb).code = GrpcCode(Delete(st, k, n).err)
    BY <1>1, <1>4 DEF ServeBalancers, Serve
  <2> QED
    BY <2>1, <2>2, <2>3 DEF rq
<1>5. CASE k = "Router"
  <2>1. Client(st, k, rq) = CallRouters(st, rq)
    BY <1>5, Zenon DEF Client
  <2>2. CallRouters(st, rq).st = ServeRouters(st, pb).st /\ CallRouters(st, rq).code = ServeRouters(st, pb).code
    BY <1>1 DEF CallRouters, Call
  <2> HIDE DEF pb
  <2>3. ServeRouters(st, pb).st = Delete(st, k, n).st /\ ServeRouters(st, pb).code = GrpcCode(Delete(st, k, n).err)
    BY <1>1, <1>5 DEF ServeRouters, Serve
  <2> QED
    BY <2>1, <2>2, <2>3 DEF rq
<1>6. CASE k = "Flow"
  <2>1. Client(st, k, rq) = CallFlows(st, rq)
    BY <1>6, Zenon DEF Client
  <2>2. CallFlows(st, rq).st = ServeFlows(st, pb).st /\ CallFlows(st, rq).code = ServeFlows(st, pb).code
    BY <1>1 DEF CallFlows, Call
  <2> HIDE DEF pb
  <2>3. ServeFlows(st, pb).st = Delete(st, k, n).st /\ ServeFlows(st, pb).code = GrpcCode(Delete(st, k, n).err)
    BY <1>1, <1>6 DEF ServeFlows, Serve
  <2> QED
    BY <2>1, <2>2, <2>3 DEF rq
<1>7. CASE k = "Entrypoint"
  <2>1. Client(st, k, rq) = CallEntrypoints(st, rq)
    BY <1>7, Zenon DEF Client
  <2>2. CallEntrypoints(st, rq).st = ServeEntrypoints(st, pb).st /\ CallEntrypoints(st, rq).code = ServeEntrypoints(st, pb).code
    BY <1>1 DEF CallEntrypoints, Call
  <2> HIDE DEF pb
  <2>3. ServeEntrypoints(st, pb).st = Delete(st, k, n).st /\ ServeEntrypoints(st, pb).code = GrpcCode(Delete(st, k, n).err)
    BY <1>1, <1>7 DEF ServeEntrypoints, Serve
  <2> QED
    BY <2>1, <2>2, <2>3 DEF rq
<1> QED
  BY <1>2, <1>3, <1>4, <1>5, <1>6, <1>7, KindsAre

\* An apply from the dashboard saves the spec itself.
LEMMA DashboardApplies ==
  ASSUME NEW st, NEW k \in Kind, NEW meta, NEW s, meta.name # ""
  PROVE  LET r == Dashboard(st, k, Rq("apply", meta, s))
             a == Applied(st, k, meta, s)
         IN  r.st = a.st /\ r.code = HttpStatus(a.err) /\ r.json = OneViewed(k, a.obj)
<1> DEFINE rq == Rq("apply", meta, s)
<1>1. rq.op = "apply" /\ rq.meta = meta /\ rq.spec = s
  BY DEF Rq
<1> HIDE DEF rq
<1>2. CASE k = "Proxy"
  <2> DEFINE a == ApplyProxyV1(st, meta, s)
  <2>1. Dashboard(st, k, rq) = HandleProxies(st, rq)
    BY <1>2, Zenon DEF Dashboard
  <2>2. /\ HandleProxies(st, rq).st = a.st /\ HandleProxies(st, rq).code = HttpStatus(a.err)
        /\ HandleProxies(st, rq).json = {RedactProxy(o) : o \in {a.obj} \ {None}}
    BY <1>1 DEF HandleProxies, Handle
  <2>3. Applied(st, k, meta, s) = a
    BY <1>2, Zenon DEF Applied
  <2>4. \A o : Viewed(k, o) = RedactProxy(o)
    BY <1>2, Zenon DEF Viewed
  <2> HIDE DEF a
  <2> QED
    BY <2>1, <2>2, <2>3, <2>4, ZenonT(40) DEF rq, OneViewed
<1>3. CASE k = "Pool"
  <2> DEFINE a == ApplyPoolV1(st, meta, s)
  <2>1. Dashboard(st, k, rq) = HandlePools(st, rq)
    BY <1>3, Zenon DEF Dashboard
  <2>2. /\ HandlePools(st, rq).st = a.st /\ HandlePools(st, rq).code = HttpStatus(a.err)
        /\ HandlePools(st, rq).json = {AsIs(o) : o \in {a.obj} \ {None}}
    BY <1>1 DEF HandlePools, Handle
  <2>3. Applied(st, k, meta, s) = a
    BY <1>3, Zenon DEF Applied
  <2>4. \A o : Viewed(k, o) = AsIs(o)
    BY <1>3, Zenon DEF Viewed, AsIs
  <2> HIDE DEF a
  <2> QED
    BY <2>1, <2>2, <2>3, <2>4, ZenonT(40) DEF rq, OneViewed
<1>4. CASE k = "LoadBalancer"
  <2> DEFINE a == ApplyBalancerV1(st, meta, s)
  <2>1. Dashboard(st, k, rq) = HandleBalancers(st, rq)
    BY <1>4, Zenon DEF Dashboard
  <2>2. /\ HandleBalancers(st, rq).st = a.st /\ HandleBalancers(st, rq).code = HttpStatus(a.err)
        /\ HandleBalancers(st, rq).json = {MapBalancer(o) : o \in {a.obj} \ {None}}
    BY <1>1 DEF HandleBalancers, Handle
  <2>3. Applied(st, k, meta, s) = a
    BY <1>4, Zenon DEF Applied
  <2>4. \A o : Viewed(k, o) = MapBalancer(o)
    BY <1>4, Zenon DEF Viewed
  <2> HIDE DEF a
  <2> QED
    BY <2>1, <2>2, <2>3, <2>4, ZenonT(40) DEF rq, OneViewed
<1>5. CASE k = "Router"
  <2> DEFINE a == ApplyRouterV1(st, meta, s)
  <2>1. Dashboard(st, k, rq) = HandleRouters(st, rq)
    BY <1>5, Zenon DEF Dashboard
  <2>2. /\ HandleRouters(st, rq).st = a.st /\ HandleRouters(st, rq).code = HttpStatus(a.err)
        /\ HandleRouters(st, rq).json = {AsIs(o) : o \in {a.obj} \ {None}}
    BY <1>1 DEF HandleRouters, Handle
  <2>3. Applied(st, k, meta, s) = a
    BY <1>5, Zenon DEF Applied
  <2>4. \A o : Viewed(k, o) = AsIs(o)
    BY <1>5, Zenon DEF Viewed, AsIs
  <2> HIDE DEF a
  <2> QED
    BY <2>1, <2>2, <2>3, <2>4, ZenonT(40) DEF rq, OneViewed
<1>6. CASE k = "Flow"
  <2> DEFINE a == ApplyFlowV1(st, meta, s)
  <2>1. Dashboard(st, k, rq) = HandleFlows(st, rq)
    BY <1>6, Zenon DEF Dashboard
  <2>2. /\ HandleFlows(st, rq).st = a.st /\ HandleFlows(st, rq).code = HttpStatus(a.err)
        /\ HandleFlows(st, rq).json = {AsIs(o) : o \in {a.obj} \ {None}}
    BY <1>1 DEF HandleFlows, Handle
  <2>3. Applied(st, k, meta, s) = a
    BY <1>6, Zenon DEF Applied
  <2>4. \A o : Viewed(k, o) = AsIs(o)
    BY <1>6, Zenon DEF Viewed, AsIs
  <2> HIDE DEF a
  <2> QED
    BY <2>1, <2>2, <2>3, <2>4, ZenonT(40) DEF rq, OneViewed
<1>7. CASE k = "Entrypoint"
  <2> DEFINE a == ApplyEntrypointV1(st, meta, s)
  <2>1. Dashboard(st, k, rq) = HandleEntrypoints(st, rq)
    BY <1>7, Zenon DEF Dashboard
  <2>2. /\ HandleEntrypoints(st, rq).st = a.st /\ HandleEntrypoints(st, rq).code = HttpStatus(a.err)
        /\ HandleEntrypoints(st, rq).json = {AsIs(o) : o \in {a.obj} \ {None}}
    BY <1>1 DEF HandleEntrypoints, Handle
  <2>3. Applied(st, k, meta, s) = a
    BY <1>7, Zenon DEF Applied
  <2>4. \A o : Viewed(k, o) = AsIs(o)
    BY <1>7, Zenon DEF Viewed, AsIs
  <2> HIDE DEF a
  <2> QED
    BY <2>1, <2>2, <2>3, <2>4, ZenonT(40) DEF rq, OneViewed
<1> QED
  BY <1>2, <1>3, <1>4, <1>5, <1>6, <1>7, KindsAre

\* A list or a get of the dashboard returns the redacted objects.
LEMMA DashboardReads ==
  ASSUME NEW st, NEW k \in Kind, NEW n
  PROVE  /\ Dashboard(st, k, Rq("list", Name(n), None)).json = AllViewed(k, Range(st[k]))
         /\ Dashboard(st, k, Rq("get", Name(n), None)).json = OneViewed(k, Find(st, k, n))
<1> DEFINE list == Rq("list", Name(n), None)
           get == Rq("get", Name(n), None)
<1>1. list.op = "list" /\ get.op = "get" /\ get.meta.name = n
  BY DEF Rq, Name
<1> HIDE DEF list, get
<1>2. CASE k = "Proxy"
  <2>1. Dashboard(st, k, list) = HandleProxies(st, list) /\ Dashboard(st, k, get) = HandleProxies(st, get)
    BY <1>2, Zenon DEF Dashboard
  <2>2. /\ HandleProxies(st, list).json = {RedactProxy(o) : o \in Range(st[k])}
        /\ HandleProxies(st, get).json = {RedactProxy(o) : o \in {Find(st, k, n)} \ {None}}
    BY <1>1, <1>2 DEF HandleProxies, Handle
  <2>3. \A o : Viewed(k, o) = RedactProxy(o)
    BY <1>2, Zenon DEF Viewed
  <2> QED
    BY <2>1, <2>2, <2>3 DEF list, get, AllViewed, OneViewed
<1>3. CASE k = "Pool"
  <2>1. Dashboard(st, k, list) = HandlePools(st, list) /\ Dashboard(st, k, get) = HandlePools(st, get)
    BY <1>3, Zenon DEF Dashboard
  <2>2. /\ HandlePools(st, list).json = {AsIs(o) : o \in Range(st[k])}
        /\ HandlePools(st, get).json = {AsIs(o) : o \in {Find(st, k, n)} \ {None}}
    BY <1>1, <1>3 DEF HandlePools, Handle
  <2>3. \A o : Viewed(k, o) = AsIs(o)
    BY <1>3, Zenon DEF Viewed, AsIs
  <2> QED
    BY <2>1, <2>2, <2>3 DEF list, get, AllViewed, OneViewed
<1>4. CASE k = "LoadBalancer"
  <2>1. Dashboard(st, k, list) = HandleBalancers(st, list) /\ Dashboard(st, k, get) = HandleBalancers(st, get)
    BY <1>4, Zenon DEF Dashboard
  <2>2. /\ HandleBalancers(st, list).json = {MapBalancer(o) : o \in Range(st[k])}
        /\ HandleBalancers(st, get).json = {MapBalancer(o) : o \in {Find(st, k, n)} \ {None}}
    BY <1>1, <1>4 DEF HandleBalancers, Handle
  <2>3. \A o : Viewed(k, o) = MapBalancer(o)
    BY <1>4, Zenon DEF Viewed
  <2> QED
    BY <2>1, <2>2, <2>3 DEF list, get, AllViewed, OneViewed
<1>5. CASE k = "Router"
  <2>1. Dashboard(st, k, list) = HandleRouters(st, list) /\ Dashboard(st, k, get) = HandleRouters(st, get)
    BY <1>5, Zenon DEF Dashboard
  <2>2. /\ HandleRouters(st, list).json = {AsIs(o) : o \in Range(st[k])}
        /\ HandleRouters(st, get).json = {AsIs(o) : o \in {Find(st, k, n)} \ {None}}
    BY <1>1, <1>5 DEF HandleRouters, Handle
  <2>3. \A o : Viewed(k, o) = AsIs(o)
    BY <1>5, Zenon DEF Viewed, AsIs
  <2> QED
    BY <2>1, <2>2, <2>3 DEF list, get, AllViewed, OneViewed
<1>6. CASE k = "Flow"
  <2>1. Dashboard(st, k, list) = HandleFlows(st, list) /\ Dashboard(st, k, get) = HandleFlows(st, get)
    BY <1>6, Zenon DEF Dashboard
  <2>2. /\ HandleFlows(st, list).json = {AsIs(o) : o \in Range(st[k])}
        /\ HandleFlows(st, get).json = {AsIs(o) : o \in {Find(st, k, n)} \ {None}}
    BY <1>1, <1>6 DEF HandleFlows, Handle
  <2>3. \A o : Viewed(k, o) = AsIs(o)
    BY <1>6, Zenon DEF Viewed, AsIs
  <2> QED
    BY <2>1, <2>2, <2>3 DEF list, get, AllViewed, OneViewed
<1>7. CASE k = "Entrypoint"
  <2>1. Dashboard(st, k, list) = HandleEntrypoints(st, list) /\ Dashboard(st, k, get) = HandleEntrypoints(st, get)
    BY <1>7, Zenon DEF Dashboard
  <2>2. /\ HandleEntrypoints(st, list).json = {AsIs(o) : o \in Range(st[k])}
        /\ HandleEntrypoints(st, get).json = {AsIs(o) : o \in {Find(st, k, n)} \ {None}}
    BY <1>1, <1>7 DEF HandleEntrypoints, Handle
  <2>3. \A o : Viewed(k, o) = AsIs(o)
    BY <1>7, Zenon DEF Viewed, AsIs
  <2> QED
    BY <2>1, <2>2, <2>3 DEF list, get, AllViewed, OneViewed
<1> QED
  BY <1>2, <1>3, <1>4, <1>5, <1>6, <1>7, KindsAre

\* A delete from the dashboard.
LEMMA DashboardDeletes ==
  ASSUME NEW st, NEW k \in Kind, NEW n
  PROVE  LET r == Dashboard(st, k, Rq("delete", Name(n), None))
             a == Delete(st, k, n)
         IN  /\ r.st = a.st /\ (a.err = "" => r.code = "204") /\ (a.err # "" => r.code = HttpStatus(a.err))
<1> DEFINE rq == Rq("delete", Name(n), None)
<1>1. rq.op = "delete" /\ rq.meta.name = n
  BY DEF Rq, Name
<1> HIDE DEF rq
<1>2. CASE k = "Proxy"
  <2>1. Dashboard(st, k, rq) = HandleProxies(st, rq)
    BY <1>2, Zenon DEF Dashboard
  <2>2. n = "" => Delete(st, k, n) = Refused(st, "name")
    BY Zenon DEF Delete
  <2>3. /\ HandleProxies(st, rq).st = Delete(st, k, n).st
        /\ Delete(st, k, n).err = "" => HandleProxies(st, rq).code = "204"
        /\ Delete(st, k, n).err # "" => HandleProxies(st, rq).code = HttpStatus(Delete(st, k, n).err)
    BY <1>1, <1>2, <2>2 DEF HandleProxies, Handle
  <2> QED
    BY <2>1, <2>3, Zenon DEF rq
<1>3. CASE k = "Pool"
  <2>1. Dashboard(st, k, rq) = HandlePools(st, rq)
    BY <1>3, Zenon DEF Dashboard
  <2>2. n = "" => Delete(st, k, n) = Refused(st, "name")
    BY Zenon DEF Delete
  <2>3. /\ HandlePools(st, rq).st = Delete(st, k, n).st
        /\ Delete(st, k, n).err = "" => HandlePools(st, rq).code = "204"
        /\ Delete(st, k, n).err # "" => HandlePools(st, rq).code = HttpStatus(Delete(st, k, n).err)
    BY <1>1, <1>3, <2>2 DEF HandlePools, Handle
  <2> QED
    BY <2>1, <2>3, Zenon DEF rq
<1>4. CASE k = "LoadBalancer"
  <2>1. Dashboard(st, k, rq) = HandleBalancers(st, rq)
    BY <1>4, Zenon DEF Dashboard
  <2>2. n = "" => Delete(st, k, n) = Refused(st, "name")
    BY Zenon DEF Delete
  <2>3. /\ HandleBalancers(st, rq).st = Delete(st, k, n).st
        /\ Delete(st, k, n).err = "" => HandleBalancers(st, rq).code = "204"
        /\ Delete(st, k, n).err # "" => HandleBalancers(st, rq).code = HttpStatus(Delete(st, k, n).err)
    BY <1>1, <1>4, <2>2 DEF HandleBalancers, Handle
  <2> QED
    BY <2>1, <2>3, Zenon DEF rq
<1>5. CASE k = "Router"
  <2>1. Dashboard(st, k, rq) = HandleRouters(st, rq)
    BY <1>5, Zenon DEF Dashboard
  <2>2. n = "" => Delete(st, k, n) = Refused(st, "name")
    BY Zenon DEF Delete
  <2>3. /\ HandleRouters(st, rq).st = Delete(st, k, n).st
        /\ Delete(st, k, n).err = "" => HandleRouters(st, rq).code = "204"
        /\ Delete(st, k, n).err # "" => HandleRouters(st, rq).code = HttpStatus(Delete(st, k, n).err)
    BY <1>1, <1>5, <2>2 DEF HandleRouters, Handle
  <2> QED
    BY <2>1, <2>3, Zenon DEF rq
<1>6. CASE k = "Flow"
  <2>1. Dashboard(st, k, rq) = HandleFlows(st, rq)
    BY <1>6, Zenon DEF Dashboard
  <2>2. n = "" => Delete(st, k, n) = Refused(st, "name")
    BY Zenon DEF Delete
  <2>3. /\ HandleFlows(st, rq).st = Delete(st, k, n).st
        /\ Delete(st, k, n).err = "" => HandleFlows(st, rq).code = "204"
        /\ Delete(st, k, n).err # "" => HandleFlows(st, rq).code = HttpStatus(Delete(st, k, n).err)
    BY <1>1, <1>6, <2>2 DEF HandleFlows, Handle
  <2> QED
    BY <2>1, <2>3, Zenon DEF rq
<1>7. CASE k = "Entrypoint"
  <2>1. Dashboard(st, k, rq) = HandleEntrypoints(st, rq)
    BY <1>7, Zenon DEF Dashboard
  <2>2. n = "" => Delete(st, k, n) = Refused(st, "name")
    BY Zenon DEF Delete
  <2>3. /\ HandleEntrypoints(st, rq).st = Delete(st, k, n).st
        /\ Delete(st, k, n).err = "" => HandleEntrypoints(st, rq).code = "204"
        /\ Delete(st, k, n).err # "" => HandleEntrypoints(st, rq).code = HttpStatus(Delete(st, k, n).err)
    BY <1>1, <1>7, <2>2 DEF HandleEntrypoints, Handle
  <2> QED
    BY <2>1, <2>3, Zenon DEF rq
<1> QED
  BY <1>2, <1>3, <1>4, <1>5, <1>6, <1>7, KindsAre

Nameless(meta) == meta.name = ""

\* The dashboard refuses an apply without a name.
LEMMA DashboardNameless ==
  ASSUME NEW st, NEW k \in Kind, NEW meta, NEW s, Nameless(meta)
  PROVE  LET r == Dashboard(st, k, Rq("apply", meta, s)) IN r.st = st /\ r.code = "400"
<1> DEFINE rq == Rq("apply", meta, s)
<1>1. rq.op = "apply" /\ rq.meta = meta /\ meta.name = ""
  BY DEF Rq, Nameless
<1>2. HttpStatus("name") = "400"
  BY Zenon DEF HttpStatus
<1>3. Refused(st, "name").st = st /\ Refused(st, "name").err = "name"
  BY DEF Refused
<1> HIDE DEF rq
<1>4. CASE k = "Proxy"
  <2>1. Dashboard(st, k, rq) = HandleProxies(st, rq)
    BY <1>4, Zenon DEF Dashboard
  <2>2. HandleProxies(st, rq).st = st /\ HandleProxies(st, rq).code = "400"
    BY <1>1, <1>2, <1>3 DEF HandleProxies, Handle
  <2> QED
    BY <2>1, <2>2 DEF rq
<1>5. CASE k = "Pool"
  <2>1. Dashboard(st, k, rq) = HandlePools(st, rq)
    BY <1>5, Zenon DEF Dashboard
  <2>2. HandlePools(st, rq).st = st /\ HandlePools(st, rq).code = "400"
    BY <1>1, <1>2, <1>3 DEF HandlePools, Handle
  <2> QED
    BY <2>1, <2>2 DEF rq
<1>6. CASE k = "LoadBalancer"
  <2>1. Dashboard(st, k, rq) = HandleBalancers(st, rq)
    BY <1>6, Zenon DEF Dashboard
  <2>2. HandleBalancers(st, rq).st = st /\ HandleBalancers(st, rq).code = "400"
    BY <1>1, <1>2, <1>3 DEF HandleBalancers, Handle
  <2> QED
    BY <2>1, <2>2 DEF rq
<1>7. CASE k = "Router"
  <2>1. Dashboard(st, k, rq) = HandleRouters(st, rq)
    BY <1>7, Zenon DEF Dashboard
  <2>2. HandleRouters(st, rq).st = st /\ HandleRouters(st, rq).code = "400"
    BY <1>1, <1>2, <1>3 DEF HandleRouters, Handle
  <2> QED
    BY <2>1, <2>2 DEF rq
<1>8. CASE k = "Flow"
  <2>1. Dashboard(st, k, rq) = HandleFlows(st, rq)
    BY <1>8, Zenon DEF Dashboard
  <2>2. HandleFlows(st, rq).st = st /\ HandleFlows(st, rq).code = "400"
    BY <1>1, <1>2, <1>3 DEF HandleFlows, Handle
  <2> QED
    BY <2>1, <2>2 DEF rq
<1>9. CASE k = "Entrypoint"
  <2>1. Dashboard(st, k, rq) = HandleEntrypoints(st, rq)
    BY <1>9, Zenon DEF Dashboard
  <2>2. HandleEntrypoints(st, rq).st = st /\ HandleEntrypoints(st, rq).code = "400"
    BY <1>1, <1>2, <1>3 DEF HandleEntrypoints, Handle
  <2> QED
    BY <2>1, <2>2 DEF rq
<1> QED
  BY <1>4, <1>5, <1>6, <1>7, <1>8, <1>9, KindsAre

-----------------------------------------------------------------------------
(***************************************************************************)
(* ConfigPath: what the wire does to specs.                                *)
(***************************************************************************)

\* The codes that mean success and refusal in each channel.
LEMMA Codes ==
  ASSUME NEW e
  PROVE  /\ HttpStatus(e) = "200" <=> e = ""
         /\ GrpcCode(e) = "OK" <=> e = ""
         /\ HttpStatus(e) = "409" <=> e = "in_use"
         /\ GrpcCode(e) = "FailedPrecondition" <=> e \in {"in_use", "missing_ref"}
<1>1. HttpStatus(e) = "200" <=> e = ""
  BY Zenon DEF HttpStatus
<1>2. GrpcCode(e) = "OK" <=> e = ""
  BY Zenon DEF GrpcCode
<1>3. HttpStatus(e) = "409" <=> e = "in_use"
  BY Zenon DEF HttpStatus
<1>4. GrpcCode(e) = "FailedPrecondition" <=> e \in {"in_use", "missing_ref"}
  BY Zenon DEF GrpcCode
<1> QED
  BY <1>1, <1>2, <1>3, <1>4

\* A remainder that changes nothing.
LEMMA SmallModulus ==
  ASSUME NEW x \in Nat, NEW d \in Nat, x < d
  PROVE  x % d = x
OBVIOUS

\* A weight that fits its field arrives as it is,
LEMMA Int32Keeps ==
  ASSUME NEW w \in Int, w \in -(MaxInt32 + 1)..MaxInt32
  PROVE  Int32(w) = w
<1>1. MaxInt32 \in Nat
  BY ValuesAssumption
<1>2. PICK x \in Nat : x = w + MaxInt32 + 1
  BY <1>1
<1>3. PICK d \in Nat : d = 2 * (MaxInt32 + 1) /\ x < d
  BY <1>1, <1>2
<1>4. x % d = x
  BY <1>3, SmallModulus
<1> QED
  BY <1>1, <1>2, <1>3, <1>4 DEF Int32

\* any other as some integer.
LEMMA Int32Type == ASSUME NEW w \in Int PROVE Int32(w) \in Int
<1>1. MaxInt32 \in Nat
  BY ValuesAssumption
<1>2. PICK x \in Int, d \in Nat \ {0} : x = w + MaxInt32 + 1 /\ d = 2 * (MaxInt32 + 1)
  BY <1>1
<1>3. x % d \in Int
  BY <1>2
<1> QED
  BY <1>1, <1>2, <1>3 DEF Int32

\* Ports fit theirs.
LEMMA PortKeeps == ASSUME NEW p \in Port PROVE Uint16(p) = p
<1>1. p \in Nat /\ 65536 \in Nat /\ p < 65536
  BY SMTT(30) DEF Port
<1> QED
  BY <1>1, SmallModulus DEF Uint16

\* So do the credentials,
LEMMA AuthKeeps == ASSUME NEW a \in Optional(AuthSpec) PROVE AuthToProto(a) = a
BY DEF Optional, AuthSpec, AuthToProto

\* and with them the spec of a proxy,
LEMMA ProxySpecTravels ==
  ASSUME NEW s \in ProxySpecV1
  PROVE  ProxySpecFromProto(ProxySpecToProto(s)) = s
<1>1. s.port \in Port /\ s.auth \in Optional(AuthSpec)
  BY DEF ProxySpecV1
<1>2. s = [url |-> s.url, protocol |-> s.protocol, host |-> s.host, port |-> s.port, auth |-> s.auth]
  BY DEF ProxySpecV1
<1>3. Uint16(s.port) = s.port /\ AuthToProto(s.auth) = s.auth
  BY <1>1, PortKeeps, AuthKeeps
<1> QED
  BY <1>2, <1>3 DEF ProxySpecFromProto, ProxySpecToProto

\* of an entrypoint,
LEMMA EntrypointSpecTravels ==
  ASSUME NEW s \in EntrypointSpecV1
  PROVE  EntrypointSpecFromProto(EntrypointSpecToProto(s)) = s
<1>1. s.port \in Port
  BY DEF EntrypointSpecV1
<1>2. s = [protocol |-> s.protocol, host |-> s.host, port |-> s.port, flow_id |-> s.flow_id]
  BY DEF EntrypointSpecV1
<1>3. Uint16(s.port) = s.port
  BY <1>1, PortKeeps
<1> QED
  BY <1>2, <1>3 DEF EntrypointSpecFromProto, EntrypointSpecToProto

\* of a balancer,
LEMMA BalancerSpecTravels ==
  ASSUME NEW s \in BalancerSpecV1
  PROVE  BalancerSpecFromProto(BalancerSpecToProto(s)) = s
BY DEF BalancerSpecV1, BalancerSpecFromProto, BalancerSpecToProto

\* and of a flow.
LEMMA FlowSpecTravels ==
  ASSUME NEW s \in FlowSpecV1
  PROVE  FlowSpecFromProto(FlowSpecToProto(s)) = s
BY DEF FlowSpecV1, FlowSpecFromProto, FlowSpecToProto

\* A pool's spec but for its weights, and its weights.
LEMMA PoolSpecTravels ==
  ASSUME NEW s \in PoolSpecV1, NEW t, t = PoolSpecFromProto(PoolSpecToProto(s))
  PROVE  /\ t \in PoolSpecV1 /\ t.type = s.type /\ t.selector = s.selector
         /\ Len(t.members) = Len(s.members)
         /\ \A i \in 1..Len(s.members) :
              /\ t.members[i].proxy_id = s.members[i].proxy_id
              /\ FitInt32(s) => t.members[i].weight = IF s.members[i].weight = 0 THEN None ELSE s.members[i].weight
<1> DEFINE M == [proxy_id : STRING, weight : Optional(Int)]
           n == Len(s.members)
           wire(i) == IF s.members[i].weight = None THEN 0 ELSE Int32(s.members[i].weight)
           back(i) == IF wire(i) = 0 THEN None ELSE wire(i)
<1>1. s.type \in STRING /\ s.selector \in Optional(LabelMaps) /\ s.members \in Seq(M)
  BY DEF PoolSpecV1
<1>2. n \in Nat /\ DOMAIN s.members = 1..n /\ \A i \in 1..n : s.members[i] \in M
  <2> HIDE DEF M
  <2> QED
    BY <1>1
<1>3. t = [type |-> s.type, selector |-> s.selector,
           members |-> [i \in 1..n |-> [proxy_id |-> s.members[i].proxy_id, weight |-> back(i)]]]
  BY <1>2 DEF PoolSpecFromProto, PoolSpecToProto
<1>4. \A i \in 1..n : back(i) \in Optional(Int)
  <2> SUFFICES ASSUME NEW i \in 1..n PROVE back(i) \in Optional(Int)
    OBVIOUS
  <2>1. s.members[i].weight \in Optional(Int)
    BY <1>2
  <2>2. wire(i) \in Int
    <3>1. CASE s.members[i].weight = None
      BY <3>1
    <3>2. CASE s.members[i].weight # None
      <4>1. s.members[i].weight \in Int
        BY <2>1, <3>2 DEF Optional
      <4>2. Int32(s.members[i].weight) \in Int
        BY <4>1, Int32Type
      <4> QED
        BY <3>2, <4>2
    <3> QED
      BY <3>1, <3>2
  <2> QED
    BY <2>2 DEF Optional
<1>5. ASSUME FitInt32(s), NEW i \in 1..n
      PROVE  back(i) = IF s.members[i].weight = 0 THEN None ELSE s.members[i].weight
  <2>1. CASE s.members[i].weight = None
    BY <2>1
  <2>2. CASE s.members[i].weight # None
    <3>1. s.members[i].weight \in Int
      BY <1>2, <2>2 DEF Optional
    <3>2. s.members[i].weight \in -(MaxInt32 + 1)..MaxInt32
      BY <1>2, <1>5, <2>2 DEF FitInt32
    <3>3. Int32(s.members[i].weight) = s.members[i].weight
      BY <3>1, <3>2, Int32Keeps
    <3> QED
      BY <2>2, <3>3
  <2> QED
    BY <2>1, <2>2
<1> HIDE DEF back
<1>6. t.members = [i \in 1..n |-> [proxy_id |-> s.members[i].proxy_id, weight |-> back(i)]]
      /\ t.type = s.type /\ t.selector = s.selector
  BY <1>3
<1>7. t.members \in Seq(M) /\ Len(t.members) = n
  <2>1. \A i \in 1..n : [proxy_id |-> s.members[i].proxy_id, weight |-> back(i)] \in M
    BY <1>2, <1>4
  <2> QED
    BY <1>2, <1>6, <2>1
<1>8. \A i \in 1..n : t.members[i] = [proxy_id |-> s.members[i].proxy_id, weight |-> back(i)]
  BY <1>6
<1>9. t \in PoolSpecV1
  BY <1>1, <1>3, <1>6, <1>7 DEF PoolSpecV1
<1> QED
  BY <1>5, <1>6, <1>7, <1>8, <1>9

\* A sequence is the function of its elements.
LEMMA SeqIs ==
  ASSUME NEW S, NEW s \in Seq(S)
  PROVE  /\ Len(s) \in Nat /\ DOMAIN s = 1..Len(s) /\ s = [i \in DOMAIN s |-> s[i]]
         /\ \A i \in DOMAIN s : s[i] \in S
         /\ Range(s) \subseteq S /\ \A i \in DOMAIN s : s[i] \in Range(s)
<1>1. Len(s) \in Nat /\ DOMAIN s = 1..Len(s) /\ s = [i \in DOMAIN s |-> s[i]] /\ \A i \in DOMAIN s : s[i] \in S
  OBVIOUS
<1> QED
  BY <1>1 DEF Range

\* The conditions of a rule arrive as they are,
LEMMA ConditionsTravel ==
  ASSUME NEW s \in Seq(ConditionSpec)
  PROVE  [i \in DOMAIN s |-> ConditionToProto(s[i])] = s
<1>1. \A i \in DOMAIN s : ConditionToProto(s[i]) = s[i]
  <2> SUFFICES ASSUME NEW i \in DOMAIN s PROVE ConditionToProto(s[i]) = s[i]
    OBVIOUS
  <2>1. PICK c \in ConditionSpec : c = s[i]
    BY SeqIs
  <2>2. ConditionToProto(c) = c
    BY DEF ConditionSpec, ConditionToProto
  <2> QED
    BY <2>1, <2>2
<1>2. s = [i \in DOMAIN s |-> s[i]]
  BY SeqIs
<1> QED
  BY <1>1, <1>2

\* so its match,
LEMMA MatchSpecTravels ==
  ASSUME NEW m \in MatchSpec
  PROVE  MatchSpecToProto(m) = m
<1>1. /\ m.all \in Seq(ConditionSpec) /\ m.any \in Seq(ConditionSpec) /\ m.nott \in Optional(ConditionSpec)
      /\ m = [type |-> m.type, value |-> m.value, all |-> m.all, any |-> m.any, nott |-> m.nott]
  BY DEF MatchSpec
<1>2. m.nott # None => ConditionToProto(m.nott) = m.nott
  BY <1>1 DEF Optional, ConditionSpec, ConditionToProto
<1> QED
  BY <1>1, <1>2, ConditionsTravel DEF MatchSpecToProto

RuleSpecs == [id : STRING, match : MatchSpec, target : STRING]

\* so the spec of a router.
LEMMA RouterSpecTravels ==
  ASSUME NEW s \in RouterSpecV1
  PROVE  RouterSpecFromProto(RouterSpecToProto(s)) = s
<1> DEFINE rules == s.rules
           rule(r) == [id |-> r.id, match |-> MatchSpecToProto(r.match), target |-> r.target]
<1>1. s = [rules |-> rules] /\ rules \in Seq(RuleSpecs)
  BY DEF RouterSpecV1, RuleSpecs
<1>2. \A r \in RuleSpecs : rule(r) = r
  <2> SUFFICES ASSUME NEW r \in RuleSpecs PROVE rule(r) = r
    OBVIOUS
  <2>1. r.match \in MatchSpec /\ r = [id |-> r.id, match |-> r.match, target |-> r.target]
    BY DEF RuleSpecs
  <2>2. MatchSpecToProto(r.match) = r.match
    BY <2>1, MatchSpecTravels
  <2> QED
    BY <2>1, <2>2
<1>3. rules = [i \in DOMAIN rules |-> rules[i]] /\ \A i \in DOMAIN rules : rules[i] \in RuleSpecs
  BY <1>1, SeqIs
<1>4. [i \in DOMAIN rules |-> rule(rules[i])] = rules
  <2>1. \A i \in DOMAIN rules : rule(rules[i]) = rules[i]
    BY <1>2, <1>3
  <2> HIDE DEF rule
  <2> QED
    BY <1>3, <2>1
<1>5. RouterSpecToProto(s) = [rules |-> [i \in DOMAIN rules |-> rule(rules[i])]]
  BY DEF RouterSpecToProto
<1>6. RouterSpecToProto(s) = s
  BY <1>1, <1>4, <1>5
<1>7. RouterSpecFromProto(s) = [rules |-> [i \in DOMAIN rules |-> rule(rules[i])]]
  BY DEF RouterSpecFromProto
<1> QED
  BY <1>1, <1>4, <1>6, <1>7

\* What is sent is a spec, and for any but a pool the same.
LEMMA SpecTravels ==
  ASSUME NEW k \in Kind, NEW s \in SpecV1[k]
  PROVE  Sent(k, s) \in SpecV1[k] /\ (k # "Pool" => Sent(k, s) = s)
<1>1. CASE k = "Proxy"
  BY <1>1, ProxySpecTravels DEF Sent, SpecV1
<1>2. CASE k = "Pool"
  <2>1. s \in PoolSpecV1 /\ SpecV1[k] = PoolSpecV1
    BY <1>2 DEF SpecV1
  <2>2. Sent(k, s) = PoolSpecFromProto(PoolSpecToProto(s))
    BY <1>2 DEF Sent
  <2> QED
    BY <1>2, <2>1, <2>2, PoolSpecTravels
<1>3. CASE k = "LoadBalancer"
  BY <1>3, BalancerSpecTravels DEF Sent, SpecV1
<1>4. CASE k = "Router"
  BY <1>4, RouterSpecTravels DEF Sent, SpecV1
<1>5. CASE k = "Flow"
  BY <1>5, FlowSpecTravels DEF Sent, SpecV1
<1>6. CASE k = "Entrypoint"
  BY <1>6, EntrypointSpecTravels DEF Sent, SpecV1
<1> QED
  BY <1>1, <1>2, <1>3, <1>4, <1>5, <1>6, KindsAre

\* A pool without a weight that the wire would change.
LEMMA PoolSpecKept ==
  ASSUME NEW s \in PoolSpecV1, FitInt32(s), \A m \in Range(s.members) : m.weight # 0
  PROVE  Sent("Pool", s) = s
<1> DEFINE M == [proxy_id : STRING, weight : Optional(Int)]
           t == PoolSpecFromProto(PoolSpecToProto(s))
<1>1. /\ t \in PoolSpecV1 /\ t.type = s.type /\ t.selector = s.selector
      /\ Len(t.members) = Len(s.members)
      /\ \A i \in 1..Len(s.members) :
           /\ t.members[i].proxy_id = s.members[i].proxy_id
           /\ t.members[i].weight = IF s.members[i].weight = 0 THEN None ELSE s.members[i].weight
  BY PoolSpecTravels
<1> HIDE DEF t
<1>2. s.members \in Seq(M) /\ t.members \in Seq(M)
  BY <1>1 DEF PoolSpecV1
<1>3. /\ DOMAIN s.members = 1..Len(s.members) /\ DOMAIN t.members = DOMAIN s.members
      /\ s.members = [i \in DOMAIN s.members |-> s.members[i]]
      /\ t.members = [i \in DOMAIN t.members |-> t.members[i]]
      /\ \A i \in DOMAIN s.members : s.members[i] \in M /\ t.members[i] \in M /\ s.members[i] \in Range(s.members)
  <2> HIDE DEF M
  <2> QED
    BY <1>1, <1>2, SeqIs
<1>4. \A i \in DOMAIN s.members : t.members[i] = s.members[i]
  <2> SUFFICES ASSUME NEW i \in DOMAIN s.members PROVE t.members[i] = s.members[i]
    OBVIOUS
  <2>1. t.members[i].proxy_id = s.members[i].proxy_id /\ t.members[i].weight = s.members[i].weight
    BY <1>1, <1>3
  <2>2. PICK a \in M, b \in M : a = t.members[i] /\ b = s.members[i]
    BY <1>3
  <2>3. a = b
    BY <2>1, <2>2
  <2> QED
    BY <2>2, <2>3
<1>5. t.members = s.members
  BY <1>3, <1>4
<1>6. t = s
  <2>1. PICK a \in PoolSpecV1, b \in PoolSpecV1 : a = t /\ b = s
    BY <1>1
  <2>2. a = b
    BY <1>1, <1>5, <2>1 DEF PoolSpecV1
  <2> QED
    BY <2>1, <2>2
<1> QED
  BY <1>6 DEF Sent, t

\* ChannelsAgree holds of every store.
LEMMA AgreeAlways == ChannelsAgree
<1>1. ASSUME NEW k \in Kind, NEW n \in DOMAIN store[k]
      PROVE  LET rq == Rq("delete", Name(n), None) IN
             Dashboard(store, k, rq).code = "409" <=> Client(store, k, rq).code = "FailedPrecondition"
  <2> DEFINE e == Delete(store, k, n).err
             web == Dashboard(store, k, Rq("delete", Name(n), None)).code
             rpc == Client(store, k, Rq("delete", Name(n), None)).code
  <2>1. rpc = GrpcCode(e)
    BY ClientDeletes
  <2>2. (e = "" => web = "204") /\ (e # "" => web = HttpStatus(e))
    BY DashboardDeletes
  <2>3. e \in {"", "name", "in_use", "not_found"}
    BY DEF Delete, Refused, Accepted
  <2> HIDE DEF e, web, rpc
  <2>4. web = "409" <=> rpc = "FailedPrecondition"
    BY <2>1, <2>2, <2>3, Codes, Zenon
  <2> QED
    BY <2>4 DEF web, rpc
<1>2. ASSUME NEW d \in Documents, d.meta.name # "",
             ~(d.kind = "Pool" /\ (~FitInt32(d.spec) \/ \E m \in Range(d.spec.members) : m.weight = 0))
      PROVE  LET rq == Rq("apply", d.meta, d.spec)
                 web == Dashboard(store, d.kind, rq)
                 rpc == Client(store, d.kind, rq)
             IN  web.st = rpc.st /\ (web.code = "200" <=> rpc.code = "OK")
  <2>1. d.kind \in Kind /\ d.meta \in Metadata /\ d.spec \in SpecV1[d.kind]
    BY ConfigAssumption DEF WellFormed
  <2>2. Sent(d.kind, d.spec) = d.spec
    <3>1. CASE d.kind # "Pool"
      BY <2>1, <3>1, SpecTravels
    <3>2. CASE d.kind = "Pool"
      <4>1. d.spec \in PoolSpecV1
        BY <2>1, <3>2 DEF SpecV1
      <4> QED
        BY <1>2, <3>2, <4>1, PoolSpecKept
    <3> QED
      BY <3>1, <3>2
  <2> DEFINE rq == Rq("apply", d.meta, d.spec)
             web == Dashboard(store, d.kind, rq)
             rpc == Client(store, d.kind, rq)
             a == Applied(store, d.kind, d.meta, d.spec)
  <2>3. rpc.st = a.st /\ rpc.code = GrpcCode(a.err)
    BY <2>1, <2>2, ClientApplies
  <2>4. web.st = a.st /\ web.code = HttpStatus(a.err)
    <3>1. PICK k, meta, sp : k \in Kind /\ k = d.kind /\ meta = d.meta /\ sp = d.spec
      BY <2>1, Zenon
    <3>2. k \in Kind /\ meta.name # ""
      BY <1>2, <3>1
    <3>3. Dashboard(store, k, Rq("apply", meta, sp)).st = Applied(store, k, meta, sp).st
          /\ Dashboard(store, k, Rq("apply", meta, sp)).code = HttpStatus(Applied(store, k, meta, sp).err)
      BY <3>2, DashboardApplies, ZenonT(40)
    <3> QED
      BY <3>1, <3>3, Zenon
  <2> HIDE DEF web, rpc, a
  <2>5. web.st = rpc.st /\ (web.code = "200" <=> rpc.code = "OK")
    BY <2>3, <2>4, Codes
  <2> QED
    BY <2>5 DEF web, rpc
<1> QED
  BY <1>1, <1>2, Zenon DEF ChannelsAgree

-----------------------------------------------------------------------------
(***************************************************************************)
(* ConfigPath: the invariant of the store.                                 *)
(***************************************************************************)

IsFcn(f, S) == f = [x \in S |-> f[x]]

\* What is stored of each kind passed the validation of that kind; a router is
\* stored uncompiled.
ObjectOK(k, o) ==
  CASE k = "Proxy" -> o \in Proxies /\ ProxyValidate(o)
    [] k = "Pool" -> o \in Pools /\ PoolValidate(o)
    [] k = "LoadBalancer" ->
         /\ o \in Balancers /\ o.type \in BalancerTypes
         /\ o.type = "least-bytes" => o.reset_interval \in {60, 90}
         /\ o.type # "least-bytes" => o.reset_interval = 0
    [] k = "Router" -> o = RouterFromSpecV1([name |-> o.id], o) /\ o \in Routers /\ RouterValidate(o)
    [] k = "Flow" -> o \in Flows
    [] k = "Entrypoint" -> o \in Entrypoints /\ EntrypointValidate(o)

\* The names of kind j that an object of kind k holds.
Refers(k, o, j) ==
  CASE k = "Pool" /\ j = "Proxy" -> Range(MemberIds(o))
    [] k = "LoadBalancer" /\ j = "Pool" -> {o.pool_id}
    [] k = "Router" /\ j = "LoadBalancer" -> {o.rules[i].target : i \in DOMAIN o.rules}
    [] k = "Flow" /\ j = "Router" -> {o.router_id} \ {""}
    [] k = "Flow" /\ j = "LoadBalancer" -> {o.balancer_id} \ {""}
    [] k = "Entrypoint" /\ j = "Flow" -> {o.flow_id}
    [] OTHER -> {}

Anchored(st, k, o) == \A j \in Kind : Refers(k, o, j) \subseteq DOMAIN st[j]

WeightsApply(st) ==
  \A n \in DOMAIN st["LoadBalancer"] :
    LET b == st["LoadBalancer"][n] IN b.type = "weighted" => st["Pool"][b.pool_id].type = "static"

StoreOK(st) ==
  /\ IsFcn(st, Kind)
  /\ \A k \in Kind :
       /\ IsFcn(st[k], DOMAIN st[k])
       /\ \A n \in DOMAIN st[k] :
            n \in STRING \ {""} /\ ObjectOK(k, st[k][n]) /\ st[k][n].id = n /\ Anchored(st, k, st[k][n])
  /\ WeightsApply(st)

\* What the store holds is what the manifest of the name says.
SameMembers(p, q) ==
  /\ p.id = q.id /\ p.type = q.type /\ p.selector = q.selector /\ MemberIds(p) = MemberIds(q)

AsGiven(k, n, o, g) ==
  /\ g.spec \in SpecV1[k]
  /\ k \notin {"Pool", "Router"} => o = Meaning(k, n, g)
  /\ k = "Pool" => SameMembers(o, Meaning(k, n, g)) /\ (FitInt32(g.spec) => o = Meaning(k, n, g))
  /\ k = "Router" => o = RouterFromSpecV1([name |-> n], g.spec)

Fits(st, gv) ==
  /\ IsFcn(gv, Kind)
  /\ \A k \in Kind :
       /\ DOMAIN gv[k] = DOMAIN st[k]
       /\ \A n \in DOMAIN st[k] : AsGiven(k, n, st[k][n], gv[k][n])

ApplyOK ==
  /\ DOMAIN apply = {"verdict", "docs", "todo", "before", "alone", "runs"}
  /\ Running => /\ DOMAIN apply.docs = 1..Len(apply.docs) /\ apply.todo \subseteq DOMAIN apply.docs
                /\ \A i \in DOMAIN apply.docs : WellFormed(apply.docs[i])

ConfigInv == StoreOK(store) /\ Fits(store, given) /\ ApplyOK

Without(f, x) == [m \in DOMAIN f \ {x} |-> f[m]]

\* Functions that agree on a domain.
LEMMA FcnIs ==
  ASSUME NEW S, NEW f, IsFcn(f, S), NEW g, IsFcn(g, S), \A x \in S : f[x] = g[x]
  PROVE  f = g
BY DEF IsFcn

\* What saving changes.
LEMMA PutIs ==
  ASSUME NEW st, IsFcn(st, Kind), NEW k \in Kind, NEW o
  PROVE  /\ IsFcn(Put(st, k, o), Kind)
         /\ \A j \in Kind : j # k => Put(st, k, o)[j] = st[j]
         /\ Put(st, k, o)[k] = With(st[k], o.id, o)
BY DEF Put, IsFcn

\* Saving what is there changes nothing.
LEMMA PutSame ==
  ASSUME NEW st, IsFcn(st, Kind), NEW k \in Kind, IsFcn(st[k], DOMAIN st[k]),
         NEW o, o.id \in DOMAIN st[k], st[k][o.id] = o
  PROVE  Put(st, k, o) = st
<1> DEFINE t == Put(st, k, o)
<1>1. IsFcn(t, Kind) /\ (\A j \in Kind : j # k => t[j] = st[j]) /\ t[k] = With(st[k], o.id, o)
  BY PutIs
<1> HIDE DEF t
<1>2. PICK f, n : f = st[k] /\ n = o.id
  OBVIOUS
<1>3. DOMAIN f \cup {n} = DOMAIN f /\ f[n] = o /\ IsFcn(f, DOMAIN f)
  BY <1>2
<1>4. With(f, n, o) = f
  BY <1>3 DEF With, IsFcn
<1>5. t[k] = st[k]
  BY <1>1, <1>2, <1>4
<1>6. \A j \in Kind : t[j] = st[j]
  BY <1>1, <1>5
<1> QED
  BY <1>1, <1>6, FcnIs DEF t

\* ObjectOK, kind by kind.
LEMMA ObjectArms ==
  ASSUME NEW o
  PROVE  /\ ObjectOK("Proxy", o) <=> (o \in Proxies /\ ProxyValidate(o))
         /\ ObjectOK("Pool", o) <=> (o \in Pools /\ PoolValidate(o))
         /\ ObjectOK("LoadBalancer", o) <=>
              /\ o \in Balancers /\ o.type \in BalancerTypes
              /\ o.type = "least-bytes" => o.reset_interval \in {60, 90}
              /\ o.type # "least-bytes" => o.reset_interval = 0
         /\ ObjectOK("Router", o) <=>
              (o = RouterFromSpecV1([name |-> o.id], o) /\ o \in Routers /\ RouterValidate(o))
         /\ ObjectOK("Flow", o) <=> o \in Flows
         /\ ObjectOK("Entrypoint", o) <=> (o \in Entrypoints /\ EntrypointValidate(o))
<1>1. ObjectOK("Proxy", o) <=> (o \in Proxies /\ ProxyValidate(o))
  BY Zenon DEF ObjectOK
<1>2. ObjectOK("Pool", o) <=> (o \in Pools /\ PoolValidate(o))
  BY Zenon DEF ObjectOK
<1>3. ObjectOK("LoadBalancer", o) <=>
              /\ o \in Balancers /\ o.type \in BalancerTypes
              /\ o.type = "least-bytes" => o.reset_interval \in {60, 90}
              /\ o.type # "least-bytes" => o.reset_interval = 0
  BY Zenon DEF ObjectOK
<1>4. ObjectOK("Router", o) <=>
              (o = RouterFromSpecV1([name |-> o.id], o) /\ o \in Routers /\ RouterValidate(o))
  BY Zenon DEF ObjectOK
<1>5. ObjectOK("Flow", o) <=> o \in Flows
  BY Zenon DEF ObjectOK
<1>6. ObjectOK("Entrypoint", o) <=> (o \in Entrypoints /\ EntrypointValidate(o))
  BY Zenon DEF ObjectOK
<1> QED
  BY <1>1, <1>2, <1>3, <1>4, <1>5, <1>6, Zenon

\* Refers, kind by kind.
LEMMA RefersArms ==
  ASSUME NEW o, NEW j \in Kind
  PROVE  /\ Refers("Proxy", o, j) = {}
         /\ Refers("Pool", o, j) = IF j = "Proxy" THEN Range(MemberIds(o)) ELSE {}
         /\ Refers("LoadBalancer", o, j) = IF j = "Pool" THEN {o.pool_id} ELSE {}
         /\ Refers("Router", o, j) =
              IF j = "LoadBalancer" THEN {o.rules[i].target : i \in DOMAIN o.rules} ELSE {}
         /\ Refers("Flow", o, j) =
              IF j = "Router" THEN {o.router_id} \ {""}
              ELSE IF j = "LoadBalancer" THEN {o.balancer_id} \ {""} ELSE {}
         /\ Refers("Entrypoint", o, j) = IF j = "Flow" THEN {o.flow_id} ELSE {}
<1>1. Refers("Proxy", o, j) = {}
  BY Zenon DEF Refers
<1>2. Refers("Pool", o, j) = IF j = "Proxy" THEN Range(MemberIds(o)) ELSE {}
  BY Zenon DEF Refers
<1>3. Refers("LoadBalancer", o, j) = IF j = "Pool" THEN {o.pool_id} ELSE {}
  BY Zenon DEF Refers
<1>4. Refers("Router", o, j) = IF j = "LoadBalancer" THEN {o.rules[i].target : i \in DOMAIN o.rules} ELSE {}
  BY Zenon DEF Refers
<1>5. Refers("Flow", o, j) = IF j = "Router" THEN {o.router_id} \ {""}
              ELSE IF j = "LoadBalancer" THEN {o.balancer_id} \ {""} ELSE {}
  BY Zenon DEF Refers
<1>6. Refers("Entrypoint", o, j) = IF j = "Flow" THEN {o.flow_id} ELSE {}
  BY Zenon DEF Refers
<1> QED
  BY <1>1, <1>2, <1>3, <1>4, <1>5, <1>6, Zenon

\* Nothing that is stored refers to what a delete may take away.
LEMMA NobodyRefers ==
  ASSUME NEW st, StoreOK(st), NEW j \in Kind, NEW x, x # "", Dependents(st, j, x) = {},
         NEW k \in Kind, NEW n \in DOMAIN st[k]
  PROVE  x \notin Refers(k, st[k][n], j)
<1> DEFINE o == st[k][n]
<1>1. o \in Range(st[k])
  BY DEF Range
<1> HIDE DEF o
<1>2. CASE j = "Proxy"
  <2>1. {p \in Range(st["Pool"]) : x \in Range(MemberIds(p))} = {}
    BY <1>2, Zenon DEF Dependents
  <2>2. Refers(k, o, j) = IF k = "Pool" THEN Range(MemberIds(o)) ELSE {}
    BY <1>2, KindsAre, Zenon DEF Refers
  <2> QED
    BY <1>1, <2>1, <2>2 DEF o
<1>3. CASE j = "Pool"
  <2>1. {b \in Range(st["LoadBalancer"]) : b.pool_id = x} = {}
    BY <1>3, Zenon DEF Dependents
  <2>2. Refers(k, o, j) = IF k = "LoadBalancer" THEN {o.pool_id} ELSE {}
    BY <1>3, KindsAre, Zenon DEF Refers
  <2> QED
    BY <1>1, <2>1, <2>2 DEF o
<1>4. CASE j = "LoadBalancer"
  <2>1. /\ {f \in Range(st["Flow"]) : f.balancer_id = x} = {}
        /\ {r \in Range(st["Router"]) : \E i \in DOMAIN r.rules : r.rules[i].target = x} = {}
    <3>1. {f \in Range(st["Flow"]) : f.balancer_id = x}
          \cup {r \in Range(st["Router"]) : \E i \in DOMAIN r.rules : r.rules[i].target = x} = {}
      BY <1>4, Zenon DEF Dependents
    <3> QED
      BY <3>1, Zenon
  <2>2. k = "Flow" => Refers(k, o, j) = {o.balancer_id} \ {""}
    BY <1>4, KindsAre, Zenon DEF Refers
  <2>3. k = "Router" => Refers(k, o, j) = {o.rules[i].target : i \in DOMAIN o.rules}
    BY <1>4, KindsAre, Zenon DEF Refers
  <2>4. k \notin {"Flow", "Router"} => Refers(k, o, j) = {}
    BY <1>4, KindsAre, Zenon DEF Refers
  <2>5. k = "Flow" => x \notin Refers(k, o, j)
    <3>1. k = "Flow" => o.balancer_id # x
      BY <1>1, <2>1, Zenon
    <3> QED
      BY <2>2, <3>1
  <2>6. k = "Router" => x \notin Refers(k, o, j)
    BY <1>1, <2>1, <2>3, Zenon DEF o
  <2> QED
    BY <2>4, <2>5, <2>6 DEF o
<1>5. CASE j = "Router"
  <2>1. {f \in Range(st["Flow"]) : f.router_id = x} = {}
    BY <1>5, Zenon DEF Dependents
  <2>2. Refers(k, o, j) = IF k = "Flow" THEN {o.router_id} \ {""} ELSE {}
    BY <1>5, KindsAre, Zenon DEF Refers
  <2> QED
    BY <1>1, <2>1, <2>2 DEF o
<1>6. CASE j = "Flow"
  <2>1. {e \in Range(st["Entrypoint"]) : e.flow_id = x} = {}
    BY <1>6, Zenon DEF Dependents
  <2>2. Refers(k, o, j) = IF k = "Entrypoint" THEN {o.flow_id} ELSE {}
    BY <1>6, KindsAre, Zenon DEF Refers
  <2> QED
    BY <1>1, <2>1, <2>2 DEF o
<1>7. CASE j = "Entrypoint"
  <2>1. Refers(k, o, j) = {}
    BY <1>7, KindsAre, Zenon DEF Refers
  <2> QED
    BY <2>1 DEF o
<1> QED
  BY <1>2, <1>3, <1>4, <1>5, <1>6, <1>7, KindsAre

\* StoreOK of one kind.
LEMMA StoreFacts ==
  ASSUME NEW st, StoreOK(st), NEW k \in Kind
  PROVE  /\ IsFcn(st, Kind) /\ IsFcn(st[k], DOMAIN st[k])
         /\ \A n \in DOMAIN st[k] :
              n \in STRING /\ n # "" /\ ObjectOK(k, st[k][n]) /\ st[k][n].id = n /\ Anchored(st, k, st[k][n])
BY DEF StoreOK

\* An object that is valid and refers to what is there may be saved, a pool that
\* a weighted balancer uses if it is static.
MaySave(st, k, o) ==
  /\ ObjectOK(k, o) /\ o.id \in STRING /\ o.id # "" /\ Anchored(st, k, o)
  /\ k = "Pool" /\ o.type # "static" => WeightedOver(st, o.id) = {}
  /\ k = "LoadBalancer" /\ o.type = "weighted" => st["Pool"][o.pool_id].type = "static"

\* Saving a valid object whose references exist keeps the store in order,
LEMMA SaveKeeps ==
  ASSUME NEW st, StoreOK(st), NEW k \in Kind, NEW o, MaySave(st, k, o)
  PROVE  StoreOK(Put(st, k, o))
<1> DEFINE t == Put(st, k, o)
<1>1. IsFcn(st, Kind) /\ WeightsApply(st) /\ \A j \in Kind : IsFcn(st[j], DOMAIN st[j])
  BY DEF StoreOK
<1>2. IsFcn(t, Kind) /\ (\A j \in Kind : j # k => t[j] = st[j]) /\ t[k] = With(st[k], o.id, o)
  <2>1. /\ IsFcn(Put(st, k, o), Kind) /\ \A j \in Kind : j # k => Put(st, k, o)[j] = st[j]
        /\ Put(st, k, o)[k] = With(st[k], o.id, o)
    BY <1>1, PutIs, ZenonT(40)
  <2> QED
    BY <2>1
<1>3. /\ DOMAIN t[k] = DOMAIN st[k] \cup {o.id} /\ IsFcn(t[k], DOMAIN t[k]) /\ t[k][o.id] = o
      /\ \A m \in DOMAIN st[k] : m # o.id => t[k][m] = st[k][m]
  <2>1. PICK f, n : f = st[k] /\ n = o.id
    OBVIOUS
  <2>2. /\ DOMAIN With(f, n, o) = DOMAIN f \cup {n} /\ IsFcn(With(f, n, o), DOMAIN f \cup {n})
        /\ With(f, n, o)[n] = o /\ \A m \in DOMAIN f : m # n => With(f, n, o)[m] = f[m]
    BY DEF With, IsFcn
  <2> QED
    BY <1>2, <2>1, <2>2
<1> HIDE DEF t
<1>4. \A j \in Kind : IsFcn(t[j], DOMAIN t[j]) /\ DOMAIN st[j] \subseteq DOMAIN t[j]
  BY <1>1, <1>2, <1>3
<1>5. \A j \in Kind : \A x : Anchored(st, j, x) => Anchored(t, j, x)
  BY <1>4 DEF Anchored
<1>6. ASSUME NEW j \in Kind, NEW n \in DOMAIN t[j]
      PROVE  n \in STRING \ {""} /\ ObjectOK(j, t[j][n]) /\ t[j][n].id = n /\ Anchored(t, j, t[j][n])
  <2>1. CASE j = k /\ n = o.id
    BY <1>3, <1>5, <2>1 DEF MaySave
  <2>2. CASE ~(j = k /\ n = o.id)
    <3>1. n \in DOMAIN st[j] /\ t[j][n] = st[j][n]
      BY <1>2, <1>3, <2>2
    <3>2. n \in STRING /\ n # "" /\ ObjectOK(j, st[j][n]) /\ st[j][n].id = n /\ Anchored(st, j, st[j][n])
      BY <3>1, StoreFacts
    <3> QED
      BY <1>5, <3>1, <3>2
  <2> QED
    BY <2>1, <2>2
<1>7. ASSUME NEW n \in DOMAIN t["LoadBalancer"], t["LoadBalancer"][n].type = "weighted"
      PROVE  t["Pool"][t["LoadBalancer"][n].pool_id].type = "static"
  <2>1. "LoadBalancer" \in Kind /\ "Pool" \in Kind
    BY KindsAre
  <2>2. PICK b : b = t["LoadBalancer"][n]
    OBVIOUS
  <2>3. CASE k = "LoadBalancer" /\ n = o.id
    <3>1. b = o /\ t["Pool"] = st["Pool"]
      BY <1>2, <1>3, <2>1, <2>2, <2>3
    <3> QED
      BY <1>7, <2>2, <2>3, <3>1 DEF MaySave
  <2>4. CASE ~(k = "LoadBalancer" /\ n = o.id)
    <3>1. n \in DOMAIN st["LoadBalancer"] /\ b = st["LoadBalancer"][n]
      BY <1>2, <1>3, <2>1, <2>2, <2>4
    <3>2. st["Pool"][b.pool_id].type = "static"
      BY <1>1, <1>7, <2>2, <3>1 DEF WeightsApply
    <3>3. b.pool_id \in DOMAIN st["Pool"]
      <4>1. Anchored(st, "LoadBalancer", b)
        BY <2>1, <3>1, StoreFacts
      <4>2. Refers("LoadBalancer", b, "Pool") = {b.pool_id}
        BY <2>1, RefersArms
      <4> QED
        BY <2>1, <4>1, <4>2 DEF Anchored
    <3>4. CASE k = "Pool" /\ b.pool_id = o.id
      <4>1. b \in WeightedOver(st, o.id)
        BY <1>7, <2>2, <3>1, <3>4 DEF WeightedOver, Range
      <4>2. t["Pool"][b.pool_id] = o
        BY <1>3, <3>4
      <4> QED
        BY <2>2, <3>4, <4>1, <4>2 DEF MaySave
    <3>5. CASE ~(k = "Pool" /\ b.pool_id = o.id)
      <4>1. t["Pool"][b.pool_id] = st["Pool"][b.pool_id]
        BY <1>2, <1>3, <2>1, <3>3, <3>5
      <4> QED
        BY <2>2, <3>2, <4>1
    <3> QED
      BY <3>4, <3>5
  <2> QED
    BY <2>3, <2>4
<1>8. WeightsApply(t)
  BY <1>7 DEF WeightsApply
<1>9. StoreOK(t)
  BY <1>2, <1>4, <1>6, <1>8 DEF StoreOK
<1> QED
  BY <1>9 DEF t

\* and so does deleting one that nothing refers to.
LEMMA DeleteKeeps ==
  ASSUME NEW st, StoreOK(st), NEW k \in Kind, NEW x, x # "", Dependents(st, k, x) = {}
  PROVE  StoreOK(Drop(st, k, x))
<1>1. IsFcn(st, Kind) /\ WeightsApply(st) /\ \A j \in Kind : IsFcn(st[j], DOMAIN st[j])
  BY DEF StoreOK
<1> DEFINE t == Drop(st, k, x)
<1>2. IsFcn(t, Kind) /\ (\A j \in Kind : j # k => t[j] = st[j]) /\ t[k] = Without(st[k], x)
  BY <1>1 DEF Drop, Without, IsFcn
<1> HIDE DEF t
<1>3. /\ DOMAIN t[k] = DOMAIN st[k] \ {x} /\ IsFcn(t[k], DOMAIN t[k])
      /\ \A m \in DOMAIN st[k] : m # x => t[k][m] = st[k][m]
  BY <1>2 DEF Without, IsFcn
<1>4. \A j \in Kind : IsFcn(t[j], DOMAIN t[j]) /\ DOMAIN t[j] \subseteq DOMAIN st[j]
  BY <1>1, <1>2, <1>3
<1>5. \A j \in Kind : \A n \in DOMAIN t[j] : t[j][n] = st[j][n]
  BY <1>2, <1>3
<1>6. ASSUME NEW j \in Kind, NEW n \in DOMAIN t[j]
      PROVE  n \in STRING \ {""} /\ ObjectOK(j, t[j][n]) /\ t[j][n].id = n /\ Anchored(t, j, t[j][n])
  <2>1. n \in DOMAIN st[j] /\ t[j][n] = st[j][n]
    BY <1>4, <1>5
  <2>2. n \in STRING /\ n # "" /\ ObjectOK(j, st[j][n]) /\ st[j][n].id = n /\ Anchored(st, j, st[j][n])
    BY <2>1, StoreFacts
  <2>3. x \notin Refers(j, st[j][n], k)
    BY <2>1, NobodyRefers
  <2>4. ASSUME NEW i \in Kind PROVE Refers(j, st[j][n], i) \subseteq DOMAIN t[i]
    <3>1. Refers(j, st[j][n], i) \subseteq DOMAIN st[i]
      BY <2>2 DEF Anchored
    <3> QED
      BY <1>2, <1>3, <2>3, <3>1
  <2>5. Anchored(t, j, st[j][n])
    BY <2>4 DEF Anchored
  <2> QED
    BY <2>1, <2>2, <2>5
<1>7. ASSUME NEW n \in DOMAIN t["LoadBalancer"], t["LoadBalancer"][n].type = "weighted"
      PROVE  t["Pool"][t["LoadBalancer"][n].pool_id].type = "static"
  <2>1. "LoadBalancer" \in Kind /\ "Pool" \in Kind
    BY KindsAre
  <2>2. PICK b : b = t["LoadBalancer"][n]
    OBVIOUS
  <2>3. b = st["LoadBalancer"][n] /\ n \in DOMAIN st["LoadBalancer"]
    BY <1>4, <1>5, <2>1, <2>2
  <2>4. st["Pool"][b.pool_id].type = "static"
    BY <1>1, <1>7, <2>2, <2>3 DEF WeightsApply
  <2>5. b.pool_id \in DOMAIN t["Pool"]
    <3>1. Anchored(t, "LoadBalancer", b)
      BY <1>6, <2>1, <2>2
    <3>2. Refers("LoadBalancer", b, "Pool") = {b.pool_id}
      BY <2>1, RefersArms
    <3> QED
      BY <2>1, <3>1, <3>2 DEF Anchored
  <2> QED
    BY <1>5, <2>1, <2>2, <2>4, <2>5
<1>8. WeightsApply(t)
  BY <1>7 DEF WeightsApply
<1> QED
  BY <1>2, <1>4, <1>6, <1>8 DEF StoreOK, t

-----------------------------------------------------------------------------
(***************************************************************************)
(* ConfigPath: what the apply of each kind does.                           *)
(***************************************************************************)

\* The object an accepted manifest makes.
Made(st, k, meta, s) ==
  CASE k = "Proxy" ->
         KeepAuth(Find(st, "Proxy", ProxyFromSpecV1(Named(meta), s).id), s, ProxyFromSpecV1(Named(meta), s))
    [] k = "Pool" -> PoolFromSpecV1(Named(meta), s)
    [] k = "LoadBalancer" -> BalancerFromSpecV1(Named(meta), s)
    [] k = "Router" -> RouterFromSpecV1(Named(meta), s)
    [] k = "Flow" -> FlowFromSpecV1(Named(meta), s)
    [] k = "Entrypoint" -> EntrypointFromSpecV1(Named(meta), s)

ConditionTyped(c) == c = None \/ (c.type \in STRING /\ c.value \in Seq(STRING))

\* Saving a router drops what compiling it added.
LEMMA SavedUncompiled ==
  ASSUME NEW meta, NEW s, NEW st, \A i \in DOMAIN s.rules : ConditionTyped(s.rules[i].match.nott)
  PROVE  LET r == RouterFromSpecV1(meta, s) IN SaveRouter(st, Compile(r)) = Put(st, "Router", r)
<1> DEFINE r == RouterFromSpecV1(meta, s)
           c == Compile(r)
<1>1. /\ r.id = meta.name /\ DOMAIN r.rules = DOMAIN s.rules
      /\ \A i \in DOMAIN s.rules : 
           /\ r.rules[i].id = s.rules[i].id /\ r.rules[i].match = MatchFromSpec(s.rules[i].match)
           /\ r.rules[i].target = s.rules[i].target
  BY DEF RouterFromSpecV1
<1>2. /\ c.id = r.id /\ DOMAIN c.rules = DOMAIN s.rules
      /\ \A i \in DOMAIN s.rules :
           /\ c.rules[i].id = r.rules[i].id /\ c.rules[i].match = CompileMatch(r.rules[i].match)
           /\ c.rules[i].target = r.rules[i].target
  BY <1>1 DEF Compile
<1> HIDE DEF r, c
<1>3. ASSUME NEW x, ConditionTyped(x.nott) PROVE MatchFromSpec(CompileMatch(MatchFromSpec(x))) = MatchFromSpec(x)
  <2> DEFINE y == MatchFromSpec(x)
             z == CompileMatch(y)
  <2>1. /\ y.type = x.type /\ y.value = x.value
        /\ DOMAIN y.all = DOMAIN x.all /\ DOMAIN y.any = DOMAIN x.any
        /\ \A i \in DOMAIN x.all : y.all[i] = Uncompiled(x.all[i])
        /\ \A i \in DOMAIN x.any : y.any[i] = Uncompiled(x.any[i])
        /\ x.nott = None => y.nott = None
        /\ x.nott # None => y.nott = Uncompiled(x.nott)
    BY DEF MatchFromSpec
  <2>2. /\ z.type = y.type /\ z.value = y.value
        /\ DOMAIN z.all = DOMAIN y.all /\ DOMAIN z.any = DOMAIN y.any
        /\ \A i \in DOMAIN y.all : z.all[i] = CompileCondition(y.all[i])
        /\ \A i \in DOMAIN y.any : z.any[i] = CompileCondition(y.any[i])
        /\ y.nott = None => z.nott = None
        /\ y.nott # None => z.nott = CompileCondition(y.nott)
    BY DEF CompileMatch
  <2> HIDE DEF y, z
  <2>3. \A q : Uncompiled(CompileCondition(Uncompiled(q))) = Uncompiled(q)
    BY DEF Uncompiled, CompileCondition
  <2>4. \A i \in DOMAIN x.all : Uncompiled(z.all[i]) = Uncompiled(x.all[i])
    BY <2>1, <2>2, <2>3
  <2>5. \A i \in DOMAIN x.any : Uncompiled(z.any[i]) = Uncompiled(x.any[i])
    BY <2>1, <2>2, <2>3
  <2>6. [i \in DOMAIN z.all |-> Uncompiled(z.all[i])] = [i \in DOMAIN x.all |-> Uncompiled(x.all[i])]
    BY <2>1, <2>2, <2>4
  <2>7. [i \in DOMAIN z.any |-> Uncompiled(z.any[i])] = [i \in DOMAIN x.any |-> Uncompiled(x.any[i])]
    BY <2>1, <2>2, <2>5
  <2>8. (IF z.nott = None THEN None ELSE Uncompiled(z.nott)) = IF x.nott = None THEN None ELSE Uncompiled(x.nott)
    <3>1. CASE x.nott = None
      BY <2>1, <2>2, <3>1
    <3>2. CASE x.nott # None
      <4>1. PICK q : q = x.nott /\ q.type \in STRING /\ q.value \in Seq(STRING)
        BY <1>3, <3>2 DEF ConditionTyped
      <4>2. Uncompiled(q) \in RouterCondition /\ CompileCondition(Uncompiled(q)) \in RouterCondition
        BY <4>1 DEF Uncompiled, CompileCondition, RouterCondition, Optional
      <4>3. y.nott = Uncompiled(q) /\ y.nott # None
        BY <2>1, <3>2, <4>1, <4>2, NilAssumption
      <4>4. z.nott = CompileCondition(Uncompiled(q)) /\ z.nott # None
        BY <2>2, <4>2, <4>3, NilAssumption
      <4>5. Uncompiled(z.nott) = Uncompiled(q)
        BY <2>3, <4>4
      <4> QED
        BY <3>2, <4>1, <4>4, <4>5
    <3> QED
      BY <3>1, <3>2
  <2>9. MatchFromSpec(z) = MatchFromSpec(x)
    BY <2>1, <2>2, <2>6, <2>7, <2>8 DEF MatchFromSpec
  <2> QED
    BY <2>9 DEF z, y
<1>4. RouterFromSpecV1([name |-> c.id], c) = r
  <2>1. \A i \in DOMAIN s.rules : c.rules[i].id = s.rules[i].id /\ c.rules[i].target = s.rules[i].target
                                  /\ MatchFromSpec(c.rules[i].match) = MatchFromSpec(s.rules[i].match)
    <3> SUFFICES ASSUME NEW i \in DOMAIN s.rules
                 PROVE  c.rules[i].id = s.rules[i].id /\ c.rules[i].target = s.rules[i].target
                        /\ MatchFromSpec(c.rules[i].match) = MatchFromSpec(s.rules[i].match)
      OBVIOUS
    <3>1. r.rules[i].id = s.rules[i].id /\ r.rules[i].target = s.rules[i].target /\ r.rules[i].match = MatchFromSpec(s.rules[i].match)
      BY <1>1
    <3>2. c.rules[i].id = r.rules[i].id /\ c.rules[i].target = r.rules[i].target
          /\ c.rules[i].match = CompileMatch(r.rules[i].match)
      BY <1>2
    <3>3. MatchFromSpec(CompileMatch(MatchFromSpec(s.rules[i].match))) = MatchFromSpec(s.rules[i].match)
      BY <1>3
    <3> QED
      BY <3>1, <3>2, <3>3
  <2>2. [i \in DOMAIN c.rules |->
                [id |-> c.rules[i].id, match |-> MatchFromSpec(c.rules[i].match),
                 target |-> c.rules[i].target]]
        = [i \in DOMAIN s.rules |->
                [id |-> s.rules[i].id, match |-> MatchFromSpec(s.rules[i].match),
                 target |-> s.rules[i].target]]
    BY <1>2, <2>1
  <2> QED
    BY <1>1, <1>2, <2>2 DEF RouterFromSpecV1, r
<1> QED
  BY <1>4 DEF SaveRouter, r, c

\* A call that is refused leaves the store alone.
Acceptance(a, st, o) == a.err = "" /\ a.st = st /\ a.obj = o
Refusal(st, a) == a.err # "" /\ a.st = st /\ a.obj = None

\* Refused and Accepted are the two outcomes.
LEMMA RefusedIs ==
  ASSUME NEW st
  PROVE  \A e \in {"spec", "conversion", "invalid", "missing_ref", "weighted", "requires static pool",
                   "name", "in_use", "not_found"} : Refusal(st, Refused(st, e))
BY DEF Refusal, Refused

\* What is accepted.
LEMMA AcceptedIs ==
  ASSUME NEW st, NEW o
  PROVE  Acceptance(Accepted(st, o), st, o)
BY DEF Acceptance, Accepted

\* What the apply of each kind does: a proxy
LEMMA ProxyApplied ==
  ASSUME NEW st, NEW meta, NEW s
  PROVE  LET a == ApplyProxyV1(st, meta, s)
             p == ProxyFromSpecV1(Named(meta), s)
             o == Made(st, "Proxy", meta, s)
         IN  \/ Refusal(st, a)
             \/ /\ Acceptance(a, Put(st, "Proxy", o), o)
                /\ ProxySpecValidate(s) /\ p # None /\ ProxyValidate(p)
<1> DEFINE a == ApplyProxyV1(st, meta, s)
           p == ProxyFromSpecV1(Named(meta), s)
           o == KeepAuth(Find(st, "Proxy", p.id), s, p)
<1>1. \/ a = Refused(st, "spec") \/ a = Refused(st, "conversion") \/ a = Refused(st, "invalid")
      \/ a = Accepted(SaveProxy(st, o), o) /\ ProxySpecValidate(s) /\ p # None /\ ProxyValidate(p)
  BY Zenon DEF ApplyProxyV1
<1>2. Made(st, "Proxy", meta, s) = o
  BY Zenon DEF Made
<1> HIDE DEF a, p, o
<1>3. a = Refused(st, "spec") \/ a = Refused(st, "conversion") \/ a = Refused(st, "invalid") => Refusal(st, a)
  BY RefusedIs, Zenon
<1>4. a = Accepted(SaveProxy(st, o), o) => Acceptance(a, Put(st, "Proxy", o), o)
  BY AcceptedIs, Zenon DEF SaveProxy
<1> QED
  BY <1>1, <1>2, <1>3, <1>4 DEF a, p

\* A pool: its members exist, and stay static while a weighted balancer uses it.
LEMMA PoolApplied ==
  ASSUME NEW st, NEW meta, NEW s
  PROVE  LET a == ApplyPoolV1(st, meta, s)
             o == PoolFromSpecV1(Named(meta), s)
         IN  \/ Refusal(st, a)
             \/ /\ Acceptance(a, Put(st, "Pool", o), o)
                /\ PoolSpecValidate(s) /\ PoolValidate(o) /\ Range(MemberIds(o)) \subseteq DOMAIN st["Proxy"]
                /\ o.type # "static" => WeightedOver(st, o.id) = {}
<1> DEFINE a == ApplyPoolV1(st, meta, s)
           o == PoolFromSpecV1(Named(meta), s)
<1>1. \/ a = Refused(st, "spec") \/ a = Refused(st, "invalid") \/ a = Refused(st, "missing_ref")
      \/ a = Refused(st, "weighted")
      \/ /\ a = Accepted(SavePool(st, o), o) /\ PoolSpecValidate(s) /\ PoolValidate(o)
         /\ Range(MemberIds(o)) \subseteq DOMAIN st["Proxy"] /\ (o.type # "static" => WeightedOver(st, o.id) = {})
  BY Zenon DEF ApplyPoolV1, Missing
<1> HIDE DEF a, o
<1>2. a = Refused(st, "spec") \/ a = Refused(st, "invalid") \/ a = Refused(st, "missing_ref")
      \/ a = Refused(st, "weighted") => Refusal(st, a)
  BY RefusedIs, Zenon
<1>3. a = Accepted(SavePool(st, o), o) => Acceptance(a, Put(st, "Pool", o), o)
  BY AcceptedIs, Zenon DEF SavePool
<1> QED
  BY <1>1, <1>2, <1>3 DEF a, o

\* A balancer: its pool exists, and is static for a weighted one.
LEMMA BalancerApplied ==
  ASSUME NEW st, NEW meta, NEW s
  PROVE  LET a == ApplyBalancerV1(st, meta, s)
             o == BalancerFromSpecV1(Named(meta), s)
         IN  \/ Refusal(st, a)
             \/ /\ Acceptance(a, Put(st, "LoadBalancer", o), o)
                /\ BalancerSpecValidate(s) /\ o.pool_id \in DOMAIN st["Pool"]
                /\ o.type = "weighted" => st["Pool"][o.pool_id].type = "static"
<1> DEFINE a == ApplyBalancerV1(st, meta, s)
           o == BalancerFromSpecV1(Named(meta), s)
<1>1. \/ a = Refused(st, "spec") \/ a = Refused(st, "missing_ref") \/ a = Refused(st, "requires static pool")
      \/ /\ a = Accepted(SaveBalancer(st, o), o) /\ BalancerSpecValidate(s) /\ {o.pool_id} \subseteq DOMAIN st["Pool"]
         /\ o.type = "weighted" => st["Pool"][o.pool_id].type = "static"
  BY Zenon DEF ApplyBalancerV1, Missing
<1> HIDE DEF a, o
<1>2. a = Refused(st, "spec") \/ a = Refused(st, "missing_ref") \/ a = Refused(st, "requires static pool")
      => Refusal(st, a)
  BY RefusedIs, Zenon
<1>3. a = Accepted(SaveBalancer(st, o), o) => Acceptance(a, Put(st, "LoadBalancer", o), o)
  BY AcceptedIs, Zenon DEF SaveBalancer
<1> QED
  BY <1>1, <1>2, <1>3 DEF a, o

\* A router: the balancers of its rules exist.
LEMMA RouterApplied ==
  ASSUME NEW st, NEW meta, NEW s, \A i \in DOMAIN s.rules : ConditionTyped(s.rules[i].match.nott)
  PROVE  LET a == ApplyRouterV1(st, meta, s)
             o == RouterFromSpecV1(Named(meta), s)
         IN  \/ Refusal(st, a)
             \/ /\ Acceptance(a, Put(st, "Router", o), Compile(o))
                /\ RouterSpecValidate(s) /\ RouterValidate(o)
                /\ {o.rules[i].target : i \in DOMAIN o.rules} \subseteq DOMAIN st["LoadBalancer"]
<1> DEFINE a == ApplyRouterV1(st, meta, s)
           o == RouterFromSpecV1(Named(meta), s)
<1>1. \/ a = Refused(st, "spec") \/ a = Refused(st, "invalid") \/ a = Refused(st, "missing_ref")
      \/ /\ a = Accepted(SaveRouter(st, Compile(o)), Compile(o)) /\ RouterSpecValidate(s) /\ RouterValidate(o)
         /\ {o.rules[i].target : i \in DOMAIN o.rules} \subseteq DOMAIN st["LoadBalancer"]
  BY Zenon DEF ApplyRouterV1, Missing
<1>2. SaveRouter(st, Compile(o)) = Put(st, "Router", o)
  BY SavedUncompiled
<1> HIDE DEF a, o
<1>3. a = Refused(st, "spec") \/ a = Refused(st, "invalid") \/ a = Refused(st, "missing_ref")
      => Refusal(st, a)
  BY RefusedIs, Zenon
<1>4. a = Accepted(SaveRouter(st, Compile(o)), Compile(o)) => Acceptance(a, Put(st, "Router", o), Compile(o))
  BY <1>2, AcceptedIs, Zenon
<1> QED
  BY <1>1, <1>3, <1>4, Zenon DEF a, o

\* A flow: the router or the balancer it names exists.
LEMMA FlowApplied ==
  ASSUME NEW st, NEW meta, NEW s
  PROVE  LET a == ApplyFlowV1(st, meta, s)
             o == FlowFromSpecV1(Named(meta), s)
         IN  \/ Refusal(st, a)
             \/ /\ Acceptance(a, Put(st, "Flow", o), o)
                /\ {o.router_id} \ {""} \subseteq DOMAIN st["Router"]
                /\ {o.balancer_id} \ {""} \subseteq DOMAIN st["LoadBalancer"]
<1> DEFINE a == ApplyFlowV1(st, meta, s)
           o == FlowFromSpecV1(Named(meta), s)
<1>1. \/ a = Refused(st, "spec") \/ a = Refused(st, "missing_ref")
      \/ /\ a = Accepted(SaveFlow(st, o), o)
         /\ {o.router_id} \ {""} \subseteq DOMAIN st["Router"]
         /\ {o.balancer_id} \ {""} \subseteq DOMAIN st["LoadBalancer"]
  BY Zenon DEF ApplyFlowV1, Missing
<1> HIDE DEF a, o
<1>2. a = Refused(st, "spec") \/ a = Refused(st, "missing_ref") => Refusal(st, a)
  BY RefusedIs, Zenon
<1>3. a = Accepted(SaveFlow(st, o), o) => Acceptance(a, Put(st, "Flow", o), o)
  BY AcceptedIs, Zenon DEF SaveFlow
<1> QED
  BY <1>1, <1>2, <1>3, Zenon DEF a, o

\* An entrypoint: its flow exists.
LEMMA EntrypointApplied ==
  ASSUME NEW st, NEW meta, NEW s
  PROVE  LET a == ApplyEntrypointV1(st, meta, s)
             o == EntrypointFromSpecV1(Named(meta), s)
         IN  \/ Refusal(st, a)
             \/ /\ Acceptance(a, Put(st, "Entrypoint", o), o)
                /\ EntrypointValidate(o) /\ o.flow_id \in DOMAIN st["Flow"]
<1> DEFINE a == ApplyEntrypointV1(st, meta, s)
           o == EntrypointFromSpecV1(Named(meta), s)
<1>1. \/ a = Refused(st, "spec") \/ a = Refused(st, "invalid") \/ a = Refused(st, "missing_ref")
      \/ /\ a = Accepted(SaveEntrypoint(st, o), o)
         /\ EntrypointValidate(o) /\ {o.flow_id} \subseteq DOMAIN st["Flow"]
  BY Zenon DEF ApplyEntrypointV1, Missing
<1> HIDE DEF a, o
<1>2. a = Refused(st, "spec") \/ a = Refused(st, "invalid") \/ a = Refused(st, "missing_ref") => Refusal(st, a)
  BY RefusedIs, Zenon
<1>3. a = Accepted(SaveEntrypoint(st, o), o) => Acceptance(a, Put(st, "Entrypoint", o), o)
  BY AcceptedIs, Zenon DEF SaveEntrypoint
<1> QED
  BY <1>1, <1>2, <1>3 DEF a, o

-----------------------------------------------------------------------------
(***************************************************************************)
(* ConfigPath: the object that is saved.                                   *)
(***************************************************************************)

\* Every applied object has a name.
LEMMA NamedIs ==
  ASSUME NEW meta \in Metadata
  PROVE  /\ Named(meta) \in Metadata /\ Named(meta).name \in STRING \ {""} /\ Named(meta).labels = meta.labels
         /\ meta.name # "" => Named(meta) = meta
<1>1. meta.name \in STRING /\ meta.labels \in LabelMaps
  BY DEF Metadata
<1>2. CASE meta.name = ""
  <2>1. Named(meta) = [meta EXCEPT !.name = GeneratedName]
    BY <1>2 DEF Named
  <2> QED
    BY <1>1, <1>2, <2>1, NameAssumption DEF Metadata
<1>3. CASE meta.name # ""
  <2>1. Named(meta) = meta
    BY <1>3 DEF Named
  <2> QED
    BY <1>1, <1>3, <2>1
<1> QED
  BY <1>2, <1>3

\* The credentials of a proxy after an apply.
AuthAfter(st, n, s) ==
  IF s.url # None THEN s.url.user
  ELSE IF s.auth # None THEN s.auth
  ELSE IF n \in DOMAIN st["Proxy"] THEN st["Proxy"][n].auth ELSE None

ProtocolOf(s) == IF s.url = None THEN s.protocol ELSE IF s.url.scheme = "" THEN "http" ELSE s.url.scheme
HostOf(s) == IF s.url = None THEN s.host ELSE s.url.host
PortOf(s) == IF s.url = None THEN s.port ELSE s.url.port

ProxyWritten(n, labels, s, auth) ==
  [id |-> n, labels |-> labels, auth |-> auth, protocol |-> ProtocolOf(s), host |-> HostOf(s), port |-> PortOf(s)]

\* The proxy a manifest stands for.
LEMMA ProxyRead ==
  ASSUME NEW meta \in Metadata, NEW s \in ProxySpecV1, NEW p, p = ProxyFromSpecV1(meta, s), p # None,
         NEW own, own = (IF s.url # None THEN s.url.user ELSE s.auth)
  PROVE  /\ p = ProxyWritten(meta.name, meta.labels, s, own) /\ own \in Optional(AuthSpec)
         /\ ProtocolOf(s) \in STRING /\ HostOf(s) \in STRING /\ PortOf(s) \in Port
<1>1. meta.name \in STRING /\ meta.labels \in LabelMaps
  BY DEF Metadata
<1>2. /\ s.url \in Optional(ProxyURL) /\ s.protocol \in STRING /\ s.host \in STRING /\ s.port \in Port
      /\ s.auth \in Optional(AuthSpec)
  BY DEF ProxySpecV1
<1>3. CASE s.url = None
  <2>1. own = s.auth /\ ProtocolOf(s) = s.protocol /\ HostOf(s) = s.host /\ PortOf(s) = s.port
    BY <1>3 DEF ProtocolOf, HostOf, PortOf
  <2>2. PICK u : u = [protocol |-> s.protocol, host |-> s.host, port |-> s.port, auth |-> s.auth]
    OBVIOUS
  <2>3. u \in Upstreams
    BY <1>2, <2>2 DEF Upstreams
  <2>4. u # None
    BY <2>3, NilAssumption
  <2>5. p = [id |-> meta.name, protocol |-> u.protocol, host |-> u.host,
             port |-> u.port, auth |-> u.auth, labels |-> meta.labels]
    BY <1>3, <2>2, <2>4, Zenon DEF ProxyFromSpecV1
  <2>6. u.protocol = s.protocol /\ u.host = s.host /\ u.port = s.port /\ u.auth = s.auth
    BY <2>2
  <2>7. p = ProxyWritten(meta.name, meta.labels, s, own)
    BY <2>1, <2>5, <2>6 DEF ProxyWritten
  <2> QED
    BY <1>2, <2>1, <2>7
<1>4. CASE s.url # None
  <2>1. PICK x : x = s.url /\ x \in ProxyURL
    BY <1>2, <1>4 DEF Optional
  <2>2. x.scheme \in STRING /\ x.host \in STRING /\ x.user \in Optional(AuthSpec)
    BY <2>1 DEF ProxyURL
  <2>3. own = x.user /\ HostOf(s) = x.host /\ PortOf(s) = x.port
    BY <1>4, <2>1 DEF HostOf, PortOf
  <2>4. PICK y : y = IF x.scheme = "" THEN "http" ELSE x.scheme
    OBVIOUS
  <2>5. ProtocolOf(s) = y
    BY <1>4, <2>1, <2>4, Zenon DEF ProtocolOf
  <2>6. y \in STRING
    <3>1. CASE x.scheme = ""
      <4>1. y = "http"
        BY <2>4, <3>1, Zenon
      <4> QED
        BY <4>1, TextAssumption, Zenon DEF DefaultProtocol
    <3>2. CASE x.scheme # ""
      BY <2>2, <2>4, <3>2
    <3> QED
      BY <3>1, <3>2
  <2>7. PICK u : u = NewProxyFromURL(x)
    OBVIOUS
  <2>8. u = None => p = None
    BY <1>4, <2>1, <2>7, Zenon DEF ProxyFromSpecV1
  <2>9. x.port # None /\ x.port \in Port /\ u = [protocol |-> y, host |-> x.host, port |-> x.port, auth |-> x.user]
    BY <2>4, <2>7, <2>8, Zenon DEF NewProxyFromURL, DefaultProtocol
  <2>10. u # None
    BY <2>8
  <2>11. p = [id |-> meta.name, protocol |-> u.protocol, host |-> u.host,
              port |-> u.port, auth |-> u.auth, labels |-> meta.labels]
    BY <1>4, <2>1, <2>7, <2>10, Zenon DEF ProxyFromSpecV1
  <2>12. u.protocol = y /\ u.host = x.host /\ u.port = x.port /\ u.auth = x.user
    BY <2>9
  <2>13. p = ProxyWritten(meta.name, meta.labels, s, own)
    BY <2>3, <2>5, <2>11, <2>12 DEF ProxyWritten
  <2> QED
    BY <2>2, <2>3, <2>5, <2>6, <2>9, <2>13
<1> QED
  BY <1>3, <1>4

\* The one that is saved, with the password it keeps.
LEMMA ProxyMade ==
  ASSUME NEW st, StoreOK(st), NEW meta \in Metadata, NEW s \in ProxySpecV1,
         ProxyFromSpecV1(Named(meta), s) # None
  PROVE  LET n == Named(meta).name
             p == ProxyFromSpecV1(Named(meta), s)
             o == Made(st, "Proxy", meta, s)
         IN  /\ o \in Proxies /\ o = ProxyWritten(n, meta.labels, s, AuthAfter(st, n, s))
             /\ o.id = n /\ o.protocol = p.protocol /\ o.host = p.host /\ o.port = p.port
<1>1. PICK mt \in Metadata : mt = Named(meta)
  BY NamedIs
<1>2. PICK n : n = mt.name
  OBVIOUS
<1>3. n \in STRING /\ mt.labels = meta.labels /\ meta.labels \in LabelMaps
  BY <1>1, <1>2, NamedIs DEF Metadata
<1>4. PICK p, own : p = ProxyFromSpecV1(mt, s) /\ own = (IF s.url # None THEN s.url.user ELSE s.auth)
  OBVIOUS
<1>5. /\ p = ProxyWritten(n, meta.labels, s, own) /\ own \in Optional(AuthSpec)
      /\ ProtocolOf(s) \in STRING /\ HostOf(s) \in STRING /\ PortOf(s) \in Port
  <2>1. p # None
    BY <1>1, <1>4
  <2>2. /\ p = ProxyWritten(mt.name, mt.labels, s, own) /\ own \in Optional(AuthSpec)
        /\ ProtocolOf(s) \in STRING /\ HostOf(s) \in STRING /\ PortOf(s) \in Port
    BY <1>4, <2>1, ProxyRead
  <2> QED
    BY <1>2, <1>3, <2>2
<1>6. \A auth \in Optional(AuthSpec) : ProxyWritten(n, meta.labels, s, auth) \in Proxies
  BY <1>3, <1>5 DEF ProxyWritten, Proxies
<1>7. \A auth : /\ ProxyWritten(n, meta.labels, s, auth).id = n
                /\ ProxyWritten(n, meta.labels, s, auth).protocol = p.protocol
                /\ ProxyWritten(n, meta.labels, s, auth).host = p.host
                /\ ProxyWritten(n, meta.labels, s, auth).port = p.port
                /\ [p EXCEPT !.auth = auth] = ProxyWritten(n, meta.labels, s, auth)
  BY <1>5 DEF ProxyWritten
<1>8. PICK old : old = Find(st, "Proxy", n)
  OBVIOUS
<1>9. PICK o : o = KeepAuth(old, s, p)
  OBVIOUS
<1>10. Made(st, "Proxy", meta, s) = o
  <2>1. Made(st, "Proxy", meta, s) = KeepAuth(Find(st, "Proxy", ProxyFromSpecV1(Named(meta), s).id), s, ProxyFromSpecV1(Named(meta), s))
    BY Zenon DEF Made
  <2>2. p.id = n
    BY <1>5, <1>7
  <2> QED
    BY <1>1, <1>4, <1>8, <1>9, <2>1, <2>2
<1>11. n \in DOMAIN st["Proxy"] => old = st["Proxy"][n] /\ old \in Proxies
  <2>1. n \in DOMAIN st["Proxy"] => ObjectOK("Proxy", st["Proxy"][n])
    BY KindsAre, StoreFacts
  <2>2. n \in DOMAIN st["Proxy"] => st["Proxy"][n] \in Proxies
    BY <2>1, ObjectArms
  <2> QED
    BY <1>8, <2>2 DEF Find
<1>12. n \notin DOMAIN st["Proxy"] => old = None
  BY <1>8 DEF Find
<1>13. o = ProxyWritten(n, meta.labels, s, AuthAfter(st, n, s)) /\ AuthAfter(st, n, s) \in Optional(AuthSpec)
  <2>1. CASE old # None /\ s.url = None /\ s.auth = None
    <3>1. old = st["Proxy"][n] /\ old \in Proxies /\ n \in DOMAIN st["Proxy"]
      BY <1>11, <1>12, <2>1
    <3>2. o = [p EXCEPT !.auth = old.auth]
      BY <1>9, <2>1, Zenon DEF KeepAuth
    <3>3. AuthAfter(st, n, s) = old.auth
      BY <2>1, <3>1, Zenon DEF AuthAfter
    <3>4. old.auth \in Optional(AuthSpec)
      BY <3>1 DEF Proxies
    <3> QED
      BY <1>7, <3>2, <3>3, <3>4
  <2>2. CASE ~(old # None /\ s.url = None /\ s.auth = None)
    <3>1. o = p
      BY <1>9, <2>2, Zenon DEF KeepAuth
    <3>2. AuthAfter(st, n, s) = own
      <4>1. n \in DOMAIN st["Proxy"] => old # None
        BY <1>11, NilAssumption
      <4> QED
        BY <1>4, <2>2, <4>1 DEF AuthAfter
    <3> QED
      BY <1>5, <3>1, <3>2
  <2> QED
    BY <2>1, <2>2
<1>14. /\ o \in Proxies /\ o.id = n /\ o.protocol = p.protocol /\ o.host = p.host /\ o.port = p.port
  BY <1>6, <1>7, <1>13
<1> QED
  BY <1>1, <1>2, <1>4, <1>10, <1>13, <1>14

\* The durations a manifest may say.
LEMMA DurationsAre ==
  /\ DOMAIN ParseDuration = {"0s", "90s", "1m30s", "1m", "1m0s"}
  /\ ParseDuration["0s"] = 0 /\ ParseDuration["90s"] = 90 /\ ParseDuration["1m30s"] = 90
  /\ ParseDuration["1m"] = 60 /\ ParseDuration["1m0s"] = 60
  /\ DOMAIN DurationString = {60, 90} /\ DurationString[60] = "1m0s" /\ DurationString[90] = "1m30s"
<1>1. DOMAIN ParseDuration = {"0s", "90s", "1m30s", "1m", "1m0s"}
  BY DEF ParseDuration
<1>2. ParseDuration["0s"] = 0
  BY Zenon DEF ParseDuration
<1>3. ParseDuration["90s"] = 90
  BY Zenon DEF ParseDuration
<1>4. ParseDuration["1m30s"] = 90
  BY Zenon DEF ParseDuration
<1>5. ParseDuration["1m"] = 60
  BY Zenon DEF ParseDuration
<1>6. ParseDuration["1m0s"] = 60
  BY Zenon DEF ParseDuration
<1>7. DOMAIN DurationString = {60, 90} /\ DurationString[60] = "1m0s" /\ DurationString[90] = "1m30s"
  BY DEF DurationString
<1> QED
  BY <1>1, <1>2, <1>3, <1>4, <1>5, <1>6, <1>7

\* They are naturals.
LEMMA Seconds ==
  /\ \A d : d \in {60, 90} => d \in Nat
  /\ \A d : d = 0 => d \in Nat
  /\ \A d : d \in {0, 60, 90} /\ d > 0 => d \in {60, 90}
  /\ \A d : d = 60 \/ d = 90 => d # 0 /\ d \in {0, 60, 90}
  /\ \A d : d = 0 => d \in {0, 60, 90}
OBVIOUS

\* A manifest's text parses to one of three durations.
LEMMA ParsedIs ==
  ASSUME NEW t \in DOMAIN ParseDuration
  PROVE  ParseDuration[t] \in {0, 60, 90} /\ (ParseDuration[t] = 0 => t = "0s") /\ t # ""
<1>1. t = "0s" \/ t = "90s" \/ t = "1m30s" \/ t = "1m" \/ t = "1m0s"
  BY DurationsAre
<1>2. t = "0s" => ParseDuration[t] = 0
  BY DurationsAre
<1>3. t = "90s" \/ t = "1m30s" => ParseDuration[t] = 90
  <2>1. t = "90s" => ParseDuration[t] = 90
    BY DurationsAre
  <2>2. t = "1m30s" => ParseDuration[t] = 90
    BY DurationsAre
  <2> QED
    BY <2>1, <2>2
<1>4. t = "1m" \/ t = "1m0s" => ParseDuration[t] = 60
  <2>1. t = "1m" => ParseDuration[t] = 60
    BY DurationsAre
  <2>2. t = "1m0s" => ParseDuration[t] = 60
    BY DurationsAre
  <2> QED
    BY <2>1, <2>2
<1>5. t # "0s" => ParseDuration[t] = 60 \/ ParseDuration[t] = 90
  BY <1>1, <1>3, <1>4, Zenon
<1>6. ParseDuration[t] = 60 \/ ParseDuration[t] = 90 => ParseDuration[t] # 0
  BY Seconds, Zenon
<1>7. ParseDuration[t] \in {0, 60, 90}
  BY <1>2, <1>5, Seconds, Zenon
<1>8. ParseDuration[t] = 0 => t = "0s"
  BY <1>5, <1>6, Zenon
<1>9. t # ""
  BY <1>1
<1> QED
  BY <1>7, <1>8, <1>9, Zenon

\* A record of these fields is a balancer.
LEMMA BalancerShaped ==
  ASSUME NEW n \in STRING, NEW a \in STRING, NEW b \in STRING, NEW r \in Nat,
         NEW o, o = [id |-> n, type |-> a, pool_id |-> b, reset_interval |-> r]
  PROVE  o \in Balancers /\ o.id = n /\ o.type = a /\ o.pool_id = b /\ o.reset_interval = r
BY DEF Balancers

IntervalOf(s) ==
  IF s.type # "least-bytes" THEN 0 ELSE IF s.reset_interval = "" THEN 60 ELSE ParseDuration[s.reset_interval]

\* The interval of an accepted spec.
LEMMA IntervalIs ==
  ASSUME NEW s \in BalancerSpecV1, BalancerSpecValidate(s)
  PROVE  /\ s.type = "least-bytes" => ResolvedResetInterval(s) = IntervalOf(s) /\ IntervalOf(s) \in {60, 90}
         /\ s.type # "least-bytes" => IntervalOf(s) = 0
<1>1. s.type # "least-bytes" => IntervalOf(s) = 0
  BY Zenon DEF IntervalOf
<1>2. ASSUME s.type = "least-bytes" PROVE ResolvedResetInterval(s) = IntervalOf(s) /\ IntervalOf(s) \in {60, 90}
  <2>1. CASE s.reset_interval = ""
    <3>1. s.reset_interval \notin DOMAIN ParseDuration
      BY <2>1, ParsedIs
    <3>2. ResolvedResetInterval(s) = 60
      BY <3>1, Zenon DEF ResolvedResetInterval, DefaultLeastBytesResetInterval
    <3>3. IntervalOf(s) = 60
      BY <1>2, <2>1, Zenon DEF IntervalOf
    <3> QED
      BY <3>2, <3>3
  <2>2. CASE s.reset_interval # ""
    <3>1. s.reset_interval \in DOMAIN ParseDuration /\ ParseDuration[s.reset_interval] > 0
      BY <2>2 DEF BalancerSpecValidate
    <3>2. ResolvedResetInterval(s) = ParseDuration[s.reset_interval]
      BY <3>1, Zenon DEF ResolvedResetInterval
    <3>3. IntervalOf(s) = ParseDuration[s.reset_interval]
      BY <1>2, <2>2, Zenon DEF IntervalOf
    <3>4. ParseDuration[s.reset_interval] \in {60, 90}
      BY <3>1, ParsedIs, Seconds, Zenon
    <3> QED
      BY <3>2, <3>3, <3>4, Zenon
  <2> QED
    BY <2>1, <2>2
<1> QED
  BY <1>1, <1>2

\* What an accepted spec of a balancer makes,
LEMMA BalancerMade ==
  ASSUME NEW meta \in Metadata, NEW s \in BalancerSpecV1, BalancerSpecValidate(s)
  PROVE  LET o == BalancerFromSpecV1(Named(meta), s) IN
         /\ ObjectOK("LoadBalancer", o) /\ o.id = Named(meta).name
         /\ o = [id |-> Named(meta).name, type |-> s.type, pool_id |-> s.pool_id, reset_interval |-> IntervalOf(s)]
<1>1. s.type \in STRING /\ s.pool_id \in STRING /\ s.reset_interval \in STRING /\ Named(meta).name \in STRING
  BY NamedIs DEF BalancerSpecV1
<1>2. (IF s.type = "least-bytes" THEN ResolvedResetInterval(s) ELSE 0) = IntervalOf(s)
  BY IntervalIs, Zenon
<1>3. BalancerFromSpecV1(Named(meta), s)
      = [id |-> Named(meta).name, type |-> s.type, pool_id |-> s.pool_id, reset_interval |-> IntervalOf(s)]
  BY <1>2, Zenon DEF BalancerFromSpecV1
<1>4. IntervalOf(s) \in Nat
  <2>1. s.type = "least-bytes" => IntervalOf(s) \in {60, 90}
    BY IntervalIs
  <2>2. s.type # "least-bytes" => IntervalOf(s) = 0
    BY IntervalIs
  <2>3. CASE s.type = "least-bytes"
    <3>1. IntervalOf(s) \in {60, 90}
      BY <2>1, <2>3
    <3> QED
      BY <3>1, Seconds
  <2>4. CASE s.type # "least-bytes"
    <3>1. IntervalOf(s) = 0
      BY <2>2, <2>4
    <3> QED
      BY <3>1
  <2> QED
    BY <2>3, <2>4
<1>5. PICK n, a, b, r : n = Named(meta).name /\ a = s.type /\ b = s.pool_id /\ r = IntervalOf(s)
  OBVIOUS
<1>6. PICK o : o = [id |-> n, type |-> a, pool_id |-> b, reset_interval |-> r]
  OBVIOUS
<1>7. o \in Balancers /\ o.id = n /\ o.type = a /\ o.reset_interval = r
  <2>1. n \in STRING /\ a \in STRING /\ b \in STRING /\ r \in Nat
    BY <1>1, <1>4, <1>5
  <2> QED
    BY <1>6, <2>1, BalancerShaped
<1>8. BalancerFromSpecV1(Named(meta), s) = o
  BY <1>3, <1>5, <1>6, Zenon
<1>9. o.type \in BalancerTypes
  BY <1>5, <1>7 DEF BalancerSpecValidate
<1>10. ObjectOK("LoadBalancer", o)
  <2>1. o.type = "least-bytes" => o.reset_interval \in {60, 90}
    <3>1. s.type = "least-bytes" => IntervalOf(s) \in {60, 90}
      BY IntervalIs
    <3> QED
      BY <1>5, <1>7, <3>1, ZenonT(40)
  <2>2. o.type # "least-bytes" => o.reset_interval = 0
    BY <1>5, <1>7, IntervalIs, Zenon
  <2> QED
    BY <1>7, <1>9, <2>1, <2>2, ObjectArms
<1> QED
  BY <1>3, <1>5, <1>7, <1>8, <1>10, Zenon

\* of a flow,
LEMMA FlowMade ==
  ASSUME NEW meta \in Metadata, NEW s \in FlowSpecV1, NEW o, o = FlowFromSpecV1(Named(meta), s)
  PROVE  ObjectOK("Flow", o) /\ o.id = Named(meta).name
<1>1. Named(meta).name \in STRING
  BY NamedIs
<1>2. o \in Flows /\ o.id = Named(meta).name
  BY <1>1 DEF FlowFromSpecV1, FlowSpecV1, Flows
<1> QED
  BY <1>2, ObjectArms

\* of an entrypoint,
LEMMA EntrypointMade ==
  ASSUME NEW meta \in Metadata, NEW s \in EntrypointSpecV1, NEW o, o = EntrypointFromSpecV1(Named(meta), s),
         EntrypointValidate(o)
  PROVE  ObjectOK("Entrypoint", o) /\ o.id = Named(meta).name
<1>1. Named(meta).name \in STRING
  BY NamedIs
<1>2. o \in Entrypoints /\ o.id = Named(meta).name
  BY <1>1 DEF EntrypointFromSpecV1, EntrypointSpecV1, Entrypoints
<1> QED
  BY <1>2, ObjectArms

WrittenWeight(w) == IF w \in {None, 0} THEN 1 ELSE w
MembersWritten(ms) ==
  [i \in DOMAIN ms |-> [proxy_id |-> ms[i].proxy_id, weight |-> WrittenWeight(ms[i].weight)]]
PoolWritten(n, labels, s) ==
  [id |-> n, labels |-> labels, type |-> s.type, selector |-> s.selector, members |-> MembersWritten(s.members)]

MemberSpecs == [proxy_id : STRING, weight : Optional(Int)]
Members == [proxy_id : STRING, weight : Int]

\* The members of a pool, defaults filled in.
LEMMA MembersWrittenType ==
  ASSUME NEW ms \in Seq(MemberSpecs)
  PROVE  MembersWritten(ms) \in Seq(Members)
<1>1. Len(ms) \in Nat /\ DOMAIN ms = 1..Len(ms)
  BY SeqIs
<1>2. ASSUME NEW i \in DOMAIN ms
      PROVE  [proxy_id |-> ms[i].proxy_id, weight |-> WrittenWeight(ms[i].weight)] \in Members
  <2>1. ms[i] \in MemberSpecs
    BY SeqIs
  <2>2. ms[i].proxy_id \in STRING /\ ms[i].weight \in Optional(Int)
    BY <2>1 DEF MemberSpecs
  <2>3. WrittenWeight(ms[i].weight) \in Int
    BY <2>2 DEF WrittenWeight, Optional
  <2> QED
    BY <2>2, <2>3 DEF Members
<1> QED
  BY <1>1, <1>2 DEF MembersWritten

\* of a pool,
LEMMA PoolMade ==
  ASSUME NEW meta \in Metadata, NEW s \in PoolSpecV1, PoolSpecValidate(s),
         PoolValidate(PoolFromSpecV1(Named(meta), s))
  PROVE  LET o == PoolFromSpecV1(Named(meta), s) IN
         /\ ObjectOK("Pool", o) /\ o.id = Named(meta).name
         /\ o = PoolWritten(Named(meta).name, meta.labels, s)
<1> DEFINE n == Named(meta).name
           o == PoolFromSpecV1(Named(meta), s)
<1>1. n \in STRING /\ Named(meta).labels = meta.labels /\ meta.labels \in LabelMaps
  BY NamedIs DEF Metadata
<1>2. s.type \in STRING /\ s.selector \in Optional(LabelMaps) /\ s.members \in Seq(MemberSpecs)
  BY DEF PoolSpecV1, MemberSpecs
<1>3. \/ s.type = "static" /\ s.selector = None /\ \A m \in Range(s.members) : m.weight # None => m.weight >= 1
      \/ s.type = "dynamic" /\ s.members = <<>>
  BY Zenon DEF PoolSpecValidate
<1>4. (IF s.type = "dynamic" THEN s.selector ELSE None) = s.selector
  BY <1>3, Zenon
<1>5. (IF s.type # "static" THEN <<>>
       ELSE [i \in DOMAIN s.members |-> [proxy_id |-> s.members[i].proxy_id, weight |-> ResolvedWeight(s.members[i])]])
      = MembersWritten(s.members)
  <2>1. CASE s.type = "static"
    <3>1. ASSUME NEW i \in DOMAIN s.members PROVE ResolvedWeight(s.members[i]) = WrittenWeight(s.members[i].weight)
      <4>1. s.members[i] \in Range(s.members) /\ s.members[i] \in MemberSpecs
        BY <1>2, SeqIs
      <4>2. PICK w : w = s.members[i].weight
        OBVIOUS
      <4>3. w \in Optional(Int) /\ (w # None => w >= 1)
        <5>1. w \in Optional(Int)
          BY <4>1, <4>2 DEF MemberSpecs
        <5>2. w # None => w >= 1
          BY <1>3, <2>1, <4>1, <4>2
        <5> QED
          BY <5>1, <5>2
      <4>4. w \notin {0}
        BY <4>3, NilAssumption DEF Optional
      <4>5. WrittenWeight(w) = IF w = None THEN 1 ELSE w
        BY <4>4 DEF WrittenWeight
      <4> QED
        BY <4>2, <4>5 DEF ResolvedWeight
    <3>2. [i \in DOMAIN s.members |-> [proxy_id |-> s.members[i].proxy_id, weight |-> ResolvedWeight(s.members[i])]]
          = MembersWritten(s.members)
      BY <3>1 DEF MembersWritten
    <3> QED
      BY <2>1, <3>2, Zenon
  <2>2. CASE s.type # "static"
    <3>1. s.members = <<>>
      BY <1>3, <2>2
    <3>2. MembersWritten(<<>>) = <<>>
      BY DEF MembersWritten
    <3> QED
      BY <2>2, <3>1, <3>2, Zenon
  <2> QED
    BY <2>1, <2>2
<1>6. o = [id |-> n, type |-> s.type, labels |-> Named(meta).labels, members |-> MembersWritten(s.members), selector |-> s.selector]
  BY <1>4, <1>5, Zenon DEF PoolFromSpecV1
<1>7. PICK m \in Seq(Members) : m = MembersWritten(s.members)
  BY <1>2, MembersWrittenType
<1>8. PICK a, b, c : a = n /\ b = s.type /\ c = s.selector
  OBVIOUS
<1>9. a \in STRING /\ b \in STRING /\ c \in Optional(LabelMaps)
  BY <1>1, <1>2, <1>8
<1> HIDE DEF o, n
<1>10. o = [id |-> a, type |-> b, labels |-> meta.labels, members |-> m, selector |-> c]
  BY <1>1, <1>6, <1>7, <1>8
<1>11. o.id = a /\ o \in Pools
  BY <1>1, <1>9, <1>10 DEF Pools, Members
<1>12. o = PoolWritten(n, meta.labels, s)
  BY <1>7, <1>8, <1>10 DEF PoolWritten
<1>13. ObjectOK("Pool", o)
  BY <1>11, ObjectArms DEF o
<1> QED
  BY <1>8, <1>11, <1>12, <1>13 DEF o, n

Rules == [id : STRING, match : RouterMatch, target : STRING]

\* A condition as it is stored,
LEMMA UncompiledType ==
  ASSUME NEW c \in ConditionSpec
  PROVE  Uncompiled(c) \in RouterCondition /\ Uncompiled(c) # None
<1>1. Uncompiled(c) \in RouterCondition
  BY DEF Uncompiled, ConditionSpec, RouterCondition, Optional
<1> QED
  BY <1>1, NilAssumption

\* which drops the compiled part once and for all,
LEMMA UncompiledAgain ==
  ASSUME NEW c PROVE Uncompiled(Uncompiled(c)) = Uncompiled(c)
BY DEF Uncompiled

\* a list of them,
LEMMA UncompiledSeq ==
  ASSUME NEW s \in Seq(ConditionSpec)
  PROVE  [i \in DOMAIN s |-> Uncompiled(s[i])] \in Seq(RouterCondition)
<1>1. Len(s) \in Nat /\ DOMAIN s = 1..Len(s)
  BY SeqIs
<1>2. \A i \in DOMAIN s : Uncompiled(s[i]) \in RouterCondition
  <2> SUFFICES ASSUME NEW i \in DOMAIN s PROVE Uncompiled(s[i]) \in RouterCondition
    OBVIOUS
  <2>1. s[i] \in ConditionSpec
    BY SeqIs
  <2> QED
    BY <2>1, UncompiledType
<1> QED
  BY <1>1, <1>2

\* a match,
LEMMA MatchFromSpecType ==
  ASSUME NEW m \in MatchSpec
  PROVE  MatchFromSpec(m) \in RouterMatch /\ MatchFromSpec(MatchFromSpec(m)) = MatchFromSpec(m)
<1>1. /\ m.type \in STRING /\ m.value \in Seq(STRING) /\ m.all \in Seq(ConditionSpec) /\ m.any \in Seq(ConditionSpec)
      /\ m.nott \in Optional(ConditionSpec)
  BY DEF MatchSpec
<1>2. PICK a, b, q :
        /\ a = [i \in DOMAIN m.all |-> Uncompiled(m.all[i])]
        /\ b = [i \in DOMAIN m.any |-> Uncompiled(m.any[i])]
        /\ q = IF m.nott = None THEN None ELSE Uncompiled(m.nott)
  OBVIOUS
<1>3. MatchFromSpec(m) = [type |-> m.type, value |-> m.value, re |-> None, all |-> a, any |-> b, nott |-> q]
  BY <1>2, Zenon DEF MatchFromSpec
<1>4. a \in Seq(RouterCondition) /\ b \in Seq(RouterCondition)
  BY <1>1, <1>2, UncompiledSeq
<1>5. q \in Optional(RouterCondition) /\ (q # None => Uncompiled(q) = q)
  <2>1. CASE m.nott = None
    BY <1>2, <2>1 DEF Optional
  <2>2. CASE m.nott # None
    <3>1. m.nott \in ConditionSpec /\ q = Uncompiled(m.nott)
      BY <1>1, <1>2, <2>2 DEF Optional
    <3> QED
      BY <3>1, UncompiledType, UncompiledAgain DEF Optional
  <2> QED
    BY <2>1, <2>2
<1>6. PICK t, v : t = m.type /\ v = m.value
  OBVIOUS
<1>7. [type |-> t, value |-> v, re |-> None, all |-> a, any |-> b, nott |-> q] \in RouterMatch
  BY <1>1, <1>4, <1>5, <1>6 DEF RouterMatch, Optional
<1>8. [i \in DOMAIN a |-> Uncompiled(a[i])] = a /\ [i \in DOMAIN b |-> Uncompiled(b[i])] = b
  BY <1>2, UncompiledAgain
<1>9. PICK y : y = [type |-> t, value |-> v, re |-> None, all |-> a, any |-> b, nott |-> q]
  OBVIOUS
<1>10. y.type = t /\ y.value = v /\ y.all = a /\ y.any = b /\ y.nott = q
  BY <1>9
<1>11. MatchFromSpec(y) = y
  <2>1. (IF y.nott = None THEN None ELSE Uncompiled(y.nott)) = q
    BY <1>5, <1>10
  <2> QED
    BY <1>8, <1>9, <1>10, <2>1 DEF MatchFromSpec
<1> QED
  BY <1>3, <1>6, <1>7, <1>9, <1>11

\* and of a router.
LEMMA RouterMade ==
  ASSUME NEW meta \in Metadata, NEW s \in RouterSpecV1
  PROVE  LET o == RouterFromSpecV1(Named(meta), s) IN
         /\ o.id = Named(meta).name /\ o \in Routers /\ o = RouterFromSpecV1([name |-> o.id], o)
         /\ o = RouterFromSpecV1([name |-> Named(meta).name], s)
         /\ \A i \in DOMAIN s.rules : ConditionTyped(s.rules[i].match.nott)
<1>1. PICK n : n = Named(meta).name /\ n \in STRING
  BY NamedIs
<1>2. s.rules \in Seq(RuleSpecs)
  BY DEF RouterSpecV1, RuleSpecs
<1>3. PICK rules : rules = s.rules
  OBVIOUS
<1>4. Len(rules) \in Nat /\ DOMAIN rules = 1..Len(rules) /\ \A i \in DOMAIN rules : rules[i] \in RuleSpecs
  BY <1>2, <1>3, SeqIs
<1>5. \A i \in DOMAIN rules : rules[i].id \in STRING /\ rules[i].match \in MatchSpec /\ rules[i].target \in STRING
  BY <1>4 DEF RuleSpecs
<1>6. PICK made : made = [i \in DOMAIN rules |->
        [id |-> rules[i].id, match |-> MatchFromSpec(rules[i].match), target |-> rules[i].target]]
  OBVIOUS
<1>7. RouterFromSpecV1(Named(meta), s) = [id |-> n, rules |-> made]
  BY <1>1, <1>3, <1>6 DEF RouterFromSpecV1
<1>8. RouterFromSpecV1([name |-> n], s) = [id |-> n, rules |-> made]
  BY <1>3, <1>6 DEF RouterFromSpecV1
<1>9. \A i \in DOMAIN rules : made[i].id = rules[i].id /\ made[i].target = rules[i].target
                              /\ made[i].match = MatchFromSpec(rules[i].match)
  BY <1>6
<1>10. \A i \in DOMAIN rules : MatchFromSpec(rules[i].match) \in RouterMatch
                               /\ MatchFromSpec(MatchFromSpec(rules[i].match)) = MatchFromSpec(rules[i].match)
  BY <1>5, MatchFromSpecType
<1>11. made \in Seq(Rules)
  <2>1. \A i \in 1..Len(rules) :
          [id |-> rules[i].id, match |-> MatchFromSpec(rules[i].match), target |-> rules[i].target] \in Rules
    BY <1>4, <1>5, <1>10 DEF Rules
  <2> QED
    BY <1>4, <1>6, <2>1
<1>12. PICK o : o = [id |-> n, rules |-> made]
  OBVIOUS
<1>13. o.id = n /\ o.rules = made /\ DOMAIN made = DOMAIN rules
  BY <1>6, <1>12
<1>14. o \in Routers
  BY <1>1, <1>11, <1>12 DEF Routers, Rules
<1>15. \A i \in DOMAIN rules :
         [id |-> made[i].id, match |-> MatchFromSpec(made[i].match), target |-> made[i].target]
         = [id |-> rules[i].id, match |-> MatchFromSpec(rules[i].match), target |-> rules[i].target]
  BY <1>9, <1>10
<1>16. [i \in DOMAIN made |-> [id |-> made[i].id, match |-> MatchFromSpec(made[i].match), target |-> made[i].target]] = made
  BY <1>6, <1>13, <1>15
<1>17. RouterFromSpecV1([name |-> o.id], o) = o
  BY <1>12, <1>13, <1>16 DEF RouterFromSpecV1
<1>18. ASSUME NEW i \in DOMAIN rules PROVE ConditionTyped(rules[i].match.nott)
  <2>1. PICK c : c = rules[i].match.nott
    OBVIOUS
  <2>2. c \in Optional(ConditionSpec)
    BY <1>5, <2>1 DEF MatchSpec
  <2> QED
    BY <2>1, <2>2 DEF ConditionTyped, ConditionSpec, Optional
<1> QED
  BY <1>1, <1>3, <1>7, <1>8, <1>12, <1>13, <1>14, <1>17, <1>18

-----------------------------------------------------------------------------
(***************************************************************************)
(* ConfigPath: the outcome of a call.                                      *)
(***************************************************************************)

\* A call either leaves the store or saves o, which is valid there, under n.
Outcome(st, a, k, n, o) ==
  \/ Refusal(st, a)
  \/ a.err = "" /\ a.st = Put(st, k, o) /\ (k = "Proxy" => a.obj = o) /\ o.id = n /\ MaySave(st, k, o)

\* An accepted call saves an object that may be saved.
LEMMA OutcomeIs ==
  ASSUME NEW st, NEW k \in Kind, NEW a, NEW n, n \in STRING \ {""}, NEW o, NEW x,
         Acceptance(a, Put(st, k, o), x), k = "Proxy" => x = o,
         o.id = n, ObjectOK(k, o), Anchored(st, k, o),
         k = "Pool" => o.type = "static" \/ WeightedOver(st, o.id) = {},
         k = "LoadBalancer" => o.type # "weighted" \/ st["Pool"][o.pool_id].type = "static"
  PROVE  Outcome(st, a, k, n, o)
<1>1. o.id \in STRING
  OBVIOUS
<1>2. o.id # ""
  OBVIOUS
<1>3. MaySave(st, k, o)
  BY <1>1, <1>2, Zenon DEF MaySave, Anchored, Anchored
<1>4. a.err = "" /\ a.st = Put(st, k, o) /\ (k = "Proxy" => a.obj = o)
  BY Zenon DEF Acceptance
<1> QED
  BY <1>3, <1>4, Zenon DEF Outcome

\* The outcome of an apply: a proxy,
LEMMA ProxyOutcome ==
  ASSUME NEW st, StoreOK(st), NEW meta \in Metadata, NEW s \in ProxySpecV1
  PROVE  Outcome(st, ApplyProxyV1(st, meta, s), "Proxy", Named(meta).name,
                 ProxyWritten(Named(meta).name, meta.labels, s, AuthAfter(st, Named(meta).name, s)))
<1> DEFINE a == ApplyProxyV1(st, meta, s)
           p == ProxyFromSpecV1(Named(meta), s)
           o == Made(st, "Proxy", meta, s)
           n == Named(meta).name
           w == ProxyWritten(n, meta.labels, s, AuthAfter(st, n, s))
<1>1. n \in STRING \ {""} /\ "Proxy" \in Kind
  BY NamedIs, KindsAre
<1>2. CASE Refusal(st, a)
  BY <1>2, Zenon DEF Outcome
<1>3. CASE ~Refusal(st, a)
  <2>1. Acceptance(a, Put(st, "Proxy", o), o) /\ p # None /\ ProxyValidate(p)
    BY <1>3, ProxyApplied
  <2>2. o \in Proxies /\ o = w /\ o.id = n /\ o.protocol = p.protocol /\ o.host = p.host /\ o.port = p.port
    BY <2>1, ProxyMade
  <2> HIDE DEF p, o, w, n, a
  <2>3. ObjectOK("Proxy", o)
    BY <2>1, <2>2, ObjectArms DEF ProxyValidate
  <2>4. Anchored(st, "Proxy", o)
    BY RefersArms DEF Anchored
  <2>5. Outcome(st, a, "Proxy", n, o)
    BY <1>1, <2>1, <2>2, <2>3, <2>4, OutcomeIs
  <2> QED
    BY <2>2, <2>5 DEF a, n, w
<1> QED
  BY <1>2, <1>3

\* a pool,
LEMMA PoolOutcome ==
  ASSUME NEW st, StoreOK(st), NEW meta \in Metadata, NEW s \in PoolSpecV1
  PROVE  Outcome(st, ApplyPoolV1(st, meta, s), "Pool", Named(meta).name, PoolWritten(Named(meta).name, meta.labels, s))
<1> DEFINE a == ApplyPoolV1(st, meta, s)
           o == PoolFromSpecV1(Named(meta), s)
           n == Named(meta).name
           w == PoolWritten(n, meta.labels, s)
<1>1. n \in STRING \ {""} /\ "Pool" \in Kind /\ "Proxy" \in Kind
  BY NamedIs, KindsAre
<1>2. CASE Refusal(st, a)
  BY <1>2, Zenon DEF Outcome
<1>3. CASE ~Refusal(st, a)
  <2>1. /\ Acceptance(a, Put(st, "Pool", o), o) /\ PoolSpecValidate(s) /\ PoolValidate(o)
        /\ Range(MemberIds(o)) \subseteq DOMAIN st["Proxy"]
        /\ o.type # "static" => WeightedOver(st, o.id) = {}
    BY <1>3, PoolApplied
  <2>2. ObjectOK("Pool", o) /\ o.id = n /\ o = w
    BY <2>1, PoolMade
  <2> HIDE DEF o, w, n, a
  <2>3. Anchored(st, "Pool", o)
    BY <2>1, RefersArms DEF Anchored
  <2>4. Outcome(st, a, "Pool", n, o)
    BY <1>1, <2>1, <2>2, <2>3, OutcomeIs
  <2> QED
    BY <2>2, <2>4 DEF a, n, w
<1> QED
  BY <1>2, <1>3

BalancerWritten(n, s) ==
  [id |-> n, type |-> s.type, pool_id |-> s.pool_id, reset_interval |-> IntervalOf(s)]

\* a balancer,
LEMMA BalancerOutcome ==
  ASSUME NEW st, StoreOK(st), NEW meta \in Metadata, NEW s \in BalancerSpecV1
  PROVE  Outcome(st, ApplyBalancerV1(st, meta, s), "LoadBalancer", Named(meta).name,
                 BalancerWritten(Named(meta).name, s))
<1> DEFINE a == ApplyBalancerV1(st, meta, s)
           o == BalancerFromSpecV1(Named(meta), s)
           n == Named(meta).name
           w == BalancerWritten(n, s)
<1>1. n \in STRING \ {""} /\ "LoadBalancer" \in Kind
  BY NamedIs, KindsAre
<1>2. CASE Refusal(st, a)
  BY <1>2, Zenon DEF Outcome
<1>3. CASE ~Refusal(st, a)
  <2>1. /\ Acceptance(a, Put(st, "LoadBalancer", o), o) /\ BalancerSpecValidate(s)
        /\ o.pool_id \in DOMAIN st["Pool"]
        /\ o.type = "weighted" => st["Pool"][o.pool_id].type = "static"
    BY <1>3, BalancerApplied
  <2>2. ObjectOK("LoadBalancer", o) /\ o.id = n /\ o = w
    BY <2>1, BalancerMade DEF BalancerWritten
  <2> HIDE DEF o, w, n, a
  <2>3. Anchored(st, "LoadBalancer", o)
    <3>1. ASSUME NEW j \in Kind PROVE Refers("LoadBalancer", o, j) \subseteq DOMAIN st[j]
      <4>1. j = "Pool" => Refers("LoadBalancer", o, j) = {o.pool_id}
        BY RefersArms
      <4>2. j # "Pool" => Refers("LoadBalancer", o, j) = {}
        BY RefersArms
      <4> QED
        BY <2>1, <4>1, <4>2
    <3> QED
      BY <3>1, Zenon DEF Anchored
  <2>4. Outcome(st, a, "LoadBalancer", n, o)
    BY <1>1, <2>1, <2>2, <2>3, OutcomeIs
  <2> QED
    BY <2>2, <2>4 DEF a, n, w
<1> QED
  BY <1>2, <1>3

\* a router,
LEMMA RouterOutcome ==
  ASSUME NEW st, StoreOK(st), NEW meta \in Metadata, NEW s \in RouterSpecV1
  PROVE  Outcome(st, ApplyRouterV1(st, meta, s), "Router", Named(meta).name,
                 RouterFromSpecV1([name |-> Named(meta).name], s))
<1> DEFINE a == ApplyRouterV1(st, meta, s)
           o == RouterFromSpecV1(Named(meta), s)
           n == Named(meta).name
           w == RouterFromSpecV1([name |-> n], s)
<1>1. n \in STRING \ {""} /\ "Router" \in Kind
  BY NamedIs, KindsAre
<1>2. CASE Refusal(st, a)
  BY <1>2, Zenon DEF Outcome
<1>3. CASE ~Refusal(st, a)
  <2>1. o.id = n /\ o \in Routers /\ o = RouterFromSpecV1([name |-> o.id], o) /\ o = w
        /\ \A i \in DOMAIN s.rules : ConditionTyped(s.rules[i].match.nott)
    BY RouterMade
  <2>2. /\ Acceptance(a, Put(st, "Router", o), Compile(o)) /\ RouterSpecValidate(s) /\ RouterValidate(o)
        /\ {o.rules[i].target : i \in DOMAIN o.rules} \subseteq DOMAIN st["LoadBalancer"]
    BY <1>3, <2>1, RouterApplied
  <2> HIDE DEF o, w, n, a
  <2>3. ObjectOK("Router", o)
    BY <2>1, <2>2, ObjectArms
  <2>4. Anchored(st, "Router", o)
    BY <2>2, RefersArms DEF Anchored
  <2>5. Outcome(st, a, "Router", n, o)
    BY <1>1, <2>1, <2>2, <2>3, <2>4, OutcomeIs
  <2> QED
    BY <2>1, <2>5 DEF a, n, w
<1> QED
  BY <1>2, <1>3

\* a flow,
LEMMA FlowOutcome ==
  ASSUME NEW st, StoreOK(st), NEW meta \in Metadata, NEW s \in FlowSpecV1
  PROVE  Outcome(st, ApplyFlowV1(st, meta, s), "Flow", Named(meta).name,
                 FlowFromSpecV1([name |-> Named(meta).name], s))
<1> DEFINE a == ApplyFlowV1(st, meta, s)
           o == FlowFromSpecV1(Named(meta), s)
           n == Named(meta).name
           w == FlowFromSpecV1([name |-> n], s)
<1>1. n \in STRING \ {""} /\ "Flow" \in Kind
  BY NamedIs, KindsAre
<1>2. CASE Refusal(st, a)
  BY <1>2, Zenon DEF Outcome
<1>3. CASE ~Refusal(st, a)
  <2>1. /\ Acceptance(a, Put(st, "Flow", o), o)
        /\ {o.router_id} \ {""} \subseteq DOMAIN st["Router"]
        /\ {o.balancer_id} \ {""} \subseteq DOMAIN st["LoadBalancer"]
    BY <1>3, FlowApplied
  <2>2. ObjectOK("Flow", o) /\ o.id = n
    BY FlowMade
  <2>3. o = w
    BY DEF FlowFromSpecV1
  <2> HIDE DEF o, w, n, a
  <2>4. Anchored(st, "Flow", o)
    BY <2>1, RefersArms DEF Anchored
  <2>5. Outcome(st, a, "Flow", n, o)
    BY <1>1, <2>1, <2>2, <2>4, OutcomeIs
  <2> QED
    BY <2>3, <2>5 DEF a, n, w
<1> QED
  BY <1>2, <1>3

\* an entrypoint.
LEMMA EntrypointOutcome ==
  ASSUME NEW st, StoreOK(st), NEW meta \in Metadata, NEW s \in EntrypointSpecV1
  PROVE  Outcome(st, ApplyEntrypointV1(st, meta, s), "Entrypoint", Named(meta).name,
                 EntrypointFromSpecV1([name |-> Named(meta).name], s))
<1> DEFINE a == ApplyEntrypointV1(st, meta, s)
           o == EntrypointFromSpecV1(Named(meta), s)
           n == Named(meta).name
           w == EntrypointFromSpecV1([name |-> n], s)
<1>1. n \in STRING \ {""} /\ "Entrypoint" \in Kind
  BY NamedIs, KindsAre
<1>2. CASE Refusal(st, a)
  BY <1>2, Zenon DEF Outcome
<1>3. CASE ~Refusal(st, a)
  <2>1. /\ Acceptance(a, Put(st, "Entrypoint", o), o) /\ EntrypointValidate(o)
        /\ o.flow_id \in DOMAIN st["Flow"]
    BY <1>3, EntrypointApplied
  <2>2. ObjectOK("Entrypoint", o) /\ o.id = n
    BY <2>1, EntrypointMade
  <2>3. o = w
    BY DEF EntrypointFromSpecV1
  <2> HIDE DEF o, w, n, a
  <2>4. Anchored(st, "Entrypoint", o)
    <3>1. ASSUME NEW j \in Kind PROVE Refers("Entrypoint", o, j) \subseteq DOMAIN st[j]
      <4>1. j = "Flow" => Refers("Entrypoint", o, j) = {o.flow_id}
        BY RefersArms
      <4>2. j # "Flow" => Refers("Entrypoint", o, j) = {}
        BY RefersArms
      <4> QED
        BY <2>1, <4>1, <4>2
    <3> QED
      BY <3>1, Zenon DEF Anchored
  <2>5. Outcome(st, a, "Entrypoint", n, o)
    BY <1>1, <2>1, <2>2, <2>4, OutcomeIs
  <2> QED
    BY <2>3, <2>5 DEF a, n, w
<1> QED
  BY <1>2, <1>3

\* Meaning, kind by kind.
LEMMA MeaningIs ==
  ASSUME NEW n, NEW g
  PROVE  /\ Meaning("Proxy", n, g) = ProxyWritten(n, g.labels, g.spec, g.auth)
         /\ Meaning("Pool", n, g) = PoolWritten(n, g.labels, g.spec)
         /\ Meaning("LoadBalancer", n, g) = BalancerWritten(n, g.spec)
         /\ Meaning("Flow", n, g) = FlowFromSpecV1([name |-> n], g.spec)
         /\ Meaning("Entrypoint", n, g) = EntrypointFromSpecV1([name |-> n], g.spec)
<1>1. Meaning("Proxy", n, g) = ProxyWritten(n, g.labels, g.spec, g.auth)
  <2>1. Meaning("Proxy", n, g)
        = [id |-> n, labels |-> g.labels, auth |-> g.auth,
           protocol |-> ProtocolOf(g.spec), host |-> HostOf(g.spec), port |-> PortOf(g.spec)]
    BY Zenon DEF Meaning, ProtocolOf, HostOf, PortOf
  <2> QED
    BY <2>1 DEF ProxyWritten
<1>2. Meaning("Pool", n, g) = PoolWritten(n, g.labels, g.spec)
  <2>1. Meaning("Pool", n, g)
        = [id |-> n, labels |-> g.labels, type |-> g.spec.type, selector |-> g.spec.selector,
           members |-> MembersWritten(g.spec.members)]
    BY Zenon DEF Meaning, MembersWritten, WrittenWeight
  <2> QED
    BY <2>1 DEF PoolWritten
<1>3. Meaning("LoadBalancer", n, g) = BalancerWritten(n, g.spec)
  BY Zenon DEF Meaning, BalancerWritten, IntervalOf
<1>4. Meaning("Flow", n, g) = FlowFromSpecV1([name |-> n], g.spec)
  <2>1. Meaning("Flow", n, g) = [id |-> n, router_id |-> g.spec.router_id, balancer_id |-> g.spec.balancer_id]
    BY Zenon DEF Meaning
  <2> QED
    BY <2>1 DEF FlowFromSpecV1
<1>5. Meaning("Entrypoint", n, g) = EntrypointFromSpecV1([name |-> n], g.spec)
  <2>1. Meaning("Entrypoint", n, g)
        = [id |-> n, protocol |-> g.spec.protocol, host |-> g.spec.host, port |-> g.spec.port, flow_id |-> g.spec.flow_id]
    BY Zenon DEF Meaning
  <2> QED
    BY <2>1 DEF EntrypointFromSpecV1
<1> QED
  BY <1>1, <1>2, <1>3, <1>4, <1>5, Zenon

\* What the wire makes of a pool's manifest means the same but for the weights
\* that do not fit.
LEMMA PoolSentMeans ==
  ASSUME NEW s \in PoolSpecV1, NEW n, NEW labels
  PROVE  LET t == Sent("Pool", s) IN
         /\ SameMembers(PoolWritten(n, labels, t), PoolWritten(n, labels, s))
         /\ FitInt32(s) => PoolWritten(n, labels, t) = PoolWritten(n, labels, s)
<1>1. PICK t : t = PoolSpecFromProto(PoolSpecToProto(s))
  OBVIOUS
<1>2. /\ t \in PoolSpecV1 /\ t.type = s.type /\ t.selector = s.selector /\ Len(t.members) = Len(s.members)
      /\ \A i \in 1..Len(s.members) :
           /\ t.members[i].proxy_id = s.members[i].proxy_id
           /\ FitInt32(s) => t.members[i].weight = IF s.members[i].weight = 0 THEN None ELSE s.members[i].weight
  BY <1>1, PoolSpecTravels
<1>3. t.members \in Seq(MemberSpecs) /\ s.members \in Seq(MemberSpecs)
  BY <1>2 DEF PoolSpecV1, MemberSpecs
<1>4. DOMAIN t.members = 1..Len(s.members) /\ DOMAIN s.members = 1..Len(s.members)
  BY <1>2, <1>3, SeqIs
<1>5. PICK a, b : a = t.members /\ b = s.members
  OBVIOUS
<1>6. MembersWritten(a) = [i \in DOMAIN b |-> [proxy_id |-> b[i].proxy_id, weight |-> WrittenWeight(a[i].weight)]]
  BY <1>2, <1>4, <1>5 DEF MembersWritten
<1>7. FitInt32(s) => MembersWritten(a) = MembersWritten(b)
  <2> SUFFICES ASSUME FitInt32(s) PROVE MembersWritten(a) = MembersWritten(b)
    OBVIOUS
  <2>1. ASSUME NEW i \in DOMAIN b PROVE WrittenWeight(a[i].weight) = WrittenWeight(b[i].weight)
    BY <1>2, <1>4, <1>5 DEF WrittenWeight
  <2> QED
    BY <1>6, <2>1 DEF MembersWritten
<1>8. MemberIds(PoolWritten(n, labels, t)) = MemberIds(PoolWritten(n, labels, s))
  <2>1. ASSUME NEW ms, NEW p, p.members = MembersWritten(ms)
        PROVE  MemberIds(p) = [i \in DOMAIN ms |-> ms[i].proxy_id]
    BY <2>1 DEF MemberIds, MembersWritten
  <2>2. [i \in DOMAIN a |-> a[i].proxy_id] = [i \in DOMAIN b |-> b[i].proxy_id]
    BY <1>2, <1>4, <1>5
  <2>3. PoolWritten(n, labels, t).members = MembersWritten(a) /\ PoolWritten(n, labels, s).members = MembersWritten(b)
    BY <1>5 DEF PoolWritten
  <2>4. MemberIds(PoolWritten(n, labels, t)) = [i \in DOMAIN a |-> a[i].proxy_id]
    BY <2>1, <2>3, Zenon
  <2>5. MemberIds(PoolWritten(n, labels, s)) = [i \in DOMAIN b |-> b[i].proxy_id]
    BY <2>1, <2>3, Zenon
  <2> QED
    BY <2>2, <2>4, <2>5, Zenon
<1>9. SameMembers(PoolWritten(n, labels, t), PoolWritten(n, labels, s))
  <2>1. /\ PoolWritten(n, labels, t).id = PoolWritten(n, labels, s).id
        /\ PoolWritten(n, labels, t).type = PoolWritten(n, labels, s).type
        /\ PoolWritten(n, labels, t).selector = PoolWritten(n, labels, s).selector
    BY <1>2 DEF PoolWritten
  <2> QED
    BY <1>8, <2>1 DEF SameMembers
<1>10. FitInt32(s) => PoolWritten(n, labels, t) = PoolWritten(n, labels, s)
  BY <1>2, <1>5, <1>7 DEF PoolWritten
<1>11. Sent("Pool", s) = t
  BY <1>1, Zenon DEF Sent
<1> QED
  BY <1>9, <1>10, <1>11

\* The answers that count as a success.
LEMMA AnswersAre ==
  ASSUME NEW e
  PROVE  /\ HttpStatus(e) \in {"OK", "200", "204"} <=> e = ""
         /\ GrpcCode(e) \in {"OK", "200", "204"} <=> e = ""
<1>1. HttpStatus(e) = "200" \/ HttpStatus(e) = "409" \/ HttpStatus(e) = "400" \/ HttpStatus(e) = "404" \/ HttpStatus(e) = "500"
  BY Zenon DEF HttpStatus
<1>2. GrpcCode(e) = "OK" \/ GrpcCode(e) = "FailedPrecondition" \/ GrpcCode(e) = "InvalidArgument" \/ GrpcCode(e) = "Internal"
  BY Zenon DEF GrpcCode
<1> QED
  BY <1>1, <1>2, Codes, Zenon

\* The keys are 1 to the number of names.

\* A set of naturals has a least member.
LEMMA LeastNatural ==
  ASSUME NEW T, T \subseteq Nat, T # {}
  PROVE  \E x \in T : \A y \in T : x <= y
<1> SUFFICES ASSUME \A x \in T : \E y \in T : y < x PROVE FALSE
  OBVIOUS
<1> DEFINE A == {n \in Nat : \A x \in T : x > n}
<1>1. 0 \in A
  OBVIOUS
<1>2. ASSUME NEW n \in Nat, n \in A PROVE n + 1 \in A
  BY <1>2
<1>3. Nat \subseteq A
  <2> HIDE DEF A
  <2> QED
    BY <1>1, <1>2, NatClosed
<1>4. PICK x : x \in T
  OBVIOUS
<1>5. x \in A
  BY <1>3, <1>4
<1> QED
  BY <1>4, <1>5

\* What is saved under n for a manifest.
ObjectOf(k, st, n, labels, s) ==
  CASE k = "Proxy" -> ProxyWritten(n, labels, s, AuthAfter(st, n, s))
    [] k = "Pool" -> PoolWritten(n, labels, s)
    [] k = "LoadBalancer" -> BalancerWritten(n, s)
    [] k = "Router" -> RouterFromSpecV1([name |-> n], s)
    [] k = "Flow" -> FlowFromSpecV1([name |-> n], s)
    [] k = "Entrypoint" -> EntrypointFromSpecV1([name |-> n], s)

\* The specs of each kind.
LEMMA SpecsAre ==
  /\ SpecV1["Proxy"] = ProxySpecV1 /\ SpecV1["Pool"] = PoolSpecV1 /\ SpecV1["LoadBalancer"] = BalancerSpecV1
  /\ SpecV1["Router"] = RouterSpecV1 /\ SpecV1["Flow"] = FlowSpecV1 /\ SpecV1["Entrypoint"] = EntrypointSpecV1
BY DEF SpecV1

\* The outcome of an apply, for any kind,
LEMMA AppliedIs ==
  ASSUME NEW st, StoreOK(st), NEW k \in Kind, NEW meta \in Metadata, NEW s \in SpecV1[k]
  PROVE  Outcome(st, Applied(st, k, meta, s), k, Named(meta).name,
                 ObjectOf(k, st, Named(meta).name, meta.labels, s))
<1> DEFINE n == Named(meta).name
<1> HIDE DEF n
<1>1. CASE k = "Proxy"
  <2>1. Applied(st, k, meta, s) = ApplyProxyV1(st, meta, s)
        /\ ObjectOf(k, st, n, meta.labels, s) = ProxyWritten(n, meta.labels, s, AuthAfter(st, n, s))
    BY <1>1, Zenon DEF Applied, ObjectOf
  <2> QED
    BY <1>1, <2>1, SpecsAre, ProxyOutcome, Zenon DEF n
<1>2. CASE k = "Pool"
  <2>1. Applied(st, k, meta, s) = ApplyPoolV1(st, meta, s)
        /\ ObjectOf(k, st, n, meta.labels, s) = PoolWritten(n, meta.labels, s)
    BY <1>2, Zenon DEF Applied, ObjectOf
  <2> QED
    BY <1>2, <2>1, SpecsAre, PoolOutcome, Zenon DEF n
<1>3. CASE k = "LoadBalancer"
  <2>1. Applied(st, k, meta, s) = ApplyBalancerV1(st, meta, s)
        /\ ObjectOf(k, st, n, meta.labels, s) = BalancerWritten(n, s)
    BY <1>3, Zenon DEF Applied, ObjectOf
  <2> QED
    BY <1>3, <2>1, SpecsAre, BalancerOutcome, Zenon DEF n
<1>4. CASE k = "Router"
  <2>1. Applied(st, k, meta, s) = ApplyRouterV1(st, meta, s)
        /\ ObjectOf(k, st, n, meta.labels, s) = RouterFromSpecV1([name |-> n], s)
    BY <1>4, Zenon DEF Applied, ObjectOf
  <2> QED
    BY <1>4, <2>1, SpecsAre, RouterOutcome, Zenon DEF n
<1>5. CASE k = "Flow"
  <2>1. Applied(st, k, meta, s) = ApplyFlowV1(st, meta, s)
        /\ ObjectOf(k, st, n, meta.labels, s) = FlowFromSpecV1([name |-> n], s)
    BY <1>5, Zenon DEF Applied, ObjectOf
  <2> QED
    BY <1>5, <2>1, SpecsAre, FlowOutcome, Zenon DEF n
<1>6. CASE k = "Entrypoint"
  <2>1. Applied(st, k, meta, s) = ApplyEntrypointV1(st, meta, s)
        /\ ObjectOf(k, st, n, meta.labels, s) = EntrypointFromSpecV1([name |-> n], s)
    BY <1>6, Zenon DEF Applied, ObjectOf
  <2> QED
    BY <1>6, <2>1, SpecsAre, EntrypointOutcome, Zenon DEF n
<1> QED
  BY <1>1, <1>2, <1>3, <1>4, <1>5, <1>6, KindsAre

\* A manifest's object is what the manifest says, with the credentials that hold
\* after it; on the wire a pool's weights may suffer.
LEMMA ObjectAsGiven ==
  ASSUME NEW st, NEW k \in Kind, NEW n, NEW s \in SpecV1[k], NEW g,
         g.spec = s, k = "Proxy" => g.auth = AuthAfter(st, n, s)
  PROVE  /\ AsGiven(k, n, ObjectOf(k, st, n, g.labels, s), g)
         /\ AsGiven(k, n, ObjectOf(k, st, n, g.labels, Sent(k, s)), g)
<1>1. CASE k = "Pool"
  <2>1. PICK t : t = Sent("Pool", s)
    OBVIOUS
  <2>2. /\ ObjectOf(k, st, n, g.labels, s) = PoolWritten(n, g.labels, s)
        /\ ObjectOf(k, st, n, g.labels, t) = PoolWritten(n, g.labels, t)
    BY <1>1, Zenon DEF ObjectOf
  <2>3. Meaning(k, n, g) = PoolWritten(n, g.labels, s)
    BY <1>1, MeaningIs
  <2>4. /\ SameMembers(PoolWritten(n, g.labels, t), PoolWritten(n, g.labels, s))
        /\ FitInt32(s) => PoolWritten(n, g.labels, t) = PoolWritten(n, g.labels, s)
    BY <1>1, <2>1, SpecsAre, PoolSentMeans
  <2>5. SameMembers(PoolWritten(n, g.labels, s), PoolWritten(n, g.labels, s))
    BY Zenon DEF SameMembers
  <2> QED
    BY <1>1, <2>1, <2>2, <2>3, <2>4, <2>5, Zenon DEF AsGiven
<1>2. CASE k # "Pool"
  <2>1. Sent(k, s) = s
    BY <1>2, SpecTravels
  <2>2. k \notin {"Pool", "Router"} => ObjectOf(k, st, n, g.labels, s) = Meaning(k, n, g)
    <3>1. CASE k = "Proxy"
      BY <3>1, MeaningIs, Zenon DEF ObjectOf
    <3>2. CASE k = "LoadBalancer"
      BY <3>2, MeaningIs, Zenon DEF ObjectOf
    <3>3. CASE k = "Flow"
      BY <3>3, MeaningIs, Zenon DEF ObjectOf
    <3>4. CASE k = "Entrypoint"
      BY <3>4, MeaningIs, Zenon DEF ObjectOf
    <3> QED
      BY <3>1, <3>2, <3>3, <3>4, KindsAre, Zenon
  <2>3. k = "Router" => ObjectOf(k, st, n, g.labels, s) = RouterFromSpecV1([name |-> n], s)
    BY Zenon DEF ObjectOf
  <2> QED
    BY <1>2, <2>1, <2>2, <2>3, Zenon DEF AsGiven
<1> QED
  BY <1>1, <1>2

Removal(st, a, k, n) ==
  \/ Refusal(st, a)
  \/ a.err = "" /\ a.st = Drop(st, k, n) /\ n # "" /\ Dependents(st, k, n) = {}

\* and of a delete.
LEMMA DeletedIs ==
  ASSUME NEW st, NEW k, NEW n
  PROVE  Removal(st, Delete(st, k, n), k, n)
<1>1. \/ Delete(st, k, n) \in {Refused(st, "name"), Refused(st, "in_use"), Refused(st, "not_found")}
      \/ /\ n # "" /\ Dependents(st, k, n) = {}
         /\ Delete(st, k, n) = Accepted(Drop(st, k, n), None)
  BY Zenon DEF Delete
<1>2. Acceptance(Accepted(Drop(st, k, n), None), Drop(st, k, n), None)
  BY AcceptedIs
<1> QED
  BY <1>1, <1>2, RefusedIs, Zenon DEF Removal, Acceptance

\* Fits of one kind.
LEMMA FitsFacts ==
  ASSUME NEW st, NEW gv, Fits(st, gv), NEW k \in Kind
  PROVE  IsFcn(gv, Kind) /\ DOMAIN gv[k] = DOMAIN st[k] /\ \A n \in DOMAIN st[k] : AsGiven(k, n, st[k][n], gv[k][n])
BY Zenon DEF Fits

\* A successful apply is what its name was last given,
LEMMA GivenSaved ==
  ASSUME NEW st, StoreOK(st), NEW gv, Fits(st, gv), NEW k \in Kind, NEW n, NEW o, o.id = n,
         NEW g, AsGiven(k, n, o, g)
  PROVE  Fits(Put(st, k, o), [gv EXCEPT ![k] = With(@, n, g)])
<1>1. PICK t : t = Put(st, k, o)
  OBVIOUS
<1>2. PICK h : h = [gv EXCEPT ![k] = With(@, n, g)]
  OBVIOUS
<1>3. IsFcn(t, Kind) /\ (\A j \in Kind : j # k => t[j] = st[j]) /\ t[k] = With(st[k], n, o)
  <2>1. IsFcn(st, Kind)
    BY StoreFacts
  <2>2. /\ IsFcn(Put(st, k, o), Kind) /\ \A j \in Kind : j # k => Put(st, k, o)[j] = st[j]
        /\ Put(st, k, o)[k] = With(st[k], o.id, o)
    BY <2>1, PutIs
  <2> QED
    BY <1>1, <2>2, Zenon
<1>4. IsFcn(gv, Kind)
  BY FitsFacts
<1>5. IsFcn(h, Kind) /\ (\A j \in Kind : j # k => h[j] = gv[j]) /\ h[k] = With(gv[k], n, g)
  BY <1>2, <1>4 DEF IsFcn
<1>6. ASSUME NEW j \in Kind
      PROVE  DOMAIN h[j] = DOMAIN t[j] /\ \A m \in DOMAIN t[j] : AsGiven(j, m, t[j][m], h[j][m])
  <2>1. CASE j # k
    BY <1>3, <1>5, <2>1, FitsFacts
  <2>2. CASE j = k
    <3>1. DOMAIN gv[k] = DOMAIN st[k] /\ \A m \in DOMAIN st[k] : AsGiven(k, m, st[k][m], gv[k][m])
      BY FitsFacts
    <3> DEFINE f == gv[k]
               e == st[k]
    <3> HIDE DEF f, e
    <3>2. h[k] = With(f, n, g) /\ t[k] = With(e, n, o) /\ f = gv[k] /\ e = st[k]
      BY <1>3, <1>5 DEF f, e
    <3>3. /\ DOMAIN With(f, n, g) = DOMAIN f \cup {n} /\ With(f, n, g)[n] = g
          /\ \A m \in DOMAIN f : m # n => With(f, n, g)[m] = f[m]
      BY DEF With
    <3>4. /\ DOMAIN With(e, n, o) = DOMAIN e \cup {n} /\ With(e, n, o)[n] = o
          /\ \A m \in DOMAIN e : m # n => With(e, n, o)[m] = e[m]
      BY DEF With
    <3>5. /\ DOMAIN h[k] = DOMAIN gv[k] \cup {n} /\ DOMAIN t[k] = DOMAIN st[k] \cup {n}
          /\ h[k][n] = g /\ t[k][n] = o
          /\ \A m \in DOMAIN st[k] : m # n => h[k][m] = gv[k][m] /\ t[k][m] = st[k][m]
      BY <3>2, <3>1, <3>3, <3>4
    <3>6. ASSUME NEW m \in DOMAIN t[k] PROVE AsGiven(k, m, t[k][m], h[k][m])
      BY <3>1, <3>5
    <3> QED
      BY <2>2, <3>1, <3>5, <3>6
  <2> QED
    BY <2>1, <2>2
<1> QED
  BY <1>1, <1>2, <1>5, <1>6, Zenon DEF Fits

\* What deleting changes.
LEMMA DropIs ==
  ASSUME NEW st, IsFcn(st, Kind), NEW k \in Kind, NEW n
  PROVE  /\ IsFcn(Drop(st, k, n), Kind) /\ \A j \in Kind : j # k => Drop(st, k, n)[j] = st[j]
         /\ DOMAIN Drop(st, k, n)[k] = DOMAIN st[k] \ {n}
         /\ \A m \in DOMAIN st[k] \ {n} : Drop(st, k, n)[k][m] = st[k][m]
BY DEF Drop, IsFcn

\* and a successful delete takes both away.
LEMMA GivenDropped ==
  ASSUME NEW st, StoreOK(st), NEW gv, Fits(st, gv), NEW k \in Kind, NEW n
  PROVE  Fits(Drop(st, k, n), Drop(gv, k, n))
<1>1. PICK t, h : t = Drop(st, k, n) /\ h = Drop(gv, k, n)
  OBVIOUS
<1>2. IsFcn(st, Kind) /\ IsFcn(gv, Kind)
  BY StoreFacts, FitsFacts
<1>3. /\ IsFcn(t, Kind) /\ (\A j \in Kind : j # k => t[j] = st[j]) /\ DOMAIN t[k] = DOMAIN st[k] \ {n}
      /\ \A m \in DOMAIN st[k] \ {n} : t[k][m] = st[k][m]
  BY <1>1, <1>2, DropIs
<1>4. /\ IsFcn(h, Kind) /\ (\A j \in Kind : j # k => h[j] = gv[j]) /\ DOMAIN h[k] = DOMAIN gv[k] \ {n}
      /\ \A m \in DOMAIN gv[k] \ {n} : h[k][m] = gv[k][m]
  BY <1>1, <1>2, DropIs
<1>5. ASSUME NEW j \in Kind
      PROVE  DOMAIN h[j] = DOMAIN t[j] /\ \A m \in DOMAIN t[j] : AsGiven(j, m, t[j][m], h[j][m])
  <2>1. DOMAIN gv[j] = DOMAIN st[j] /\ \A m \in DOMAIN st[j] : AsGiven(j, m, st[j][m], gv[j][m])
    BY FitsFacts
  <2> QED
    BY <1>3, <1>4, <2>1
<1> QED
  BY <1>1, <1>4, <1>5, Zenon DEF Fits

\* The history of a manifest's name, with the credentials the store will hold.
LEMMA Remembered ==
  ASSUME StoreOK(store), Fits(store, given), NEW d, d.kind \in Kind, WellFormed(d)
  PROVE  \E g : /\ Remember(d) = [given EXCEPT ![d.kind] = With(@, Named(d.meta).name, g)]
                /\ g.spec = d.spec /\ g.labels = d.meta.labels
                /\ d.kind = "Proxy" => g.auth = AuthAfter(store, Named(d.meta).name, d.spec)
<1> DEFINE k == d.kind
           n == Named(d.meta).name
           old == IF n \in DOMAIN given[k] THEN given[k][n].auth ELSE None
           auth == IF k # "Proxy" THEN None
                   ELSE IF d.spec.url # None THEN d.spec.url.user
                   ELSE IF d.spec.auth # None THEN d.spec.auth ELSE old
           g == [spec |-> d.spec, labels |-> d.meta.labels, auth |-> auth]
<1>1. Remember(d) = [given EXCEPT ![k] = With(@, n, g)]
  BY Zenon DEF Remember
<1>2. ASSUME k = "Proxy" PROVE auth = AuthAfter(store, n, d.spec)
  <2> HIDE DEF n
  <2>1. n \in DOMAIN given["Proxy"] <=> n \in DOMAIN store["Proxy"]
    BY <1>2, FitsFacts
  <2>2. ASSUME n \in DOMAIN store["Proxy"] PROVE store["Proxy"][n].auth = given["Proxy"][n].auth
    <3>1. AsGiven("Proxy", n, store["Proxy"][n], given["Proxy"][n])
      BY <1>2, <2>2, FitsFacts
    <3>2. store["Proxy"][n] = Meaning("Proxy", n, given["Proxy"][n])
      BY <3>1, Zenon DEF AsGiven
    <3>3. PICK x : x = given["Proxy"][n]
      OBVIOUS
    <3>4. Meaning("Proxy", n, x).auth = x.auth
      <4>1. Meaning("Proxy", n, x) = ProxyWritten(n, x.labels, x.spec, x.auth)
        BY MeaningIs, Zenon
      <4> QED
        BY <4>1 DEF ProxyWritten
    <3> QED
      BY <3>2, <3>3, <3>4
  <2> QED
    BY <1>2, <2>1, <2>2, Zenon DEF AuthAfter
<1>3. g.spec = d.spec /\ g.labels = d.meta.labels /\ g.auth = auth
  BY Zenon
<1> HIDE DEF g, auth
<1> QED
  BY <1>1, <1>2, <1>3

\* ConfigInv holds of the empty store.
LEMMA InitHolds == ConfigInit => ConfigInv
<1> SUFFICES ASSUME ConfigInit PROVE ConfigInv
  OBVIOUS
<1>1. IsFcn(EmptyStore, Kind) /\ \A k \in Kind : EmptyStore[k] = <<>>
  BY DEF EmptyStore, IsFcn
<1>2. IsFcn(<<>>, DOMAIN <<>>) /\ DOMAIN <<>> = {}
  BY DEF IsFcn
<1>3. WeightsApply(EmptyStore)
  BY <1>1, <1>2, KindsAre DEF WeightsApply
<1>4. StoreOK(EmptyStore)
  BY <1>1, <1>2, <1>3 DEF StoreOK
<1>5. Fits(EmptyStore, EmptyStore)
  BY <1>1, <1>2 DEF Fits
<1>6. DOMAIN NoApply = {"verdict", "docs", "todo", "before", "alone", "runs"} /\ NoApply.verdict = "none"
  BY DEF NoApply
<1>7. ApplyOK
  BY <1>6 DEF ApplyOK, Running, ConfigInit
<1> QED
  BY <1>4, <1>5, <1>7 DEF ConfigInit, ConfigInv

-----------------------------------------------------------------------------
(***************************************************************************)
(* ConfigPath: every step keeps the invariant.                             *)
(***************************************************************************)

\* A write that kept StoreOK, and changed nothing if refused, keeps ConfigInv.
LEMMA WriteKeeps ==
  ASSUME ConfigInv, NEW r, NEW h, Write(r, h), StoreOK(r.st),
         r.code \in {"OK", "200", "204"} => Fits(r.st, h),
         r.code \notin {"OK", "200", "204"} => r.st = store
  PROVE  ConfigInv'
<1>1. store' = r.st /\ given' = (IF r.code \in {"OK", "200", "204"} THEN h ELSE given)
  BY Zenon DEF Write
<1>2. Fits(store', given')
  BY <1>1, Zenon DEF ConfigInv
<1>3. apply' = apply \/ apply' = [apply EXCEPT !.alone = @ /\ ~Running]
  BY Zenon DEF Write
<1>4. DOMAIN apply' = DOMAIN apply /\ apply'.verdict = apply.verdict /\ apply'.docs = apply.docs /\ apply'.todo = apply.todo
  BY <1>3 DEF ConfigInv, ApplyOK
<1>5. ApplyOK'
  BY <1>4, Zenon DEF ConfigInv, ApplyOK, Running
<1>6. Fits(store, given)' /\ StoreOK(store)'
  BY <1>1, <1>2
<1> QED
  BY <1>5, <1>6 DEF ConfigInv

\* A manifest that is accepted is what its name now stands for.
LEMMA ManifestKeeps ==
  ASSUME StoreOK(store), Fits(store, given), NEW d, d.kind \in Kind, WellFormed(d),
         NEW t, t \in {d.spec, Sent(d.kind, d.spec)}
  PROVE  LET a == Applied(store, d.kind, d.meta, t) IN
         /\ StoreOK(a.st)
         /\ a.err = "" => Fits(a.st, Remember(d))
         /\ a.err # "" => a.st = store
<1> DEFINE k == d.kind
           n == Named(d.meta).name
           o == ObjectOf(k, store, n, d.meta.labels, t)
           a == Applied(store, k, d.meta, t)
<1>1. d.meta \in Metadata /\ d.spec \in SpecV1[k] /\ t \in SpecV1[k]
  BY SpecTravels DEF WellFormed
<1>2. Outcome(store, a, k, n, o)
  BY <1>1, AppliedIs
<1>3. CASE Refusal(store, a)
  BY <1>3, Zenon DEF Refusal
<1>4. CASE ~Refusal(store, a)
  <2>1. a.err = "" /\ a.st = Put(store, k, o) /\ o.id = n /\ MaySave(store, k, o)
    BY <1>2, <1>4, Zenon DEF Outcome
  <2>2. StoreOK(Put(store, k, o))
    BY <2>1, SaveKeeps
  <2>3. PICK g : /\ Remember(d) = [given EXCEPT ![k] = With(@, n, g)]
                 /\ g.spec = d.spec /\ g.labels = d.meta.labels
                 /\ k = "Proxy" => g.auth = AuthAfter(store, n, d.spec)
    BY Remembered
  <2>4. AsGiven(k, n, ObjectOf(k, store, n, g.labels, d.spec), g)
        /\ AsGiven(k, n, ObjectOf(k, store, n, g.labels, Sent(k, d.spec)), g)
    BY <1>1, <2>3, ObjectAsGiven
  <2>5. AsGiven(k, n, o, g)
    BY <2>3, <2>4
  <2>6. Fits(Put(store, k, o), [given EXCEPT ![k] = With(@, n, g)])
    <3> HIDE DEF o, n
    <3> QED
      BY <2>1, <2>5, GivenSaved
  <2> HIDE DEF a, o, n
  <2> QED
    BY <2>1, <2>2, <2>3, <2>6 DEF a
<1> QED
  BY <1>3, <1>4

\* An apply from the dashboard keeps it,
LEMMA DashboardApplyKeeps ==
  ASSUME ConfigInv, NEW d \in Documents, DashboardApply(d)
  PROVE  ConfigInv'
<1> DEFINE r == Dashboard(store, d.kind, Rq("apply", d.meta, d.spec))
           a == Applied(store, d.kind, d.meta, d.spec)
<1>1. d.kind \in Kind /\ WellFormed(d) /\ StoreOK(store) /\ Fits(store, given)
  BY ConfigAssumption DEF ConfigInv
<1>2. /\ StoreOK(a.st)
      /\ a.err = "" => Fits(a.st, Remember(d))
      /\ a.err # "" => a.st = store
  BY <1>1, ManifestKeeps
<1>3. CASE d.meta.name = ""
  <2>1. r.st = store /\ r.code = "400"
    <3>1. PICK k, meta, s : k = d.kind /\ meta = d.meta /\ s = d.spec
      OBVIOUS
    <3>2. k \in Kind /\ Nameless(meta)
      BY <1>1, <1>3, <3>1 DEF Nameless
    <3>3. Dashboard(store, k, Rq("apply", meta, s)).st = store /\ Dashboard(store, k, Rq("apply", meta, s)).code = "400"
      BY <3>2, DashboardNameless
    <3> QED
      BY <3>1, <3>3
  <2> QED
    BY <1>1, <2>1, WriteKeeps DEF DashboardApply
<1>4. CASE d.meta.name # ""
  <2>1. r.st = a.st /\ r.code = HttpStatus(a.err)
    <3>1. PICK k, meta, s : k = d.kind /\ meta = d.meta /\ s = d.spec
      OBVIOUS
    <3>2. k \in Kind /\ meta.name # ""
      BY <1>1, <1>4, <3>1
    <3>3. /\ Dashboard(store, k, Rq("apply", meta, s)).st = Applied(store, k, meta, s).st
          /\ Dashboard(store, k, Rq("apply", meta, s)).code = HttpStatus(Applied(store, k, meta, s).err)
      BY <3>2, DashboardApplies, ZenonT(40)
    <3> QED
      BY <3>1, <3>3
  <2>2. r.code \in {"OK", "200", "204"} <=> a.err = ""
    BY <2>1, AnswersAre
  <2>3. StoreOK(r.st) /\ (r.code \in {"OK", "200", "204"} => Fits(r.st, Remember(d)))
        /\ (r.code \notin {"OK", "200", "204"} => r.st = store)
    BY <1>2, <2>1, <2>2, Zenon
  <2>4. Write(r, Remember(d))
    BY DEF DashboardApply
  <2> QED
    BY <2>3, <2>4, WriteKeeps
<1> QED
  BY <1>3, <1>4

\* a delete, by its answer,
LEMMA DeleteAnswers ==
  ASSUME ConfigInv, NEW k \in Kind, NEW n, NEW r, r.st = Delete(store, k, n).st,
         r.code \in {"OK", "200", "204"} <=> Delete(store, k, n).err = "",
         Write(r, Forget(k, n))
  PROVE  ConfigInv'
<1> DEFINE a == Delete(store, k, n)
<1>1. StoreOK(store) /\ Fits(store, given)
  BY DEF ConfigInv
<1>2. Removal(store, a, k, n)
  BY DeletedIs
<1>3. Fits(Drop(store, k, n), Forget(k, n))
  BY <1>1, GivenDropped DEF Forget
<1>4. n # "" /\ Dependents(store, k, n) = {} => StoreOK(Drop(store, k, n))
  BY <1>1, DeleteKeeps
<1>5. \/ a.err # "" /\ a.st = store
      \/ a.err = "" /\ StoreOK(a.st) /\ Fits(a.st, Forget(k, n))
  BY <1>2, <1>3, <1>4, Zenon DEF Removal, Refusal
<1> HIDE DEF a
<1>6. r.st = a.st /\ (r.code \in {"OK", "200", "204"} <=> a.err = "")
  BY DEF a
<1>7. StoreOK(r.st) /\ (r.code \in {"OK", "200", "204"} => Fits(r.st, Forget(k, n)))
      /\ (r.code \notin {"OK", "200", "204"} => r.st = store)
  BY <1>1, <1>5, <1>6, Zenon
<1> QED
  BY <1>7, WriteKeeps

\* so over either channel,
LEMMA DeletesKeep ==
  ASSUME ConfigInv, NEW k \in Kind, NEW n, DashboardDelete(k, n) \/ PgctlDelete(k, n)
  PROVE  ConfigInv'
<1> DEFINE a == Delete(store, k, n)
           web == Dashboard(store, k, Rq("delete", Name(n), None))
           rpc == Client(store, k, Rq("delete", Name(n), None))
<1>1. /\ web.st = a.st /\ (a.err = "" => web.code = "204") /\ (a.err # "" => web.code = HttpStatus(a.err))
      /\ rpc.st = a.st /\ rpc.code = GrpcCode(a.err)
  BY DashboardDeletes, ClientDeletes
<1>2. /\ web.code \in {"OK", "200", "204"} <=> a.err = ""
      /\ rpc.code \in {"OK", "200", "204"} <=> a.err = ""
  BY <1>1, AnswersAre, Zenon
<1>3. Write(web, Forget(k, n)) \/ Write(rpc, Forget(k, n))
  BY DEF DashboardDelete, PgctlDelete
<1> HIDE DEF web, rpc
<1> QED
  BY <1>1, <1>2, <1>3, DeleteAnswers

\* a file is applied kind by kind,
LEMMA RankType == ASSUME NEW k PROVE ApplyKindRank(k) \in Nat
<1>1. DOMAIN Kinds = 1..6 /\ Len(Kinds) = 6
  BY DEF Kinds
<1>2. ASSUME k \in Kind PROVE ApplyKindRank(k) \in 1..6
  <2>1. \E i \in DOMAIN Kinds : Kinds[i] = k
    BY <1>2 DEF Kind, Range
  <2>2. (CHOOSE i \in DOMAIN Kinds : Kinds[i] = k) \in DOMAIN Kinds
    BY <2>1
  <2> QED
    BY <1>1, <1>2, <2>2 DEF ApplyKindRank
<1>3. ASSUME k \notin Kind PROVE ApplyKindRank(k) = 7
  BY <1>1, <1>3 DEF ApplyKindRank
<1> QED
  BY <1>2, <1>3

\* The next document is one of those that are left.
LEMMA NextIsLeft ==
  ASSUME NEW docs, NEW left, left \subseteq 1..Len(docs), left # {}
  PROVE  SortByApplyOrder(docs, left) \in left
<1> DEFINE rank(i) == ApplyKindRank(docs[i].kind)
           ranks == {rank(i) : i \in left}
<1>1. \A i : rank(i) \in Nat
  BY RankType
<1> HIDE DEF rank
<1>2. ranks \subseteq Nat /\ ranks # {}
  BY <1>1
<1>3. PICK r \in ranks : \A q \in ranks : r <= q
  <2> HIDE DEF ranks
  <2> QED
    BY <1>2, LeastNatural
<1> DEFINE firsts == {i \in left : rank(i) = r}
<1>4. firsts \subseteq Nat /\ firsts # {}
  BY <1>3
<1>5. PICK i \in firsts : \A j \in firsts : i <= j
  <2> HIDE DEF firsts
  <2> QED
    BY <1>4, LeastNatural
<1>6. \A j \in left : rank(i) < rank(j) \/ (rank(i) = rank(j) /\ i <= j)
  <2> SUFFICES ASSUME NEW j \in left PROVE rank(i) < rank(j) \/ (rank(i) = rank(j) /\ i <= j)
    OBVIOUS
  <2>1. rank(j) \in ranks /\ rank(i) = r /\ r <= rank(j)
    BY <1>3, <1>5
  <2>2. CASE rank(j) = r
    BY <1>5, <2>1, <2>2
  <2>3. CASE rank(j) # r
    BY <1>1, <2>1, <2>3
  <2> QED
    BY <2>2, <2>3
<1>7. i \in left
  BY <1>5
<1> QED
  BY <1>6, <1>7 DEF SortByApplyOrder, rank

\* the dispatch of a file,
LEMMA ApplyFileKeeps ==
  ASSUME ConfigInv, NEW docs \in Files, ApplyFile(docs)
  PROVE  ConfigInv'
<1>1. UNCHANGED <<store, given>>
  BY DEF ApplyFile
<1>2. /\ DOMAIN docs = 1..Len(docs) /\ \A i \in DOMAIN docs : WellFormed(docs[i])
  BY ConfigAssumption
<1>3. ApplyOK'
  <2>1. CASE ~ParseYAML(docs)
    <3>1. apply' = [apply EXCEPT !.verdict = "unparsed", !.runs = @ + 1]
      BY <2>1 DEF ApplyFile
    <3>2. DOMAIN apply' = DOMAIN apply /\ apply'.verdict = "unparsed"
      BY <3>1 DEF ConfigInv, ApplyOK
    <3> QED
      BY <3>2 DEF ConfigInv, ApplyOK, Running
  <2>2. CASE ParseYAML(docs)
    <3>1. apply' = [verdict |-> "running", docs |-> docs, todo |-> DOMAIN docs,
                    before |-> store, alone |-> TRUE, runs |-> apply.runs + 1]
      BY <2>2 DEF ApplyFile
    <3>2. /\ DOMAIN apply' = {"verdict", "docs", "todo", "before", "alone", "runs"}
          /\ apply'.docs = docs /\ apply'.todo = DOMAIN docs
      BY <3>1
    <3> QED
      BY <1>2, <3>2 DEF ApplyOK
  <2> QED
    BY <2>1, <2>2
<1> QED
  BY <1>1, <1>3 DEF ConfigInv

\* and the apply of its next document.
LEMMA ApplyNextKeeps ==
  ASSUME ConfigInv, ApplyNext
  PROVE  ConfigInv'
<1> DEFINE i == SortByApplyOrder(apply.docs, apply.todo)
           d == apply.docs[i]
           known == d.kind \in Kind /\ d.version = "v1"
           r == Client(store, d.kind, Rq("apply", d.meta, d.spec))
           ok == known /\ r.code = "OK"
<1>1. Running /\ ApplyOK /\ StoreOK(store) /\ Fits(store, given)
  BY DEF ApplyNext, ConfigInv
<1>2. /\ DOMAIN apply = {"verdict", "docs", "todo", "before", "alone", "runs"}
      /\ DOMAIN apply.docs = 1..Len(apply.docs) /\ apply.todo \subseteq DOMAIN apply.docs
      /\ \A x \in DOMAIN apply.docs : WellFormed(apply.docs[x])
  BY <1>1 DEF ApplyOK
<1>3. CASE apply.todo = {}
  <2>1. apply' = [apply EXCEPT !.verdict = "applied"] /\ UNCHANGED <<store, given>>
    BY <1>3 DEF ApplyNext
  <2>2. DOMAIN apply' = DOMAIN apply /\ apply'.verdict = "applied"
    BY <1>2, <2>1
  <2>3. ApplyOK'
    BY <1>2, <2>2 DEF ApplyOK, Running
  <2> QED
    BY <1>1, <2>1, <2>3 DEF ConfigInv
<1>4. CASE apply.todo # {}
  <2>1. i \in apply.todo
    BY <1>2, <1>4, NextIsLeft
  <2>2. WellFormed(d)
    BY <1>2, <2>1
  <2>3. /\ store' = IF known THEN r.st ELSE store
        /\ given' = IF ok THEN Remember(d) ELSE given
        /\ apply' = IF ok THEN [apply EXCEPT !.todo = @ \ {i}] ELSE [apply EXCEPT !.verdict = "failed"]
    BY <1>4, Zenon DEF ApplyNext
  <2> HIDE DEF i
  <2>4. ApplyOK'
    <3>1. CASE ok
      <4>1. apply' = [apply EXCEPT !.todo = @ \ {i}]
        BY <2>3, <3>1
      <4>2. /\ DOMAIN apply' = DOMAIN apply /\ apply'.docs = apply.docs /\ apply'.todo = apply.todo \ {i}
        BY <1>2, <4>1
      <4> QED
        BY <1>2, <4>2 DEF ApplyOK
    <3>2. CASE ~ok
      <4>1. apply' = [apply EXCEPT !.verdict = "failed"]
        BY <2>3, <3>2
      <4>2. DOMAIN apply' = DOMAIN apply /\ apply'.verdict = "failed"
        BY <1>2, <4>1
      <4> QED
        BY <1>2, <4>2 DEF ApplyOK, Running
    <3> QED
      BY <3>1, <3>2
  <2>5. StoreOK(store') /\ Fits(store', given')
    <3>1. CASE known
      <4>1. PICK k, meta, s, a : k = d.kind /\ meta = d.meta /\ s = d.spec /\ a = Applied(store, k, meta, Sent(k, s))
        OBVIOUS
      <4>2. k \in Kind /\ meta \in Metadata
        BY <2>2, <3>1, <4>1 DEF WellFormed
      <4>3. Client(store, k, Rq("apply", meta, s)).st = a.st
            /\ Client(store, k, Rq("apply", meta, s)).code = GrpcCode(a.err)
        BY <4>1, <4>2, ClientApplies
      <4>4. r.st = a.st /\ (r.code = "OK" <=> a.err = "")
        BY <4>1, <4>3, Codes, Zenon
      <4>5. StoreOK(a.st) /\ (a.err = "" => Fits(a.st, Remember(d))) /\ (a.err # "" => a.st = store)
        BY <1>1, <2>2, <4>1, <4>2, ManifestKeeps
      <4> HIDE DEF r, d
      <4> QED
        BY <1>1, <2>3, <3>1, <4>4, <4>5, Zenon
    <3>2. CASE ~known
      BY <1>1, <2>3, <3>2, Zenon
    <3> QED
      BY <3>1, <3>2
  <2> QED
    BY <2>4, <2>5 DEF ConfigInv
<1> QED
  BY <1>3, <1>4

\* ConfigInv is inductive,
LEMMA StepKeeps == ConfigInv /\ [ConfigNext]_configVars => ConfigInv'
<1> SUFFICES ASSUME ConfigInv, [ConfigNext]_configVars PROVE ConfigInv'
  OBVIOUS
<1>1. ASSUME NEW d \in Documents, DashboardApply(d) PROVE ConfigInv'
  BY <1>1, DashboardApplyKeeps
<1>2. ASSUME NEW k \in Kind, NEW n \in DOMAIN store[k] \cup {""}, DashboardDelete(k, n) \/ PgctlDelete(k, n)
      PROVE  ConfigInv'
  BY <1>2, DeletesKeep
<1>3. ASSUME NEW docs \in Files, ApplyFile(docs) PROVE ConfigInv'
  BY <1>3, ApplyFileKeeps
<1>4. CASE ApplyNext
  BY <1>4, ApplyNextKeeps
<1>5. CASE UNCHANGED configVars
  BY <1>5 DEF configVars, ConfigInv, ApplyOK, Running
<1> QED
  BY <1>1, <1>2, <1>3, <1>4, <1>5 DEF ConfigNext

\* so it holds throughout.
LEMMA ConfigInvAlways == ConfigSpec => []ConfigInv
  BY InitHolds, StepKeeps, PTL DEF ConfigSpec

-----------------------------------------------------------------------------
(***************************************************************************)
(* ConfigPath: what comes back over the wire.                              *)
(***************************************************************************)

\* What is stored comes back over the wire: a proxy,
LEMMA ProxyBack ==
  ASSUME NEW o \in Proxies PROVE ProxyFromProto(ProxyToProto(o)) = o
<1>1. o.port \in Port /\ o.auth \in Optional(AuthSpec)
      /\ o = [id |-> o.id, protocol |-> o.protocol, host |-> o.host, port |-> o.port, auth |-> o.auth, labels |-> o.labels]
  BY DEF Proxies
<1>2. Uint16(o.port) = o.port /\ AuthToProto(o.auth) = o.auth
  BY <1>1, PortKeeps, AuthKeeps
<1> QED
  BY <1>1, <1>2 DEF ProxyFromProto, ProxyToProto

\* an entrypoint,
LEMMA EntrypointBack ==
  ASSUME NEW o \in Entrypoints PROVE EntrypointFromProto(EntrypointToProto(o)) = o
<1>1. o.port \in Port
      /\ o = [id |-> o.id, protocol |-> o.protocol, host |-> o.host, port |-> o.port, flow_id |-> o.flow_id]
  BY DEF Entrypoints
<1>2. Uint16(o.port) = o.port
  BY <1>1, PortKeeps
<1> QED
  BY <1>1, <1>2 DEF EntrypointFromProto, EntrypointToProto

\* a flow,
LEMMA FlowBack ==
  ASSUME NEW o \in Flows PROVE FlowFromProto(FlowToProto(o)) = o
BY DEF Flows, FlowFromProto, FlowToProto

\* The interval as the wire has it.
IntervalSent(x) == IF x > 0 THEN DurationString[x] ELSE ""
IntervalRead(t) == IF t \in DOMAIN ParseDuration THEN ParseDuration[t] ELSE 0

\* an interval as its text,
LEMMA IntervalBack == \A x \in {0, 60, 90} : IntervalRead(IntervalSent(x)) = x
<1>1. IntervalSent(0) = "" /\ IntervalSent(60) = "1m0s" /\ IntervalSent(90) = "1m30s"
  BY DurationsAre DEF IntervalSent
<1>2. IntervalRead("") = 0 /\ IntervalRead("1m0s") = 60 /\ IntervalRead("1m30s") = 90
  BY DurationsAre DEF IntervalRead
<1> SUFFICES ASSUME NEW x \in {0, 60, 90} PROVE IntervalRead(IntervalSent(x)) = x
  OBVIOUS
<1>3. CASE x = 0
  BY <1>1, <1>2, <1>3
<1>4. CASE x = 60
  BY <1>1, <1>2, <1>4, ZenonT(40)
<1>5. CASE x = 90
  BY <1>1, <1>2, <1>5
<1> QED
  BY <1>3, <1>4, <1>5

\* a balancer with it,
LEMMA BalancerBack ==
  ASSUME NEW o \in Balancers, o.reset_interval \in {0, 60, 90}
  PROVE  BalancerFromProto(BalancerToProto(o)) = o
<1>1. o = [id |-> o.id, type |-> o.type, pool_id |-> o.pool_id, reset_interval |-> o.reset_interval]
  BY DEF Balancers
<1>2. IntervalRead(IntervalSent(o.reset_interval)) = o.reset_interval
  BY IntervalBack
<1>3. BalancerToProto(o) = [id |-> o.id, type |-> o.type, pool_id |-> o.pool_id, reset_interval |-> IntervalSent(o.reset_interval)]
  BY Zenon DEF BalancerToProto, IntervalSent
<1>4. PICK pb : pb = BalancerToProto(o)
  OBVIOUS
<1>5. BalancerFromProto(pb) = [id |-> pb.id, type |-> pb.type, pool_id |-> pb.pool_id, reset_interval |-> IntervalRead(pb.reset_interval)]
  BY Zenon DEF BalancerFromProto, IntervalRead
<1> QED
  BY <1>1, <1>2, <1>3, <1>4, <1>5

\* a match,
LEMMA MatchBack ==
  ASSUME NEW m, ConditionTyped(m.nott)
  PROVE  MatchFromSpec(MatchSpecToProto(m)) = MatchFromSpec(m)
<1>1. \A c : Uncompiled(ConditionToProto(c)) = Uncompiled(c)
  BY DEF Uncompiled, ConditionToProto
<1>2. PICK x : x = MatchSpecToProto(m)
  OBVIOUS
<1>3. /\ x.type = m.type /\ x.value = m.value
      /\ x.all = [i \in DOMAIN m.all |-> ConditionToProto(m.all[i])]
      /\ x.any = [i \in DOMAIN m.any |-> ConditionToProto(m.any[i])]
      /\ x.nott = IF m.nott = None THEN None ELSE ConditionToProto(m.nott)
  BY <1>2 DEF MatchSpecToProto
<1>4. [i \in DOMAIN x.all |-> Uncompiled(x.all[i])] = [i \in DOMAIN m.all |-> Uncompiled(m.all[i])]
  BY <1>1, <1>3
<1>5. [i \in DOMAIN x.any |-> Uncompiled(x.any[i])] = [i \in DOMAIN m.any |-> Uncompiled(m.any[i])]
  BY <1>1, <1>3
<1>6. (IF x.nott = None THEN None ELSE Uncompiled(x.nott)) = (IF m.nott = None THEN None ELSE Uncompiled(m.nott))
  <2>1. CASE m.nott = None
    BY <1>3, <2>1, Zenon
  <2>2. CASE m.nott # None
    <3>1. x.nott = ConditionToProto(m.nott)
      BY <1>3, <2>2, Zenon
    <3>2. ConditionToProto(m.nott) \in ConditionSpec
      BY <2>2 DEF ConditionTyped, ConditionToProto, ConditionSpec
    <3>3. x.nott # None
      BY <3>1, <3>2, NilAssumption
    <3> QED
      BY <1>1, <2>2, <3>1, <3>3, Zenon
  <2> QED
    BY <2>1, <2>2
<1>7. MatchFromSpec(x) = MatchFromSpec(m)
  BY <1>3, <1>4, <1>5, <1>6 DEF MatchFromSpec
<1> QED
  BY <1>2, <1>7

\* a router, uncompiled,
LEMMA RouterBack ==
  ASSUME NEW o \in Routers PROVE RouterFromProto(RouterToProto(o)) = RouterFromSpecV1([name |-> o.id], o)
<1>1. PICK rules \in Seq(Rules) : rules = o.rules
  BY DEF Routers, Rules
<1>2. \A i \in DOMAIN rules : ConditionTyped(rules[i].match.nott)
  <2> SUFFICES ASSUME NEW i \in DOMAIN rules PROVE ConditionTyped(rules[i].match.nott)
    OBVIOUS
  <2>1. rules[i] \in Rules
    BY SeqIs
  <2>2. PICK c \in Optional(RouterCondition) : c = rules[i].match.nott
    BY <2>1 DEF Rules, RouterMatch
  <2>3. ConditionTyped(c)
    BY DEF Optional, RouterCondition, ConditionTyped
  <2> QED
    BY <2>2, <2>3
<1>3. PICK pbs : pbs = [i \in DOMAIN rules |->
                [id |-> rules[i].id, match |-> MatchSpecToProto(rules[i].match), target |-> rules[i].target]]
  OBVIOUS
<1>4. RouterToProto(o) = [id |-> o.id, rules |-> pbs]
  BY <1>1, <1>3 DEF RouterToProto
<1>5. RouterFromProto([id |-> o.id, rules |-> pbs]) =
        [id |-> o.id, rules |-> [i \in DOMAIN pbs |->
           [id |-> pbs[i].id, match |-> MatchFromSpec(pbs[i].match), target |-> pbs[i].target]]]
  BY DEF RouterFromProto
<1>6. DOMAIN pbs = DOMAIN rules /\ \A i \in DOMAIN rules :
        pbs[i].id = rules[i].id /\ pbs[i].match = MatchSpecToProto(rules[i].match) /\ pbs[i].target = rules[i].target
  BY <1>3
<1>7. \A i \in DOMAIN rules : MatchFromSpec(pbs[i].match) = MatchFromSpec(rules[i].match)
  BY <1>2, <1>6, MatchBack
<1>8. [i \in DOMAIN pbs |-> [id |-> pbs[i].id, match |-> MatchFromSpec(pbs[i].match), target |-> pbs[i].target]]
      = [i \in DOMAIN rules |-> [id |-> rules[i].id, match |-> MatchFromSpec(rules[i].match), target |-> rules[i].target]]
  BY <1>6, <1>7
<1> QED
  BY <1>1, <1>4, <1>5, <1>8 DEF RouterFromSpecV1

\* and a pool, all but the weights that do not fit.
LEMMA PoolBack ==
  ASSUME NEW o \in Pools, PoolValidate(o), NEW q, q = PoolFromProto(PoolToProto(o))
  PROVE  /\ q.id = o.id /\ q.type = o.type /\ q.labels = o.labels /\ q.selector = o.selector
         /\ MemberIds(q) = MemberIds(o)
         /\ FitInt32(o) => q = o
<1>1. PICK ms \in Seq(Members) : ms = o.members
  BY DEF Pools, Members
<1>2. DOMAIN ms = 1..Len(ms) /\ (\A i \in DOMAIN ms : ms[i] \in Members /\ ms[i] \in Range(ms)) /\ ms = [i \in DOMAIN ms |-> ms[i]]
  BY SeqIs
<1>3. PICK pbs : pbs = [i \in DOMAIN ms |-> [proxy_id |-> ms[i].proxy_id, weight |-> Int32(ms[i].weight)]]
  OBVIOUS
<1>4. PICK back : back = [i \in DOMAIN pbs |-> [proxy_id |-> pbs[i].proxy_id,
                            weight |-> IF pbs[i].weight = 0 THEN 1 ELSE pbs[i].weight]]
  OBVIOUS
<1>5. q = [id |-> o.id, type |-> o.type, labels |-> o.labels, selector |-> o.selector, members |-> back]
  BY <1>1, <1>3, <1>4 DEF PoolFromProto, PoolToProto
<1>6. MemberIds(q) = MemberIds(o)
  <2>1. q.members = back
    BY <1>5
  <2>2. DOMAIN back = DOMAIN ms /\ \A i \in DOMAIN ms : back[i].proxy_id = ms[i].proxy_id
    BY <1>3, <1>4
  <2> QED
    BY <1>1, <2>1, <2>2 DEF MemberIds
<1>7. ASSUME FitInt32(o) PROVE back = ms
  <2>1. ASSUME NEW i \in DOMAIN ms
        PROVE  [proxy_id |-> ms[i].proxy_id, weight |-> IF Int32(ms[i].weight) = 0 THEN 1 ELSE Int32(ms[i].weight)] = ms[i]
    <3>1. PICK x \in Members : x = ms[i]
      BY <1>2
    <3>2. PICK w \in Int : w = x.weight
      BY DEF Members
    <3>3. w >= 1
      <4>1. CASE o.type = "static"
        <5>1. \A m \in Range(o.members) : m.weight >= 1
          BY <4>1 DEF PoolValidate
        <5>2. x \in Range(o.members)
          BY <1>1, <1>2, <3>1
        <5> QED
          BY <3>2, <5>1, <5>2
      <4>2. CASE o.type # "static"
        <5>1. o.members = <<>>
          BY <4>2, Zenon DEF PoolValidate
        <5> QED
          BY <1>1, <5>1
      <4> QED
        BY <4>1, <4>2
    <3>4. w \in -(MaxInt32 + 1)..MaxInt32
      BY <1>1, <1>7, <3>1, <3>2, NilAssumption DEF FitInt32
    <3>5. Int32(w) = w
      BY <3>4, Int32Keeps
    <3>6. x = [proxy_id |-> x.proxy_id, weight |-> x.weight]
      BY DEF Members
    <3>7. w # 0
      BY <3>3
    <3> QED
      BY <3>1, <3>2, <3>5, <3>6, <3>7
  <2>2. back = [i \in DOMAIN ms |-> [proxy_id |-> ms[i].proxy_id, weight |-> IF Int32(ms[i].weight) = 0 THEN 1 ELSE Int32(ms[i].weight)]]
    BY <1>3, <1>4
  <2> QED
    BY <1>2, <2>1, <2>2
<1>8. o = [id |-> o.id, type |-> o.type, labels |-> o.labels, selector |-> o.selector, members |-> ms]
  BY <1>1 DEF Pools
<1> QED
  BY <1>5, <1>6, <1>7, <1>8

\* What an agent gets of a stored object is the object.
LEMMA BackIs ==
  ASSUME NEW k \in Kind, NEW o, ObjectOK(k, o)
  PROVE  /\ k # "Pool" => Back(k, o) = o
         /\ k = "Pool" => /\ Back(k, o).id = o.id /\ Back(k, o).type = o.type /\ Back(k, o).selector = o.selector
                          /\ MemberIds(Back(k, o)) = MemberIds(o)
                          /\ FitInt32(o) => Back(k, o) = o
<1>1. CASE k = "Proxy"
  <2>1. o \in Proxies
    BY <1>1, ObjectArms, Zenon
  <2> QED
    BY <1>1, <2>1, ProxyBack, Zenon DEF Back
<1>2. CASE k = "Pool"
  <2>1. o \in Pools /\ PoolValidate(o)
    BY <1>2, ObjectArms, Zenon
  <2>2. Back(k, o) = PoolFromProto(PoolToProto(o))
    BY <1>2, Zenon DEF Back
  <2> QED
    BY <1>2, <2>1, <2>2, PoolBack
<1>3. CASE k = "LoadBalancer"
  <2>1. o \in Balancers /\ (o.type = "least-bytes" => o.reset_interval \in {60, 90}) /\ (o.type # "least-bytes" => o.reset_interval = 0)
    BY <1>3, ObjectArms, Zenon
  <2>2. o.reset_interval \in {0, 60, 90}
    BY <2>1, Seconds
  <2> QED
    BY <1>3, <2>1, <2>2, BalancerBack, Zenon DEF Back
<1>4. CASE k = "Router"
  <2>1. o \in Routers /\ o = RouterFromSpecV1([name |-> o.id], o)
    BY <1>4, ObjectArms, Zenon
  <2>2. RouterFromProto(RouterToProto(o)) = o
    BY <2>1, RouterBack, Zenon
  <2> QED
    BY <1>4, <2>2, Zenon DEF Back
<1>5. CASE k = "Flow"
  <2>1. o \in Flows
    BY <1>5, ObjectArms, Zenon
  <2> QED
    BY <1>5, <2>1, FlowBack, Zenon DEF Back
<1>6. CASE k = "Entrypoint"
  <2>1. o \in Entrypoints
    BY <1>6, ObjectArms, Zenon
  <2> QED
    BY <1>6, <2>1, EntrypointBack, Zenon DEF Back
<1> QED
  BY <1>1, <1>2, <1>3, <1>4, <1>5, <1>6, KindsAre

\* What the agent has of the store,
LEMMA AgentHas ==
  ASSUME StoreOK(store)
  PROVE  /\ IsFcn(AgentStore, Kind)
         /\ \A k \in Kind : /\ DOMAIN AgentStore[k] = DOMAIN store[k] /\ IsFcn(AgentStore[k], DOMAIN store[k])
                            /\ \A n \in DOMAIN store[k] : AgentStore[k][n] = Back(k, store[k][n])
<1> DEFINE listed(k) == Client(store, k, Rq("list", Name(""), None)).objs
           view(k) == [n \in {o.id : o \in listed(k)} |-> CHOOSE o \in listed(k) : o.id = n]
<1>1. AgentStore = [k \in Kind |-> view(k)]
  BY Zenon DEF AgentStore
<1>2. ASSUME NEW k \in Kind
      PROVE  /\ DOMAIN view(k) = DOMAIN store[k] /\ IsFcn(view(k), DOMAIN store[k])
             /\ \A n \in DOMAIN store[k] : view(k)[n] = Back(k, store[k][n])
  <2>1. listed(k) = AllBack(k, Range(store[k]))
    BY ClientReads
  <2>2. PICK f : f = [n \in DOMAIN store[k] |-> Back(k, store[k][n])]
    OBVIOUS
  <2>3. DOMAIN f = DOMAIN store[k] /\ \A n \in DOMAIN store[k] : f[n] = Back(k, store[k][n])
    BY <2>2
  <2>4. \A n \in DOMAIN store[k] : Back(k, store[k][n]).id = n
    <3> SUFFICES ASSUME NEW n \in DOMAIN store[k] PROVE Back(k, store[k][n]).id = n
      OBVIOUS
    <3>1. PICK o : o = store[k][n]
      OBVIOUS
    <3>2. ObjectOK(k, o) /\ o.id = n
      BY <3>1, StoreFacts
    <3>3. Back(k, o).id = o.id
      BY <3>2, BackIs
    <3> QED
      BY <3>1, <3>2, <3>3
  <2>5. PICK L : L = listed(k)
    OBVIOUS
  <2>6. L = {f[n] : n \in DOMAIN f}
    BY <2>1, <2>3, <2>5 DEF AllBack, Range
  <2>7. \A n \in DOMAIN f : f[n].id = n
    BY <2>3, <2>4
  <2>8. {o.id : o \in L} = DOMAIN f /\ \A n \in DOMAIN f : (CHOOSE o \in L : o.id = n) = f[n]
    <3>1. {o.id : o \in L} = DOMAIN f
      BY <2>6, <2>7
    <3>2. ASSUME NEW n \in DOMAIN f PROVE (CHOOSE o \in L : o.id = n) = f[n]
      <4>1. f[n] \in L /\ f[n].id = n
        BY <2>6, <2>7
      <4>2. \A o \in L : o.id = n => o = f[n]
        BY <2>6, <2>7
      <4> QED
        BY <4>1, <4>2
    <3> QED
      BY <3>1, <3>2
  <2> HIDE DEF listed
  <2>9. view(k) = [n \in DOMAIN f |-> f[n]]
    BY <2>5, <2>8
  <2> HIDE DEF view
  <2> QED
    BY <2>3, <2>9 DEF IsFcn
<1> HIDE DEF view
<1> QED
  BY <1>1, <1>2 DEF IsFcn

\* and what pgctl shows of it.
LEMMA PgctlShows ==
  ASSUME NEW k \in Kind, NEW n \in STRING \ {""}, n \in DOMAIN store[k], store[k][n] # None
  PROVE  PgctlGet(store, k, n) = {Back(k, store[k][n])}
<1>1. PgctlGet(store, k, n) = Client(store, k, Rq("get", Name(n), None)).objs
  <2>1. n # ""
    OBVIOUS
  <2> QED
    BY <2>1, Zenon DEF PgctlGet
<1>2. Client(store, k, Rq("get", Name(n), None)).objs = OneBack(k, Find(store, k, n))
  BY ClientReads
<1>3. Find(store, k, n) = store[k][n]
  BY DEF Find
<1>4. PICK x : x = store[k][n]
  OBVIOUS
<1>5. x # None
  BY <1>4
<1>6. OneBack(k, x) = {Back(k, x)}
  BY <1>5 DEF OneBack
<1> QED
  BY <1>1, <1>2, <1>3, <1>4, <1>6

\* What is stored is something.
LEMMA StoredIs ==
  ASSUME NEW k \in Kind, NEW o, ObjectOK(k, o)
  PROVE  o # None
<1>1. \/ o \in Proxies \/ o \in Pools \/ o \in Balancers \/ o \in Routers \/ o \in Flows \/ o \in Entrypoints
  BY KindsAre, ObjectArms, Zenon
<1> QED
  BY <1>1, NilAssumption

-----------------------------------------------------------------------------
(***************************************************************************)
(* ConfigPath: agents accept what is stored.                               *)
(***************************************************************************)

\* Compiling adds the pattern and nothing else.
LEMMA ConditionCompiled ==
  ASSUME NEW c \in RouterCondition
  PROVE  /\ CompileCondition(c).type = c.type /\ CompileCondition(c).value = c.value
         /\ c.type = "path_regex" => CompileCondition(c).re = c.value
         /\ CompileCondition(c) # None
<1>1. DOMAIN c = {"type", "value", "re"} /\ c.type \in STRING /\ c.value \in Seq(STRING) /\ c.re \in Optional(Seq(STRING))
  BY DEF RouterCondition
<1>2. CASE c.type = "path_regex"
  <2>1. CompileCondition(c) = [c EXCEPT !.re = c.value]
    BY <1>2 DEF CompileCondition
  <2>2. CompileCondition(c).type = c.type /\ CompileCondition(c).value = c.value /\ CompileCondition(c).re = c.value
    BY <1>1, <2>1
  <2>3. CompileCondition(c) \in RouterCondition
    BY <1>1, <2>1 DEF RouterCondition, Optional
  <2> QED
    BY <2>2, <2>3, NilAssumption
<1>3. CASE c.type # "path_regex"
  <2>1. CompileCondition(c) = c
    BY <1>3, Zenon DEF CompileCondition
  <2> QED
    BY <1>3, <2>1, NilAssumption
<1> QED
  BY <1>2, <1>3

CompiledSeq(s) == [i \in DOMAIN s |-> CompileCondition(s[i])]

\* A list of compiled conditions,
LEMMA SeqCompiled ==
  ASSUME NEW s \in Seq(RouterCondition)
  PROVE  /\ DOMAIN CompiledSeq(s) = DOMAIN s /\ (s # <<>> => CompiledSeq(s) # <<>>)
         /\ \A c \in Range(CompiledSeq(s)) : \E b \in Range(s) : b \in RouterCondition /\ c = CompileCondition(b)
         /\ \A b \in Range(s) : CompileCondition(b) \in Range(CompiledSeq(s))
<1>1. PICK t : t = CompiledSeq(s)
  OBVIOUS
<1>2. DOMAIN t = DOMAIN s /\ \A i \in DOMAIN s : t[i] = CompileCondition(s[i])
  BY <1>1 DEF CompiledSeq
<1>3. \A i \in DOMAIN s : s[i] \in RouterCondition /\ s[i] \in Range(s)
  BY SeqIs
<1>4. s # <<>> => t # <<>>
  <2>1. s # <<>> => Len(s) # 0 /\ DOMAIN s = 1..Len(s) /\ Len(s) \in Nat
    OBVIOUS
  <2>2. s # <<>> => 1 \in DOMAIN t
    BY <1>2, <2>1
  <2> QED
    BY <2>2
<1>5. \A c \in Range(t) : \E b \in Range(s) : b \in RouterCondition /\ c = CompileCondition(b)
  BY <1>2, <1>3 DEF Range
<1>6. \A b \in Range(s) : CompileCondition(b) \in Range(t)
  BY <1>2 DEF Range
<1> QED
  BY <1>1, <1>2, <1>4, <1>5, <1>6

\* a compiled match,
LEMMA MatchCompiled ==
  ASSUME NEW m
  PROVE  /\ CompileMatch(m).type = m.type /\ CompileMatch(m).value = m.value
         /\ CompileMatch(m).re = CompileCondition(m).re
         /\ CompileMatch(m).all = CompiledSeq(m.all) /\ CompileMatch(m).any = CompiledSeq(m.any)
         /\ CompileMatch(m).nott = IF m.nott = None THEN None ELSE CompileCondition(m.nott)
BY DEF CompileMatch, CompiledSeq

MatchOK(m) ==
  /\ m.type \in MatchTypes \/ m.all # <<>> \/ m.any # <<>>
  /\ m.type \in MatchTypes /\ m.type # "catch_all" => m.value # <<>>
  /\ \A c \in Conditions(m) \ {m} : c.type \in MatchTypes
  /\ \A c \in Conditions(m) : c.type = "path_regex" => c.value \in DOMAIN Regexes

\* which is as valid as the match was.
LEMMA CompiledMatchOK ==
  ASSUME NEW m \in RouterMatch, MatchOK(m)
  PROVE  MatchOK(CompileMatch(m))
<1>1. /\ m.all \in Seq(RouterCondition) /\ m.any \in Seq(RouterCondition) /\ m.nott \in Optional(RouterCondition)
      /\ DOMAIN m = {"type", "value", "re", "all", "any", "nott"}
  BY DEF RouterMatch
<1>2. \A c \in RouterCondition : c # m
  <2> SUFFICES ASSUME NEW c \in RouterCondition PROVE c # m
    OBVIOUS
  <2>1. DOMAIN c = {"type", "value", "re"}
    BY DEF RouterCondition
  <2>2. "all" \notin DOMAIN c /\ "all" \in DOMAIN m
    BY <1>1, <2>1
  <2> QED
    BY <2>2
<1>3. PICK x : x = CompileMatch(m)
  OBVIOUS
<1>4. /\ x.type = m.type /\ x.value = m.value /\ x.all = CompiledSeq(m.all) /\ x.any = CompiledSeq(m.any)
      /\ x.nott = IF m.nott = None THEN None ELSE CompileCondition(m.nott)
  BY <1>3, MatchCompiled, Zenon
<1>5. ASSUME NEW c \in Conditions(x), c # x
      PROVE  \E b \in Conditions(m) : b \in RouterCondition /\ c = CompileCondition(b)
  <2>1. CASE c \in Range(x.all)
    BY <1>1, <1>4, <2>1, SeqCompiled DEF Conditions
  <2>2. CASE c \in Range(x.any)
    BY <1>1, <1>4, <2>2, SeqCompiled DEF Conditions
  <2>3. CASE x.nott # None /\ c = x.nott
    BY <1>1, <1>4, <2>3 DEF Conditions, Optional
  <2> QED
    BY <1>5, <2>1, <2>2, <2>3, Zenon DEF Conditions
<1>6. ASSUME NEW c \in Conditions(x), c # x
      PROVE  c.type \in MatchTypes /\ (c.type = "path_regex" => c.value \in DOMAIN Regexes)
  <2>1. PICK b \in Conditions(m) : b \in RouterCondition /\ c = CompileCondition(b)
    BY <1>5, <1>6
  <2>2. c.type = b.type /\ c.value = b.value
    BY <2>1, ConditionCompiled
  <2>3. b \in Conditions(m) \ {m}
    BY <1>2, <2>1
  <2> QED
    BY <2>2, <2>3 DEF MatchOK
<1>7. m \in Conditions(m)
  BY DEF Conditions
<1>8. m.type = "path_regex" => m.value \in DOMAIN Regexes
  BY <1>7 DEF MatchOK
<1>9. m.all # <<>> => x.all # <<>>
  BY <1>1, <1>4, SeqCompiled
<1>10. m.any # <<>> => x.any # <<>>
  BY <1>1, <1>4, SeqCompiled
<1>11. MatchOK(x)
  BY <1>4, <1>6, <1>8, <1>9, <1>10, Zenon DEF MatchOK
<1> QED
  BY <1>3, <1>11

\* RouterValidate, rule by rule.
LEMMA RouterValidateIs ==
  ASSUME NEW r
  PROVE  RouterValidate(r) <=> \A i \in DOMAIN r.rules : MatchOK(r.rules[i].match) /\ r.rules[i].target # ""
BY Zenon DEF RouterValidate, ValidateRule, Compilable, MatchOK

\* A stored router compiles, and the compiled one is valid.
LEMMA CompiledValid ==
  ASSUME NEW r \in Routers, RouterValidate(r)
  PROVE  SetRouter(r) = Compile(r) /\ RouterValidate(Compile(r))
<1>1. SetRouter(r) = Compile(r)
  BY Zenon DEF SetRouter, RouterValidate
<1>2. PICK rules \in Seq(Rules) : rules = r.rules
  BY DEF Routers, Rules
<1>3. \A i \in DOMAIN rules : rules[i].match \in RouterMatch /\ MatchOK(rules[i].match) /\ rules[i].target # ""
  <2>1. \A i \in DOMAIN rules : rules[i] \in Rules
    BY SeqIs
  <2>2. \A i \in DOMAIN rules : MatchOK(rules[i].match) /\ rules[i].target # ""
    BY <1>2, RouterValidateIs
  <2> QED
    BY <2>1, <2>2 DEF Rules
<1>4. PICK y : y = Compile(r)
  OBVIOUS
<1>5. DOMAIN y.rules = DOMAIN rules
      /\ \A i \in DOMAIN rules : y.rules[i].match = CompileMatch(rules[i].match) /\ y.rules[i].target = rules[i].target
  BY <1>2, <1>4 DEF Compile
<1>6. \A i \in DOMAIN y.rules : MatchOK(y.rules[i].match) /\ y.rules[i].target # ""
  <2> SUFFICES ASSUME NEW i \in DOMAIN rules PROVE MatchOK(y.rules[i].match) /\ y.rules[i].target # ""
    BY <1>5
  <2>1. PICK m \in RouterMatch : m = rules[i].match
    BY <1>3
  <2>2. MatchOK(CompileMatch(m))
    BY <1>3, <2>1, CompiledMatchOK
  <2>3. y.rules[i].target # ""
    BY <1>3, <1>5
  <2> QED
    BY <1>5, <2>1, <2>2, <2>3
<1>7. RouterValidate(y)
  BY <1>6, RouterValidateIs
<1> QED
  BY <1>1, <1>4, <1>7

\* A stored object is stored under its id.
LEMMA StoredAt ==
  ASSUME NEW st, StoreOK(st), NEW k \in Kind, NEW o \in Range(st[k])
  PROVE  ObjectOK(k, o) /\ Anchored(st, k, o) /\ o.id \in DOMAIN st[k] /\ st[k][o.id] = o
<1>1. PICK n \in DOMAIN st[k] : o = st[k][n]
  BY DEF Range
<1> QED
  BY <1>1, StoreFacts

\* Where every weight fits the agent has the store itself.
LEMMA AgentExact ==
  ASSUME StoreOK(store), \A p \in Range(store["Pool"]) : FitInt32(p)
  PROVE  AgentStore = store
<1>1. IsFcn(store, Kind) /\ IsFcn(AgentStore, Kind)
  BY KindsAre, StoreFacts, AgentHas
<1>2. ASSUME NEW k \in Kind PROVE AgentStore[k] = store[k]
  <2>1. PICK f, g : f = AgentStore[k] /\ g = store[k]
    OBVIOUS
  <2>2. /\ DOMAIN f = DOMAIN g /\ IsFcn(f, DOMAIN g) /\ \A n \in DOMAIN g : f[n] = Back(k, g[n])
    BY <2>1, AgentHas
  <2>3. IsFcn(g, DOMAIN g) /\ \A n \in DOMAIN g : ObjectOK(k, g[n])
    BY <2>1, StoreFacts
  <2>4. \A n \in DOMAIN g : k = "Pool" => FitInt32(g[n])
    BY <2>1 DEF Range
  <2>5. ASSUME NEW n \in DOMAIN g PROVE f[n] = g[n]
    <3>1. PICK o : o = g[n]
      OBVIOUS
    <3>2. ObjectOK(k, o) /\ (k = "Pool" => FitInt32(o))
      BY <2>3, <2>4, <3>1
    <3>3. Back(k, o) = o
      BY <3>2, BackIs
    <3> QED
      BY <2>2, <3>1, <3>3
  <2>6. f = g
    BY <2>2, <2>3, <2>5, FcnIs
  <2> QED
    BY <2>1, <2>6
<1> QED
  BY <1>1, <1>2, FcnIs

\* The proxies of a stored pool exist.
LEMMA PoolAnchored ==
  ASSUME NEW st, StoreOK(st), NEW p \in Range(st["Pool"])
  PROVE  p \in Pools /\ PoolValidate(p) /\ Range(MemberIds(p)) \subseteq DOMAIN st["Proxy"]
<1>1. "Pool" \in Kind /\ "Proxy" \in Kind
  BY KindsAre
<1>2. ObjectOK("Pool", p) /\ Anchored(st, "Pool", p)
  BY <1>1, StoredAt
<1>3. Refers("Pool", p, "Proxy") \subseteq DOMAIN st["Proxy"]
  BY <1>1, <1>2 DEF Anchored
<1>4. Refers("Pool", p, "Proxy") = Range(MemberIds(p))
  BY <1>1, RefersArms
<1>5. p \in Pools /\ PoolValidate(p)
  BY <1>2, ObjectArms, Zenon
<1> QED
  BY <1>3, <1>4, <1>5

\* The control plane knows every proxy that a stored pool asks for.
LEMMA PoolResolves ==
  ASSUME StoreOK(store), NEW p \in Range(store["Pool"])
  PROVE  ResolveProxies(store, p).err = ""
<1>1. PoolValidate(p) /\ Range(MemberIds(p)) \subseteq DOMAIN store["Proxy"]
  BY PoolAnchored
<1>2. CASE p.type = "static"
  <2>1. p.members # <<>>
    BY <1>1, <1>2, Zenon DEF PoolValidate
  <2>2. p.members \in Seq([proxy_id : STRING, weight : Int])
    BY PoolAnchored DEF Pools
  <2>3. 1 \in DOMAIN p.members
    BY <2>1, <2>2
  <2>4. PICK ids : ids = MemberIds(p)
    OBVIOUS
  <2>5. ids # <<>>
    BY <2>3, <2>4 DEF MemberIds
  <2>6. GetByIds(store, ids).err = ""
    BY <1>1, <2>4 DEF GetByIds, Found
  <2>7. ServeProxiesByIds(store, ids).err = ""
    BY <2>5, <2>6 DEF ServeProxiesByIds, Found
  <2>8. CallProxiesByIds(store, ids).err = ""
    BY <2>7 DEF CallProxiesByIds, Found
  <2>9. ResolveProxies(store, p) = CallProxiesByIds(store, MemberIds(p))
    BY <1>2, Zenon DEF ResolveProxies
  <2> QED
    BY <2>4, <2>8, <2>9
<1>3. CASE p.type # "static"
  <2>1. PICK labels : labels = p.selector
    OBVIOUS
  <2>2. labels # {}
    BY <1>1, <1>3, <2>1, Zenon DEF PoolValidate
  <2>3. ServeProxiesByLabels(store, labels).err = ""
    BY <2>2 DEF ServeProxiesByLabels, Found
  <2>4. CallProxiesByLabels(store, labels).err = ""
    BY <2>3 DEF CallProxiesByLabels, Found
  <2>5. ResolveProxies(store, p) = CallProxiesByLabels(store, p.selector)
    BY <1>3, Zenon DEF ResolveProxies
  <2> QED
    BY <2>1, <2>4, <2>5
<1> QED
  BY <1>2, <1>3

\* The agent can build every stored balancer,
LEMMA BalancerBuilds ==
  ASSUME StoreOK(store), NEW b \in Range(store["LoadBalancer"])
  PROVE  /\ b.type \in BalancerTypes /\ b.pool_id \in DOMAIN store["Pool"]
         /\ ResolveProxies(store, store["Pool"][b.pool_id]).err = ""
         /\ b.type = "weighted" => /\ store["Pool"][b.pool_id].type = "static"
                                   /\ \A m \in Range(store["Pool"][b.pool_id].members) : m.weight >= 1
<1>1. "Pool" \in Kind /\ "LoadBalancer" \in Kind
  BY KindsAre
<1>2. ObjectOK("LoadBalancer", b) /\ Anchored(store, "LoadBalancer", b) /\ b.id \in DOMAIN store["LoadBalancer"]
      /\ store["LoadBalancer"][b.id] = b
  BY <1>1, StoredAt
<1>3. b.type \in BalancerTypes
  BY <1>2, ObjectArms, Zenon
<1>4. Refers("LoadBalancer", b, "Pool") \subseteq DOMAIN store["Pool"] /\ Refers("LoadBalancer", b, "Pool") = {b.pool_id}
  BY <1>1, <1>2, RefersArms DEF Anchored
<1>5. b.pool_id \in DOMAIN store["Pool"]
  BY <1>4
<1>6. PICK p : p = store["Pool"][b.pool_id]
  OBVIOUS
<1>7. p \in Range(store["Pool"])
  BY <1>5, <1>6 DEF Range
<1>8. ResolveProxies(store, p).err = ""
  BY <1>7, PoolResolves
<1>9. b.type = "weighted" => p.type = "static"
  BY <1>2, <1>6 DEF StoreOK, WeightsApply
<1>10. PoolValidate(p)
  BY <1>7, PoolAnchored
<1>11. p.type = "static" => \A m \in Range(p.members) : m.weight >= 1
  BY <1>10 DEF PoolValidate
<1> QED
  BY <1>3, <1>5, <1>6, <1>8, <1>9, <1>11

\* so its bootstrap succeeds,
LEMMA Bootstraps ==
  ASSUME StoreOK(store)
  PROVE  BootstrapSucceeds(store)
<1>1. "Entrypoint" \in Kind /\ "Router" \in Kind
  BY KindsAre
<1>2. ASSUME NEW e \in Range(store["Entrypoint"]) PROVE EntrypointValidate(e)
  BY <1>1, StoredAt, ObjectArms
<1>3. ASSUME NEW r \in Range(store["Router"]) PROVE RouterValidate(SetRouter(r))
  <2>1. ObjectOK("Router", r)
    BY <1>1, StoredAt
  <2>2. r \in Routers /\ RouterValidate(r)
    BY <2>1, ObjectArms, Zenon
  <2> QED
    BY <2>2, CompiledValid
<1>4. ASSUME NEW b \in Range(store["LoadBalancer"])
      PROVE  /\ b.type \in BalancerTypes /\ b.pool_id \in DOMAIN store["Pool"]
             /\ LET p == store["Pool"][b.pool_id] IN
                /\ ResolveProxies(store, p).err = ""
                /\ b.type = "weighted" => p.type = "static" /\ \A m \in Range(p.members) : m.weight >= 1
  BY <1>4, BalancerBuilds
<1> QED
  BY <1>2, <1>3, <1>4 DEF BootstrapSucceeds

\* and the invariant contains the property.
LEMMA InvAccepts == ConfigInv => AgentAcceptsStored
<1> SUFFICES ASSUME ConfigInv, \A p \in Range(store["Pool"]) : FitInt32(p) PROVE BootstrapSucceeds(AgentStore)
  BY DEF AgentAcceptsStored
<1>1. StoreOK(store)
  BY DEF ConfigInv
<1>2. AgentStore = store
  BY <1>1, AgentExact
<1> QED
  BY <1>1, <1>2, Bootstraps

\* application.go:37-127: whatever manifests either channel sent, in any order and with
\* any of them refused, an agent that starts on what is stored accepts all of it and can
\* build every balancer, as long as the stored weights fit the wire.
THEOREM EveryAgentStarts == ConfigSpec => []AgentAcceptsStored
  BY ConfigInvAlways, InvAccepts, PTL

\* cp_error.go, resource_error.go: on any store both channels report a delete of what is
\* still referred to, and bring any manifest with a name, and weights that both can
\* carry, to the same store or both refuse it.
THEOREM ChannelsAlwaysAgree == ConfigSpec => []ChannelsAgree
  BY AgreeAlways, PTL

-----------------------------------------------------------------------------
(***************************************************************************)
(* ConfigPath: what is shown may be saved again.                           *)
(***************************************************************************)

\* What the dashboard shows of a proxy: all but the password.
LEMMA Redacted ==
  ASSUME NEW o \in Proxies
  PROVE  LET v == RedactProxy(o) IN
         /\ v.id = o.id /\ v.protocol = o.protocol /\ v.host = o.host /\ v.port = o.port /\ v.labels = o.labels
         /\ v.auth # None => v.auth.pass = ""
<1>1. DOMAIN o = {"id", "protocol", "host", "port", "auth", "labels"} /\ o.auth \in Optional(AuthSpec)
  BY DEF Proxies
<1>2. CASE o.auth = None
  BY <1>2, Zenon DEF RedactProxy
<1>3. CASE o.auth # None
  <2>1. DOMAIN o.auth = {"user", "pass"}
    BY <1>1, <1>3 DEF Optional, AuthSpec
  <2>2. RedactProxy(o) = [o EXCEPT !.auth.pass = ""]
    BY <1>3, Zenon DEF RedactProxy
  <2> QED
    BY <1>1, <2>1, <2>2
<1> QED
  BY <1>2, <1>3

\* Saving again what was read of a name.
SavesSame(st, k, n, a) ==
  Refusal(st, a) \/ (a.err = "" /\ a.st = Put(st, k, st[k][n]) /\ (k = "Proxy" => a.obj = st[k][n]))

\* Saving the same object changes nothing.
LEMMA SavedSame ==
  ASSUME NEW st, StoreOK(st), NEW k \in Kind, NEW n \in DOMAIN st[k], NEW a, SavesSame(st, k, n, a)
  PROVE  a.st = st
<1>1. PICK o : o = st[k][n]
  OBVIOUS
<1>2. IsFcn(st, Kind) /\ IsFcn(st[k], DOMAIN st[k]) /\ o.id = n
  BY <1>1, StoreFacts
<1>3. o.id \in DOMAIN st[k] /\ st[k][o.id] = o
  BY <1>1, <1>2
<1>4. Put(st, k, o) = st
  BY <1>2, <1>3, PutSame
<1> QED
  BY <1>1, <1>4 DEF SavesSame, Refusal

IsMeta(meta, n, labels) == meta = [name |-> n, labels |-> labels]

\* A name that is there is kept.
LEMMA NamedKept ==
  ASSUME NEW n \in STRING \ {""}, NEW labels \in LabelMaps, NEW meta, IsMeta(meta, n, labels)
  PROVE  meta \in Metadata /\ Named(meta) = meta /\ meta.name = n /\ meta.labels = labels
<1>1. meta \in Metadata /\ meta.name = n /\ meta.labels = labels
  BY DEF Metadata, IsMeta
<1>2. Named(meta) = meta
  BY <1>1, NamedIs
<1> QED
  BY <1>1, <1>2

\* What is shown, saved again, is what is stored: a proxy, whose password is kept,
LEMMA ProxySavedAgain ==
  ASSUME NEW st, StoreOK(st), NEW n \in DOMAIN st["Proxy"], NEW o, o = st["Proxy"][n],
         NEW meta, IsMeta(meta, n, RedactProxy(o).labels)
  PROVE  SavesSame(st, "Proxy", n, ApplyProxyV1(st, meta, PutBack("Proxy", RedactProxy(o))))
<1>1. "Proxy" \in Kind
  BY KindsAre
<1>2. ObjectOK("Proxy", o) /\ n \in STRING /\ n # "" /\ o.id = n
  BY <1>1, StoreFacts
<1>3. o \in Proxies /\ ProxyValidate(o)
  BY <1>2, ObjectArms, Zenon
<1>4. /\ o = [id |-> o.id, protocol |-> o.protocol, host |-> o.host, port |-> o.port, auth |-> o.auth, labels |-> o.labels]
      /\ o.protocol \in STRING /\ o.host \in STRING /\ o.port \in Port /\ o.labels \in LabelMaps
  BY <1>3 DEF Proxies
<1>5. PICK v : v = RedactProxy(o)
  OBVIOUS
<1>6. v.protocol = o.protocol /\ v.host = o.host /\ v.port = o.port /\ v.labels = o.labels
  BY <1>3, <1>5, Redacted
<1>7. PICK s : s = PutBack("Proxy", v)
  OBVIOUS
<1>8. s = [url |-> None, protocol |-> o.protocol, host |-> o.host, port |-> o.port, auth |-> None]
  BY <1>6, <1>7, Zenon DEF PutBack
<1>9. s \in ProxySpecV1
  BY <1>4, <1>8 DEF ProxySpecV1, Optional
<1>10. IsMeta(meta, n, o.labels)
  BY <1>5, <1>6
<1>11. meta \in Metadata /\ Named(meta) = meta /\ meta.name = n /\ meta.labels = o.labels
  <2>1. PICK labels : labels = o.labels
    OBVIOUS
  <2>2. n \in STRING \ {""} /\ labels \in LabelMaps /\ IsMeta(meta, n, labels)
    BY <1>2, <1>4, <1>10, <2>1
  <2>3. meta \in Metadata /\ Named(meta) = meta /\ meta.name = n /\ meta.labels = labels
    BY <2>2, NamedKept
  <2> QED
    BY <2>1, <2>3
<1>12. PICK w : w = ProxyWritten(n, o.labels, s, AuthAfter(st, n, s))
  OBVIOUS
<1>13. Outcome(st, ApplyProxyV1(st, meta, s), "Proxy", n, w)
  BY <1>9, <1>11, <1>12, ProxyOutcome
<1>14. s.url = None /\ s.auth = None /\ s.protocol = o.protocol /\ s.host = o.host /\ s.port = o.port
  BY <1>8
<1>15. AuthAfter(st, n, s) = o.auth
  BY <1>14, Zenon DEF AuthAfter
<1>16. ProtocolOf(s) = o.protocol /\ HostOf(s) = o.host /\ PortOf(s) = o.port
  BY <1>14, Zenon DEF ProtocolOf, HostOf, PortOf
<1>17. w = o
  BY <1>2, <1>4, <1>12, <1>15, <1>16 DEF ProxyWritten
<1>18. SavesSame(st, "Proxy", n, ApplyProxyV1(st, meta, s))
  BY <1>13, <1>17, Zenon DEF Outcome, SavesSame
<1> QED
  BY <1>5, <1>7, <1>18

\* a pool,
LEMMA PoolSavedAgain ==
  ASSUME NEW st, StoreOK(st), NEW n \in DOMAIN st["Pool"], NEW o, o = st["Pool"][n],
         NEW meta, IsMeta(meta, n, o.labels)
  PROVE  SavesSame(st, "Pool", n, ApplyPoolV1(st, meta, o))
<1>1. "Pool" \in Kind
  BY KindsAre
<1>2. ObjectOK("Pool", o) /\ n \in STRING /\ n # "" /\ o.id = n
  BY <1>1, StoreFacts
<1>3. o \in Pools /\ PoolValidate(o)
  BY <1>2, ObjectArms, Zenon
<1>4. PICK ms \in Seq(Members) : ms = o.members
  BY <1>3 DEF Pools, Members
<1>5. o = [id |-> n, type |-> o.type, labels |-> o.labels, members |-> ms, selector |-> o.selector] /\ o.labels \in LabelMaps
  BY <1>2, <1>3, <1>4 DEF Pools
<1>6. Named(meta) = meta /\ meta.name = n /\ meta.labels = o.labels
  <2>1. PICK labels : labels = o.labels
    OBVIOUS
  <2>2. n \in STRING \ {""} /\ labels \in LabelMaps /\ IsMeta(meta, n, labels)
    BY <1>2, <1>5, <2>1
  <2>3. meta \in Metadata /\ Named(meta) = meta /\ meta.name = n /\ meta.labels = labels
    BY <2>2, NamedKept
  <2> QED
    BY <2>1, <2>3
<1>7. [i \in DOMAIN ms |-> [proxy_id |-> ms[i].proxy_id, weight |-> ResolvedWeight(ms[i])]] = ms
  <2>1. ASSUME NEW m \in Members PROVE [proxy_id |-> m.proxy_id, weight |-> ResolvedWeight(m)] = m
    <3>1. m.weight \in Int /\ m = [proxy_id |-> m.proxy_id, weight |-> m.weight]
      BY DEF Members
    <3>2. m.weight # None
      BY <3>1, NilAssumption
    <3>3. ResolvedWeight(m) = m.weight
      BY <3>2, Zenon DEF ResolvedWeight
    <3> QED
      BY <3>1, <3>3
  <2>2. ms = [i \in DOMAIN ms |-> ms[i]] /\ \A i \in DOMAIN ms : ms[i] \in Members
    BY SeqIs
  <2> QED
    BY <2>1, <2>2
<1>8. \/ o.type = "static" /\ o.selector = None
      \/ o.type = "dynamic" /\ ms = <<>>
  BY <1>3, <1>4, Zenon DEF PoolValidate
<1>9. (IF o.type # "static" THEN <<>>
       ELSE [i \in DOMAIN o.members |-> [proxy_id |-> o.members[i].proxy_id, weight |-> ResolvedWeight(o.members[i])]]) = ms
  <2>1. CASE o.type = "static"
    BY <1>4, <1>7, <2>1, Zenon
  <2>2. CASE o.type # "static"
    BY <1>8, <2>2, Zenon
  <2> QED
    BY <2>1, <2>2
<1>10. (IF o.type = "dynamic" THEN o.selector ELSE None) = o.selector
  BY <1>8, Zenon
<1>11. PoolFromSpecV1(meta, o) = [id |-> n, type |-> o.type, labels |-> o.labels, members |-> ms, selector |-> o.selector]
  BY <1>6, <1>9, <1>10, Zenon DEF PoolFromSpecV1
<1>12. PoolFromSpecV1(Named(meta), o) = o
  BY <1>5, <1>6, <1>11
<1>13. Refusal(st, ApplyPoolV1(st, meta, o)) \/ Acceptance(ApplyPoolV1(st, meta, o), Put(st, "Pool", o), o)
  BY <1>12, PoolApplied
<1> QED
  BY <1>13, Zenon DEF SavesSame, Acceptance

\* a balancer, its interval shown as text,
LEMMA BalancerSavedAgain ==
  ASSUME NEW st, StoreOK(st), NEW n \in DOMAIN st["LoadBalancer"], NEW o, o = st["LoadBalancer"][n],
         NEW meta, IsMeta(meta, n, {})
  PROVE  SavesSame(st, "LoadBalancer", n, ApplyBalancerV1(st, meta, MapBalancer(o)))
<1>1. "LoadBalancer" \in Kind
  BY KindsAre
<1>2. ObjectOK("LoadBalancer", o) /\ n \in STRING /\ n # "" /\ o.id = n
  BY <1>1, StoreFacts
<1>3. o \in Balancers /\ (o.type = "least-bytes" => o.reset_interval \in {60, 90}) /\ (o.type # "least-bytes" => o.reset_interval = 0)
  BY <1>2, ObjectArms, Zenon
<1>4. PICK v : v = MapBalancer(o)
  OBVIOUS
<1>5. DOMAIN o = {"id", "type", "pool_id", "reset_interval"}
      /\ o = [id |-> o.id, type |-> o.type, pool_id |-> o.pool_id, reset_interval |-> o.reset_interval]
  BY <1>3 DEF Balancers
<1>6. PICK t : t = CASE o.type # "least-bytes" \/ o.reset_interval = 0 -> ""
                     [] o.type = "least-bytes" /\ DurationString[o.reset_interval] = "1m0s" -> "1m"
                     [] OTHER -> DurationString[o.reset_interval]
  OBVIOUS
<1>7. v = [o EXCEPT !.reset_interval = t]
  BY <1>4, <1>6, Zenon DEF MapBalancer
<1>8. v.type = o.type /\ v.pool_id = o.pool_id /\ v.reset_interval = t
  BY <1>5, <1>7
<1>9. ASSUME o.type = "least-bytes" PROVE ResolvedResetInterval(v) = o.reset_interval
  <2>1. CASE o.reset_interval = 60
    <3>1. t = "1m"
      BY <1>6, <1>9, <2>1, DurationsAre
    <3> QED
      BY <1>8, <2>1, <3>1, DurationsAre DEF ResolvedResetInterval
  <2>2. CASE o.reset_interval = 90
    <3>1. t = "1m30s"
      BY <1>6, <1>9, <2>2, DurationsAre
    <3> QED
      BY <1>8, <2>2, <3>1, DurationsAre DEF ResolvedResetInterval
  <2> QED
    BY <1>3, <1>9, <2>1, <2>2
<1>10. Named(meta) = meta /\ meta.name = n
  <2>1. n \in STRING \ {""} /\ {} \in LabelMaps
    BY <1>2 DEF LabelMaps
  <2> QED
    BY <2>1, NamedKept
<1>11. BalancerFromSpecV1(meta, v) = [id |-> n, type |-> o.type, pool_id |-> o.pool_id,
          reset_interval |-> IF o.type = "least-bytes" THEN ResolvedResetInterval(v) ELSE 0]
  BY <1>8, <1>10, Zenon DEF BalancerFromSpecV1
<1>12. (IF o.type = "least-bytes" THEN ResolvedResetInterval(v) ELSE 0) = o.reset_interval
  BY <1>3, <1>9, Zenon
<1>13. BalancerFromSpecV1(Named(meta), v) = o
  BY <1>2, <1>5, <1>10, <1>11, <1>12
<1>14. Refusal(st, ApplyBalancerV1(st, meta, v)) \/ Acceptance(ApplyBalancerV1(st, meta, v), Put(st, "LoadBalancer", o), o)
  BY <1>13, BalancerApplied
<1> QED
  BY <1>4, <1>14, Zenon DEF SavesSame, Acceptance

\* a router,
LEMMA RouterSavedAgain ==
  ASSUME NEW st, StoreOK(st), NEW n \in DOMAIN st["Router"], NEW o, o = st["Router"][n],
         NEW meta, IsMeta(meta, n, {})
  PROVE  SavesSame(st, "Router", n, ApplyRouterV1(st, meta, o))
<1>1. "Router" \in Kind
  BY KindsAre
<1>2. ObjectOK("Router", o) /\ n \in STRING /\ n # "" /\ o.id = n
  BY <1>1, StoreFacts
<1>3. o \in Routers /\ o = RouterFromSpecV1([name |-> o.id], o)
  BY <1>2, ObjectArms, Zenon
<1>4. Named(meta) = meta /\ meta.name = n
  <2>1. n \in STRING \ {""} /\ {} \in LabelMaps
    BY <1>2 DEF LabelMaps
  <2> QED
    BY <2>1, NamedKept
<1>5. RouterFromSpecV1(Named(meta), o) = RouterFromSpecV1([name |-> n], o)
  BY <1>4 DEF RouterFromSpecV1
<1>6. RouterFromSpecV1(Named(meta), o) = o
  BY <1>2, <1>3, <1>5
<1>7. \A i \in DOMAIN o.rules : ConditionTyped(o.rules[i].match.nott)
  <2>1. PICK rules \in Seq(Rules) : rules = o.rules
    BY <1>3 DEF Routers, Rules
  <2>2. ASSUME NEW i \in DOMAIN rules PROVE ConditionTyped(rules[i].match.nott)
    <3>1. rules[i] \in Rules
      BY SeqIs
    <3>2. PICK c \in Optional(RouterCondition) : c = rules[i].match.nott
      BY <3>1 DEF Rules, RouterMatch
    <3>3. ConditionTyped(c)
      BY DEF Optional, RouterCondition, ConditionTyped
    <3> QED
      BY <3>2, <3>3
  <2> QED
    BY <2>1, <2>2
<1>8. \/ Refusal(st, ApplyRouterV1(st, meta, o))
      \/ Acceptance(ApplyRouterV1(st, meta, o), Put(st, "Router", o), Compile(o))
  BY <1>6, <1>7, RouterApplied
<1>9. "Router" # "Proxy"
  OBVIOUS
<1> QED
  BY <1>8, <1>9, Zenon DEF SavesSame, Acceptance

\* a flow,
LEMMA FlowSavedAgain ==
  ASSUME NEW st, StoreOK(st), NEW n \in DOMAIN st["Flow"], NEW o, o = st["Flow"][n],
         NEW meta, IsMeta(meta, n, {})
  PROVE  SavesSame(st, "Flow", n, ApplyFlowV1(st, meta, o))
<1>1. "Flow" \in Kind
  BY KindsAre
<1>2. ObjectOK("Flow", o) /\ n \in STRING /\ n # "" /\ o.id = n
  BY <1>1, StoreFacts
<1>3. o \in Flows
  BY <1>2, ObjectArms, Zenon
<1>4. Named(meta) = meta /\ meta.name = n
  <2>1. n \in STRING \ {""} /\ {} \in LabelMaps
    BY <1>2 DEF LabelMaps
  <2> QED
    BY <2>1, NamedKept
<1>5. FlowFromSpecV1(Named(meta), o) = o
  BY <1>2, <1>3, <1>4 DEF FlowFromSpecV1, Flows
<1>6. Refusal(st, ApplyFlowV1(st, meta, o)) \/ Acceptance(ApplyFlowV1(st, meta, o), Put(st, "Flow", o), o)
  BY <1>5, FlowApplied
<1> QED
  BY <1>6, Zenon DEF SavesSame, Acceptance

\* an entrypoint,
LEMMA EntrypointSavedAgain ==
  ASSUME NEW st, StoreOK(st), NEW n \in DOMAIN st["Entrypoint"], NEW o, o = st["Entrypoint"][n],
         NEW meta, IsMeta(meta, n, {})
  PROVE  SavesSame(st, "Entrypoint", n, ApplyEntrypointV1(st, meta, o))
<1>1. "Entrypoint" \in Kind
  BY KindsAre
<1>2. ObjectOK("Entrypoint", o) /\ n \in STRING /\ n # "" /\ o.id = n
  BY <1>1, StoreFacts
<1>3. o \in Entrypoints
  BY <1>2, ObjectArms, Zenon
<1>4. Named(meta) = meta /\ meta.name = n
  <2>1. n \in STRING \ {""} /\ {} \in LabelMaps
    BY <1>2 DEF LabelMaps
  <2> QED
    BY <2>1, NamedKept
<1>5. EntrypointFromSpecV1(Named(meta), o) = o
  BY <1>2, <1>3, <1>4 DEF EntrypointFromSpecV1, Entrypoints
<1>6. Refusal(st, ApplyEntrypointV1(st, meta, o))
      \/ Acceptance(ApplyEntrypointV1(st, meta, o), Put(st, "Entrypoint", o), o)
  BY <1>5, EntrypointApplied
<1> QED
  BY <1>6, Zenon DEF SavesSame, Acceptance

\* The metadata that is put back with a shown resource.
ShownMeta(k, n, v) == [name |-> n, labels |-> IF k \in {"Proxy", "Pool"} THEN v.labels ELSE {}]

\* any kind.
LEMMA SavedAgain ==
  ASSUME NEW st, StoreOK(st), NEW k \in Kind, NEW n \in DOMAIN st[k], NEW v, v = Viewed(k, st[k][n])
  PROVE  SavesSame(st, k, n, Applied(st, k, ShownMeta(k, n, v), PutBack(k, v)))
<1>1. PICK o : o = st[k][n]
  OBVIOUS
<1>2. PICK meta : meta = ShownMeta(k, n, v)
  OBVIOUS
<1>3. PICK s : s = PutBack(k, v)
  OBVIOUS
<1>4. CASE k = "Proxy"
  <2>1. v = RedactProxy(o) /\ s = PutBack("Proxy", v) /\ Applied(st, k, meta, s) = ApplyProxyV1(st, meta, s)
    BY <1>1, <1>3, <1>4, Zenon DEF Viewed, Applied
  <2>2. IsMeta(meta, n, RedactProxy(o).labels)
    BY <1>2, <1>4, <2>1 DEF IsMeta, ShownMeta
  <2>3. SavesSame(st, "Proxy", n, ApplyProxyV1(st, meta, PutBack("Proxy", RedactProxy(o))))
    BY <1>1, <1>4, <2>2, ProxySavedAgain, Zenon
  <2> QED
    BY <1>2, <1>3, <1>4, <2>1, <2>3, Zenon
<1>5. CASE k = "Pool"
  <2>1. v = o /\ s = v /\ Applied(st, k, meta, s) = ApplyPoolV1(st, meta, s)
    BY <1>1, <1>3, <1>5, Zenon DEF Viewed, Applied, PutBack
  <2>2. IsMeta(meta, n, o.labels)
    BY <1>2, <1>5, <2>1 DEF IsMeta, ShownMeta
  <2>3. SavesSame(st, "Pool", n, ApplyPoolV1(st, meta, o))
    BY <1>1, <1>5, <2>2, PoolSavedAgain, Zenon
  <2> QED
    BY <1>2, <1>3, <1>5, <2>1, <2>3, Zenon
<1>6. k \notin {"Proxy", "Pool"} => IsMeta(meta, n, {})
  BY <1>2, Zenon DEF IsMeta, ShownMeta
<1>7. CASE k = "LoadBalancer"
  <2>1. v = MapBalancer(o) /\ s = v /\ Applied(st, k, meta, s) = ApplyBalancerV1(st, meta, s)
    BY <1>1, <1>3, <1>7, Zenon DEF Viewed, Applied, PutBack
  <2>2. SavesSame(st, "LoadBalancer", n, ApplyBalancerV1(st, meta, MapBalancer(o)))
    BY <1>1, <1>6, <1>7, BalancerSavedAgain, Zenon
  <2> QED
    BY <1>2, <1>3, <1>7, <2>1, <2>2, Zenon
<1>8. CASE k = "Router"
  <2>1. v = o /\ s = v /\ Applied(st, k, meta, s) = ApplyRouterV1(st, meta, s)
    BY <1>1, <1>3, <1>8, Zenon DEF Viewed, Applied, PutBack
  <2>2. SavesSame(st, "Router", n, ApplyRouterV1(st, meta, o))
    BY <1>1, <1>6, <1>8, RouterSavedAgain, Zenon
  <2> QED
    BY <1>2, <1>3, <1>8, <2>1, <2>2, Zenon
<1>9. CASE k = "Flow"
  <2>1. v = o /\ s = v /\ Applied(st, k, meta, s) = ApplyFlowV1(st, meta, s)
    BY <1>1, <1>3, <1>9, Zenon DEF Viewed, Applied, PutBack
  <2>2. SavesSame(st, "Flow", n, ApplyFlowV1(st, meta, o))
    BY <1>1, <1>6, <1>9, FlowSavedAgain, Zenon
  <2> QED
    BY <1>2, <1>3, <1>9, <2>1, <2>2, Zenon
<1>10. CASE k = "Entrypoint"
  <2>1. v = o /\ s = v /\ Applied(st, k, meta, s) = ApplyEntrypointV1(st, meta, s)
    BY <1>1, <1>3, <1>10, Zenon DEF Viewed, Applied, PutBack
  <2>2. SavesSame(st, "Entrypoint", n, ApplyEntrypointV1(st, meta, o))
    BY <1>1, <1>6, <1>10, EntrypointSavedAgain, Zenon
  <2> QED
    BY <1>2, <1>3, <1>10, <2>1, <2>2, Zenon
<1> QED
  BY <1>4, <1>5, <1>7, <1>8, <1>9, <1>10, KindsAre

\* What the dashboard shows of a stored object.
LEMMA ShowIs ==
  ASSUME StoreOK(store), NEW k \in Kind, NEW n \in DOMAIN store[k]
  PROVE  Show(store, k, n) = Viewed(k, store[k][n])
<1>1. PICK o : o = store[k][n]
  OBVIOUS
<1>2. o # None
  BY <1>1, StoreFacts, StoredIs
<1>3. Find(store, k, n) = o
  BY <1>1 DEF Find
<1>4. Dashboard(store, k, Rq("get", Name(n), None)).json = OneViewed(k, o)
  BY <1>3, DashboardReads
<1>5. OneViewed(k, o) = {Viewed(k, o)}
  BY <1>2 DEF OneViewed
<1>6. (CHOOSE v \in {Viewed(k, o)} : TRUE) = Viewed(k, o)
  OBVIOUS
<1> QED
  BY <1>1, <1>4, <1>5, <1>6, Zenon DEF Show

\* The answer to saving a shown resource.
LEMMA SaveAnswered ==
  ASSUME StoreOK(store), NEW k \in Kind, NEW n \in DOMAIN store[k]
  PROVE  LET v == Show(store, k, n)
             r == Dashboard(store, k, Rq("apply", ShownMeta(k, n, v), PutBack(k, v)))
         IN  r.st = store /\ (k = "Proxy" => r.json \subseteq {RedactProxy(store[k][n])})
<1>1. PICK v : v = Show(store, k, n)
  OBVIOUS
<1>2. PICK meta, s : meta = ShownMeta(k, n, v) /\ s = PutBack(k, v)
  OBVIOUS
<1>3. PICK a : a = Applied(store, k, meta, s)
  OBVIOUS
<1>4. v = Viewed(k, store[k][n])
  BY <1>1, ShowIs
<1>5. SavesSame(store, k, n, a)
  BY <1>2, <1>3, <1>4, SavedAgain
<1>6. a.st = store
  BY <1>5, SavedSame
<1>7. meta.name # ""
  <2>1. n # ""
    BY StoreFacts
  <2> QED
    BY <1>2, <2>1 DEF ShownMeta
<1>8. Dashboard(store, k, Rq("apply", meta, s)).st = a.st /\ Dashboard(store, k, Rq("apply", meta, s)).json = OneViewed(k, a.obj)
  BY <1>3, <1>7, DashboardApplies, ZenonT(40)
<1>9. ASSUME k = "Proxy" PROVE OneViewed(k, a.obj) \subseteq {RedactProxy(store[k][n])}
  <2>1. a.obj = None \/ a.obj = store[k][n]
    BY <1>5, <1>9, Zenon DEF SavesSame, Refusal
  <2>2. \A o : Viewed(k, o) = RedactProxy(o)
    BY <1>9, Zenon DEF Viewed
  <2> QED
    BY <2>1, <2>2 DEF OneViewed
<1> QED
  BY <1>1, <1>2, <1>6, <1>8, <1>9

\* The invariant contains the property.
LEMMA InvRedacts == ConfigInv => RedactionRoundTrip
<1> SUFFICES ASSUME ConfigInv PROVE RedactionRoundTrip
  OBVIOUS
<1> DEFINE save(k, n) == LET v == Show(store, k, n) IN Dashboard(store, k, Rq("apply", ShownMeta(k, n, v), PutBack(k, v)))
           shown(n) == {Show(store, "Proxy", n)} \cup save("Proxy", n).json
                         \cup HandleProxies(store, Rq("list", Name(""), None)).json
<1>1. StoreOK(store) /\ "Proxy" \in Kind
  BY KindsAre DEF ConfigInv
<1>2. \A k \in Kind : \A n \in DOMAIN store[k] : save(k, n).st = store
  BY <1>1, SaveAnswered
<1>3. ASSUME NEW n \in DOMAIN store["Proxy"], NEW v \in shown(n)
      PROVE  \E o \in Range(store["Proxy"]) : v = RedactProxy(o)
  <2>1. store["Proxy"][n] \in Range(store["Proxy"])
    BY DEF Range
  <2>2. CASE v = Show(store, "Proxy", n)
    <3>1. v = Viewed("Proxy", store["Proxy"][n])
      BY <1>1, <2>2, ShowIs
    <3> QED
      BY <2>1, <3>1, Zenon DEF Viewed
  <2>3. CASE v \in save("Proxy", n).json
    <3>1. save("Proxy", n).json \subseteq {RedactProxy(store["Proxy"][n])}
      BY <1>1, SaveAnswered
    <3> QED
      BY <2>1, <2>3, <3>1
  <2>4. CASE v \in HandleProxies(store, Rq("list", Name(""), None)).json
    <3>1. Dashboard(store, "Proxy", Rq("list", Name(""), None)) = HandleProxies(store, Rq("list", Name(""), None))
      BY Zenon DEF Dashboard
    <3>2. Dashboard(store, "Proxy", Rq("list", Name(""), None)).json = AllViewed("Proxy", Range(store["Proxy"]))
      BY <1>1, DashboardReads
    <3>3. \A o : Viewed("Proxy", o) = RedactProxy(o)
      BY Zenon DEF Viewed
    <3>4. v \in AllViewed("Proxy", Range(store["Proxy"]))
      BY <2>4, <3>1, <3>2
    <3> QED
      BY <3>3, <3>4 DEF AllViewed
  <2> QED
    BY <2>2, <2>3, <2>4
<1>4. ASSUME NEW n \in DOMAIN store["Proxy"], NEW v \in shown(n) PROVE v.auth # None => v.auth.pass = ""
  <2>1. PICK o \in Range(store["Proxy"]) : v = RedactProxy(o)
    BY <1>3
  <2>2. ObjectOK("Proxy", o)
    BY <1>1, StoredAt
  <2>3. o \in Proxies
    BY <2>2, ObjectArms, Zenon
  <2> QED
    BY <2>1, <2>3, Redacted
<1> QED
  BY <1>2, <1>4, Zenon DEF RedactionRoundTrip, ShownMeta

\* redact.go, proxy.go:41-58: a PUT of any stored object as the dashboard's API shows it,
\* of a proxy without the redacted credentials, leaves the store as it is, the password
\* it did not show included, and no answer of the dashboard shows one.
THEOREM SavingWhatIsShownChangesNothing == ConfigSpec => []RedactionRoundTrip
  BY ConfigInvAlways, InvRedacts, PTL

-----------------------------------------------------------------------------
(***************************************************************************)
(* ConfigPath: agents serve what was written.                              *)
(***************************************************************************)

\* Conditions that agree on type, value and pattern decide alike.
LEMMA EvaluatesAlike ==
  ASSUME NEW c, NEW d, NEW req, c.type = d.type, c.value = d.value, c.type = "path_regex" => c.re = d.re
  PROVE  EvaluateCondition(c, req) <=> EvaluateCondition(d, req)
<1>1. CASE c.type = "path_regex"
  BY <1>1, Zenon DEF EvaluateCondition
<1>2. CASE c.type # "path_regex"
  BY <1>2, Zenon DEF EvaluateCondition
<1> QED
  BY <1>1, <1>2

\* What a condition of a manifest says about a request.
Holds(c, req) ==
  EvaluateCondition([type |-> c.type, value |-> c.value,
                     re |-> IF c.value \in DOMAIN Regexes THEN c.value ELSE None], req)

ConditionOK(c) == c.type = "path_regex" => c.value \in DOMAIN Regexes

\* A compiled condition decides as the written one says,
LEMMA ConditionHolds ==
  ASSUME NEW c, ConditionOK(c), NEW b, b.type = c.type, b.value = c.value, c.type = "path_regex" => b.re = c.value, NEW req
  PROVE  EvaluateCondition(b, req) <=> Holds(c, req)
<1>1. PICK d : d = [type |-> c.type, value |-> c.value, re |-> IF c.value \in DOMAIN Regexes THEN c.value ELSE None]
  OBVIOUS
<1>2. d.type = c.type /\ d.value = c.value /\ (c.type = "path_regex" => d.re = c.value)
  BY <1>1 DEF ConditionOK
<1>3. EvaluateCondition(b, req) <=> EvaluateCondition(d, req)
  BY <1>2, EvaluatesAlike
<1> QED
  BY <1>1, <1>3, Zenon DEF Holds

\* so does one compiled from what is stored.
LEMMA CompiledHolds ==
  ASSUME NEW c \in ConditionSpec, ConditionOK(c), NEW req
  PROVE  EvaluateCondition(CompileCondition(Uncompiled(c)), req) <=> Holds(c, req)
<1>1. PICK u : u = Uncompiled(c)
  OBVIOUS
<1>2. u \in RouterCondition /\ u.type = c.type /\ u.value = c.value
  <2>1. u \in RouterCondition
    BY <1>1, UncompiledType
  <2> QED
    BY <1>1, <2>1 DEF Uncompiled
<1>3. PICK b : b = CompileCondition(u)
  OBVIOUS
<1>4. b.type = u.type /\ b.value = u.value /\ (u.type = "path_regex" => b.re = u.value)
  BY <1>2, <1>3, ConditionCompiled
<1>5. b.type = c.type /\ b.value = c.value /\ (c.type = "path_regex" => b.re = c.value)
  BY <1>2, <1>4
<1>6. EvaluateCondition(b, req) <=> Holds(c, req)
  BY <1>5, ConditionHolds
<1> QED
  BY <1>1, <1>3, <1>6

SpecConditionsOK(s) == \A i \in DOMAIN s : ConditionOK(s[i])

\* A list of conditions, compiled.
LEMMA ListHolds ==
  ASSUME NEW s \in Seq(ConditionSpec), SpecConditionsOK(s), NEW req,
         NEW t, t = CompiledSeq([i \in DOMAIN s |-> Uncompiled(s[i])])
  PROVE  /\ (\A c \in Range(t) : EvaluateCondition(c, req)) <=> \A c \in Range(s) : Holds(c, req)
         /\ (\E c \in Range(t) : EvaluateCondition(c, req)) <=> \E c \in Range(s) : Holds(c, req)
<1>1. DOMAIN t = DOMAIN s /\ \A i \in DOMAIN s : t[i] = CompileCondition(Uncompiled(s[i]))
  BY DEF CompiledSeq
<1>2. ASSUME NEW i \in DOMAIN s PROVE EvaluateCondition(t[i], req) <=> Holds(s[i], req)
  <2>1. PICK c \in ConditionSpec : c = s[i]
    BY SeqIs
  <2>2. ConditionOK(c)
    BY <2>1 DEF SpecConditionsOK
  <2>3. EvaluateCondition(CompileCondition(Uncompiled(c)), req) <=> Holds(c, req)
    BY <2>2, CompiledHolds
  <2> QED
    BY <1>1, <2>1, <2>3
<1>3. \A c : c \in Range(t) <=> \E i \in DOMAIN s : c = t[i]
  BY <1>1 DEF Range
<1>4. \A c : c \in Range(s) <=> \E i \in DOMAIN s : c = s[i]
  BY DEF Range
<1>5. /\ (\A c \in Range(t) : EvaluateCondition(c, req)) <=> \A i \in DOMAIN s : EvaluateCondition(t[i], req)
      /\ (\E c \in Range(t) : EvaluateCondition(c, req)) <=> \E i \in DOMAIN s : EvaluateCondition(t[i], req)
  BY <1>3, Zenon
<1>6. /\ (\A c \in Range(s) : Holds(c, req)) <=> \A i \in DOMAIN s : Holds(s[i], req)
      /\ (\E c \in Range(s) : Holds(c, req)) <=> \E i \in DOMAIN s : Holds(s[i], req)
  BY <1>4, Zenon
<1> QED
  BY <1>2, <1>5, <1>6, Zenon

\* Says, clause by clause.
LEMMA SaysIs ==
  ASSUME NEW m, NEW req
  PROVE  Says(m, req) <=>
           /\ m.nott # None => ~Holds(m.nott, req)
           /\ m.type \in MatchTypes => Holds(m, req)
           /\ m.type \notin MatchTypes /\ Range(m.all) # {} => \A c \in Range(m.all) : Holds(c, req)
           /\ m.type \notin MatchTypes /\ Range(m.all) = {} => \E c \in Range(m.any) : Holds(c, req)
<1> DEFINE must == IF m.type \in MatchTypes THEN {m} ELSE Range(m.all)
           some == IF must = {} THEN Range(m.any) ELSE must
<1>1. Says(m, req) <=> /\ m.nott # None => ~Holds(m.nott, req)
                       /\ \A c \in must : Holds(c, req)
                       /\ \E c \in some : Holds(c, req)
  BY Zenon DEF Says, Holds
<1>2. CASE m.type \in MatchTypes
  <2>1. must = {m} /\ some = {m}
    BY <1>2
  <2> HIDE DEF must, some
  <2> QED
    BY <1>1, <1>2, <2>1
<1>3. CASE m.type \notin MatchTypes /\ Range(m.all) # {}
  <2>1. must = Range(m.all) /\ some = Range(m.all)
    BY <1>3
  <2> HIDE DEF must, some
  <2> QED
    BY <1>1, <1>3, <2>1
<1>4. CASE m.type \notin MatchTypes /\ Range(m.all) = {}
  <2>1. must = {} /\ some = Range(m.any)
    BY <1>4
  <2> HIDE DEF must, some
  <2> QED
    BY <1>1, <1>4, <2>1
<1> QED
  BY <1>2, <1>3, <1>4

\* The conditions of a valid match are valid.
LEMMA SpecConditions ==
  ASSUME NEW m \in MatchSpec, MatchOK(MatchFromSpec(m))
  PROVE  /\ ConditionOK(m) /\ SpecConditionsOK(m.all) /\ SpecConditionsOK(m.any)
         /\ m.nott # None => m.nott \in ConditionSpec /\ ConditionOK(m.nott)
<1>1. /\ m.all \in Seq(ConditionSpec) /\ m.any \in Seq(ConditionSpec) /\ m.nott \in Optional(ConditionSpec)
  BY DEF MatchSpec
<1>2. PICK x : x = MatchFromSpec(m)
  OBVIOUS
<1>3. /\ x.type = m.type /\ x.value = m.value
      /\ x.all = [i \in DOMAIN m.all |-> Uncompiled(m.all[i])] /\ x.any = [i \in DOMAIN m.any |-> Uncompiled(m.any[i])]
      /\ m.nott # None => x.nott = Uncompiled(m.nott)
  BY <1>2 DEF MatchFromSpec
<1>4. \A c \in Conditions(x) : c.type = "path_regex" => c.value \in DOMAIN Regexes
  BY <1>2 DEF MatchOK
<1>5. \A c : Uncompiled(c).type = c.type /\ Uncompiled(c).value = c.value
  BY DEF Uncompiled
<1>6. x \in Conditions(x) /\ Range(x.all) \subseteq Conditions(x) /\ Range(x.any) \subseteq Conditions(x)
      /\ (x.nott # None => x.nott \in Conditions(x))
  BY DEF Conditions
<1>7. ConditionOK(m)
  BY <1>3, <1>4, <1>6 DEF ConditionOK
<1>8. SpecConditionsOK(m.all)
  <2>1. \A i \in DOMAIN m.all : Uncompiled(m.all[i]) \in Conditions(x)
    BY <1>3, <1>6 DEF Range
  <2> QED
    BY <1>4, <1>5, <2>1 DEF SpecConditionsOK, ConditionOK
<1>9. SpecConditionsOK(m.any)
  <2>1. \A i \in DOMAIN m.any : Uncompiled(m.any[i]) \in Conditions(x)
    BY <1>3, <1>6 DEF Range
  <2> QED
    BY <1>4, <1>5, <2>1 DEF SpecConditionsOK, ConditionOK
<1>10. ASSUME m.nott # None PROVE m.nott \in ConditionSpec /\ ConditionOK(m.nott)
  <2>1. m.nott \in ConditionSpec
    BY <1>1, <1>10 DEF Optional
  <2>2. Uncompiled(m.nott) # None
    BY <2>1, UncompiledType
  <2>3. Uncompiled(m.nott) \in Conditions(x)
    BY <1>3, <1>6, <1>10, <2>2
  <2> QED
    BY <1>4, <1>5, <2>1, <2>3 DEF ConditionOK
<1> QED
  BY <1>7, <1>8, <1>9, <1>10

\* A compiled list is empty when the written one is.
LEMMA EmptyLists ==
  ASSUME NEW s \in Seq(ConditionSpec), NEW t, t = CompiledSeq([i \in DOMAIN s |-> Uncompiled(s[i])])
  PROVE  t # <<>> <=> Range(s) # {}
<1>1. DOMAIN t = DOMAIN s
  BY DEF CompiledSeq
<1>2. DOMAIN s = 1..Len(s) /\ Len(s) \in Nat
  BY SeqIs
<1>3. Range(s) # {} <=> DOMAIN s # {}
  BY DEF Range
<1>4. t # <<>> <=> DOMAIN s # {}
  <2>1. CASE DOMAIN s = {}
    <3>1. t = [i \in {} |-> t[i]]
      BY <1>1, <2>1 DEF CompiledSeq
    <3>2. <<>> = [i \in {} |-> t[i]]
      OBVIOUS
    <3> QED
      BY <2>1, <3>1, <3>2
  <2>2. CASE DOMAIN s # {}
    BY <1>1, <2>2
  <2> QED
    BY <2>1, <2>2
<1> QED
  BY <1>3, <1>4

\* Evaluate, clause by clause.
LEMMA EvaluateIs ==
  ASSUME NEW m, NEW req
  PROVE  Evaluate(m, req) <=>
           /\ m.nott # None => ~EvaluateCondition(m.nott, req)
           /\ m.type \in MatchTypes => EvaluateCondition(m, req)
           /\ m.type \notin MatchTypes /\ m.all # <<>> => \A c \in Range(m.all) : EvaluateCondition(c, req)
           /\ m.type \notin MatchTypes /\ m.all = <<>> => \E c \in Range(m.any) : EvaluateCondition(c, req)
BY Zenon DEF Evaluate

\* A stored rule, compiled, decides as its manifest says.
LEMMA MatchDecides ==
  ASSUME NEW m \in MatchSpec, MatchOK(MatchFromSpec(m)), NEW req
  PROVE  Evaluate(CompileMatch(MatchFromSpec(m)), req) <=> Says(m, req)
<1>1. /\ m.all \in Seq(ConditionSpec) /\ m.any \in Seq(ConditionSpec) /\ m.nott \in Optional(ConditionSpec)
      /\ m.type \in STRING /\ m.value \in Seq(STRING)
  BY DEF MatchSpec
<1>2. PICK x : x = MatchFromSpec(m)
  OBVIOUS
<1>3. PICK y : y = CompileMatch(x)
  OBVIOUS
<1>4. PICK all, any : /\ all = [i \in DOMAIN m.all |-> Uncompiled(m.all[i])]
                      /\ any = [i \in DOMAIN m.any |-> Uncompiled(m.any[i])]
  OBVIOUS
<1>5. /\ x.type = m.type /\ x.value = m.value /\ x.re = None /\ x.all = all /\ x.any = any
      /\ x.nott = IF m.nott = None THEN None ELSE Uncompiled(m.nott)
      /\ DOMAIN x = {"type", "value", "re", "all", "any", "nott"}
  BY <1>2, <1>4 DEF MatchFromSpec
<1>6. /\ y.type = m.type /\ y.value = m.value /\ y.re = CompileCondition(x).re
      /\ y.all = CompiledSeq(all) /\ y.any = CompiledSeq(any)
      /\ y.nott = IF x.nott = None THEN None ELSE CompileCondition(x.nott)
  BY <1>3, <1>5, MatchCompiled
<1>7. /\ ConditionOK(m) /\ SpecConditionsOK(m.all) /\ SpecConditionsOK(m.any)
      /\ m.nott # None => m.nott \in ConditionSpec /\ ConditionOK(m.nott)
  BY SpecConditions
<1>8. EvaluateCondition(y, req) <=> Holds(m, req)
  <2>1. m.type = "path_regex" => y.re = m.value
    <3> SUFFICES ASSUME m.type = "path_regex" PROVE y.re = m.value
      OBVIOUS
    <3>1. CompileCondition(x) = [x EXCEPT !.re = x.value]
      BY <1>5 DEF CompileCondition
    <3> QED
      BY <1>5, <1>6, <3>1
  <2> QED
    BY <1>6, <1>7, <2>1, ConditionHolds
<1>9. /\ (\A c \in Range(y.all) : EvaluateCondition(c, req)) <=> \A c \in Range(m.all) : Holds(c, req)
      /\ y.all # <<>> <=> Range(m.all) # {}
  <2>1. PICK s \in Seq(ConditionSpec) : s = m.all
    BY <1>1
  <2>2. PICK t : t = CompiledSeq([i \in DOMAIN s |-> Uncompiled(s[i])])
    OBVIOUS
  <2>3. t = y.all
    BY <1>4, <1>6, <2>1, <2>2
  <2>4. SpecConditionsOK(s)
    BY <1>7, <2>1
  <2>5. (\A c \in Range(t) : EvaluateCondition(c, req)) <=> \A c \in Range(s) : Holds(c, req)
    BY <2>2, <2>4, ListHolds
  <2>6. t # <<>> <=> Range(s) # {}
    BY <2>2, EmptyLists
  <2> QED
    BY <2>1, <2>3, <2>5, <2>6, Zenon
<1>10. (\E c \in Range(y.any) : EvaluateCondition(c, req)) <=> \E c \in Range(m.any) : Holds(c, req)
  <2>1. PICK s \in Seq(ConditionSpec) : s = m.any
    BY <1>1
  <2>2. PICK t : t = CompiledSeq([i \in DOMAIN s |-> Uncompiled(s[i])])
    OBVIOUS
  <2>3. t = y.any
    BY <1>4, <1>6, <2>1, <2>2
  <2>4. SpecConditionsOK(s)
    BY <1>7, <2>1
  <2>5. (\E c \in Range(t) : EvaluateCondition(c, req)) <=> \E c \in Range(s) : Holds(c, req)
    BY <2>2, <2>4, ListHolds
  <2> QED
    BY <2>1, <2>3, <2>5, Zenon
<1>11. (y.nott # None => ~EvaluateCondition(y.nott, req)) <=> (m.nott # None => ~Holds(m.nott, req))
  <2>1. CASE m.nott = None
    BY <1>5, <1>6, <2>1, Zenon
  <2>2. CASE m.nott # None
    <3>1. PICK c \in ConditionSpec : c = m.nott /\ ConditionOK(c)
      BY <1>7, <2>2
    <3>2. PICK u \in RouterCondition : u = Uncompiled(c) /\ u # None
      BY UncompiledType
    <3>3. CompileCondition(u) # None
      BY <3>2, ConditionCompiled
    <3>4. EvaluateCondition(CompileCondition(u), req) <=> Holds(c, req)
      BY <3>1, <3>2, CompiledHolds
    <3>5. y.nott = CompileCondition(u)
      BY <1>5, <1>6, <2>2, <3>1, <3>2, Zenon
    <3> QED
      BY <2>2, <3>1, <3>3, <3>4, <3>5, Zenon
  <2> QED
    BY <2>1, <2>2
<1>12. Evaluate(y, req) <=>
           /\ y.nott # None => ~EvaluateCondition(y.nott, req)
           /\ m.type \in MatchTypes => EvaluateCondition(y, req)
           /\ m.type \notin MatchTypes /\ y.all # <<>> => \A c \in Range(y.all) : EvaluateCondition(c, req)
           /\ m.type \notin MatchTypes /\ y.all = <<>> => \E c \in Range(y.any) : EvaluateCondition(c, req)
  BY <1>6, EvaluateIs, Zenon
<1>13. Says(m, req) <=>
           /\ m.nott # None => ~Holds(m.nott, req)
           /\ m.type \in MatchTypes => Holds(m, req)
           /\ m.type \notin MatchTypes /\ Range(m.all) # {} => \A c \in Range(m.all) : Holds(c, req)
           /\ m.type \notin MatchTypes /\ Range(m.all) = {} => \E c \in Range(m.any) : Holds(c, req)
  BY SaysIs
<1>14. Evaluate(y, req) <=> Says(m, req)
  BY <1>8, <1>9, <1>10, <1>11, <1>12, <1>13, Zenon
<1> QED
  BY <1>2, <1>3, <1>14

Target(rules, req) ==
  LET i == SelectInSeq(rules, LAMBDA r : Says(r.match, req)) IN IF i = 0 THEN None ELSE rules[i].target

\* The least of some positive numbers is one of them.
LEMMA LeastOf ==
  ASSUME NEW I, I \subseteq Nat \ {0}, I # {}
  PROVE  Min(I) \in I /\ Min(I) # 0
<1>1. PICK x \in I : \A y \in I : x <= y
  BY LeastNatural
<1>2. Min(I) \in I
  BY <1>1 DEF Min
<1> QED
  BY <1>2

\* The compiled router takes a request where the manifest says.
LEMMA RouterDecides ==
  ASSUME NEW s \in RouterSpecV1, NEW n, NEW r, r = RouterFromSpecV1([name |-> n], s), RouterValidate(r), NEW req
  PROVE  Resolve(Compile(r), req) = Target(s.rules, req)
<1>1. PICK rules \in Seq(RuleSpecs) : rules = s.rules
  BY DEF RouterSpecV1, RuleSpecs
<1>2. Len(rules) \in Nat /\ DOMAIN rules = 1..Len(rules) /\ \A i \in DOMAIN rules : rules[i].match \in MatchSpec
  <2>1. \A i \in DOMAIN rules : rules[i] \in RuleSpecs
    BY SeqIs
  <2> QED
    BY <2>1, SeqIs DEF RuleSpecs
<1>3. PICK rs : rs = r.rules
  OBVIOUS
<1>4. DOMAIN rs = DOMAIN rules
      /\ \A i \in DOMAIN rules : rs[i].match = MatchFromSpec(rules[i].match) /\ rs[i].target = rules[i].target
  BY <1>1, <1>3 DEF RouterFromSpecV1
<1>5. \A i \in DOMAIN rules : MatchOK(rs[i].match)
  BY <1>3, <1>4, RouterValidateIs
<1>6. PICK cs : cs = [i \in 1..Len(rules) |->
                [id |-> rs[i].id, match |-> CompileMatch(rs[i].match), target |-> rs[i].target]]
  OBVIOUS
<1>7. Compile(r).rules = cs
  BY <1>2, <1>3, <1>4, <1>6 DEF Compile
<1>8. Len(cs) = Len(rules)
  BY <1>2, <1>6
<1>9. \A i \in 1..Len(rules) : cs[i].match = CompileMatch(MatchFromSpec(rules[i].match)) /\ cs[i].target = rules[i].target
  BY <1>2, <1>4, <1>6
<1>10. ASSUME NEW i \in 1..Len(rules) PROVE Evaluate(cs[i].match, req) <=> Says(rules[i].match, req)
  <2>1. PICK m \in MatchSpec : m = rules[i].match
    BY <1>2
  <2>2. MatchOK(MatchFromSpec(m))
    BY <1>2, <1>4, <1>5, <2>1
  <2>3. Evaluate(CompileMatch(MatchFromSpec(m)), req) <=> Says(m, req)
    BY <2>2, MatchDecides
  <2> QED
    BY <1>9, <2>1, <2>3
<1>11. PICK I, J : /\ I = {i \in 1..Len(cs) : Evaluate(cs[i].match, req)}
                   /\ J = {i \in 1..Len(rules) : Says(rules[i].match, req)}
  OBVIOUS
<1>12. I = J
  BY <1>8, <1>10, <1>11
<1>13. SelectInSeq(cs, LAMBDA rule : Evaluate(rule.match, req)) = IF I # {} THEN Min(I) ELSE 0
  BY <1>11, Zenon DEF SelectInSeq
<1>14. SelectInSeq(rules, LAMBDA rule : Says(rule.match, req)) = IF J # {} THEN Min(J) ELSE 0
  BY <1>11, Zenon DEF SelectInSeq
<1>15. J # {} => Min(J) \in J /\ Min(J) # 0
  <2>1. J \subseteq Nat \ {0}
    BY <1>2, <1>11
  <2> QED
    BY <2>1, LeastOf
<1>16. J # {} => cs[Min(J)].target = rules[Min(J)].target
  BY <1>9, <1>11, <1>15
<1>17. Target(rules, req) = IF J # {} THEN rules[Min(J)].target ELSE None
  BY <1>14, <1>15, Zenon DEF Target
<1>18. Resolve(Compile(r), req) = IF J # {} THEN cs[Min(J)].target ELSE None
  BY <1>7, <1>12, <1>13, <1>15, Zenon DEF Resolve
<1> QED
  BY <1>1, <1>16, <1>17, <1>18, Zenon

\* A weight that fits still fits when the defaults are filled in.
LEMMA WrittenFits ==
  ASSUME NEW s \in PoolSpecV1, FitInt32(s), NEW n, NEW labels
  PROVE  FitInt32(PoolWritten(n, labels, s))
<1>1. PICK ms \in Seq(MemberSpecs) : ms = s.members
  BY DEF PoolSpecV1, MemberSpecs
<1>2. PICK p : p = PoolWritten(n, labels, s)
  OBVIOUS
<1>3. DOMAIN p.members = DOMAIN ms /\ \A i \in DOMAIN ms : p.members[i].weight = WrittenWeight(ms[i].weight)
  BY <1>1, <1>2 DEF PoolWritten, MembersWritten
<1>4. ASSUME NEW i \in DOMAIN ms PROVE p.members[i].weight \in -(MaxInt32 + 1)..MaxInt32
  <2>1. PICK w : w = ms[i].weight
    OBVIOUS
  <2>2. w # None => w \in -(MaxInt32 + 1)..MaxInt32
    BY <1>1, <2>1 DEF FitInt32
  <2>3. WrittenWeight(w) = 1 \/ (w # None /\ WrittenWeight(w) = w)
    BY Zenon DEF WrittenWeight
  <2>4. 1 \in -(MaxInt32 + 1)..MaxInt32
    BY ValuesAssumption
  <2> QED
    BY <1>3, <2>1, <2>2, <2>3, <2>4
<1>5. FitInt32(p)
  BY <1>3, <1>4 DEF FitInt32
<1> QED
  BY <1>2, <1>5

\* Of every kind but the router, the store, pgctl and the agents have what the
\* manifest says.
LEMMA OneServed ==
  ASSUME StoreOK(store), Fits(store, given), NEW k \in Kind, k # "Router", NEW n \in DOMAIN store[k],
         k = "Pool" => FitInt32(given[k][n].spec)
  PROVE  /\ store[k][n] = Meaning(k, n, given[k][n])
         /\ PgctlGet(store, k, n) = {Meaning(k, n, given[k][n])}
         /\ AgentStore[k][n] = Meaning(k, n, given[k][n])
<1>1. PICK o, g : o = store[k][n] /\ g = given[k][n]
  OBVIOUS
<1>2. ObjectOK(k, o) /\ n \in STRING \ {""}
  BY <1>1, StoreFacts
<1>3. AsGiven(k, n, o, g)
  BY <1>1, FitsFacts
<1>4. o = Meaning(k, n, g)
  BY <1>1, <1>3, Zenon DEF AsGiven
<1>5. Back(k, o) = o
  <2>1. CASE k # "Pool"
    BY <1>2, <2>1, BackIs
  <2>2. CASE k = "Pool"
    <3>1. g.spec \in PoolSpecV1 /\ FitInt32(g.spec)
      BY <1>1, <1>3, <2>2, SpecsAre DEF AsGiven
    <3>2. o = PoolWritten(n, g.labels, g.spec)
      BY <1>4, <2>2, MeaningIs
    <3>3. FitInt32(o)
      BY <3>1, <3>2, WrittenFits
    <3> QED
      BY <1>2, <2>2, <3>3, BackIs
  <2> QED
    BY <2>1, <2>2
<1>6. o # None
  BY <1>2, StoredIs
<1>7. PgctlGet(store, k, n) = {Back(k, o)}
  BY <1>1, <1>2, <1>6, PgctlShows
<1>8. AgentStore[k][n] = Back(k, o)
  BY <1>1, AgentHas
<1> QED
  BY <1>1, <1>4, <1>5, <1>7, <1>8

\* The proxies a pool stands for.
ProxyMeant(x) == Meaning("Proxy", x, given["Proxy"][x])

\* The proxies are the ones the manifests mean.
LEMMA ProxiesMeant ==
  ASSUME StoreOK(store), Fits(store, given), NEW x \in DOMAIN store["Proxy"]
  PROVE  store["Proxy"][x] = ProxyMeant(x) /\ ProxyFromProto(ProxyToProto(store["Proxy"][x])) = store["Proxy"][x]
<1>1. "Proxy" \in Kind /\ "Proxy" # "Router" /\ "Proxy" # "Pool"
  BY KindsAre
<1>2. store["Proxy"][x] = Meaning("Proxy", x, given["Proxy"][x])
  BY <1>1, OneServed
<1>3. ObjectOK("Proxy", store["Proxy"][x])
  BY <1>1, StoreFacts
<1>4. store["Proxy"][x] \in Proxies
  BY <1>3, ObjectArms, Zenon
<1> QED
  BY <1>2, <1>4, ProxyBack DEF ProxyMeant

\* A static pool resolves to the proxies it lists, in their order,
LEMMA StaticResolves ==
  ASSUME StoreOK(store), Fits(store, given), NEW ids, ids # <<>>, Range(ids) \subseteq DOMAIN store["Proxy"]
  PROVE  CallProxiesByIds(store, ids).objs = [i \in DOMAIN ids |-> ProxyMeant(ids[i])]
<1>1. GetByIds(store, ids).err = "" /\ GetByIds(store, ids).objs = [i \in DOMAIN ids |-> store["Proxy"][ids[i]]]
  BY DEF GetByIds, Found
<1>2. PICK pbs : pbs = [i \in DOMAIN ids |-> ProxyToProto(store["Proxy"][ids[i]])]
  OBVIOUS
<1>3. ServeProxiesByIds(store, ids).err = "" /\ ServeProxiesByIds(store, ids).objs = pbs
  BY <1>1, <1>2 DEF ServeProxiesByIds, Found
<1>4. CallProxiesByIds(store, ids).objs = [i \in DOMAIN pbs |-> ProxyFromProto(pbs[i])]
  BY <1>3 DEF CallProxiesByIds, Found
<1>5. \A i \in DOMAIN ids : ids[i] \in DOMAIN store["Proxy"]
  BY DEF Range
<1>6. \A i \in DOMAIN ids : ProxyFromProto(pbs[i]) = ProxyMeant(ids[i])
  BY <1>2, <1>5, ProxiesMeant
<1> QED
  BY <1>2, <1>4, <1>6

\* a dynamic one to those its selector asks for,
LEMMA DynamicResolves ==
  ASSUME StoreOK(store), Fits(store, given), NEW labels, labels # {}
  PROVE  CallProxiesByLabels(store, labels).objs = {q \in {ProxyMeant(x) : x \in DOMAIN store["Proxy"]} : Labelled(q, labels)}
<1>1. PICK S : S = FindByLabels(store, labels)
  OBVIOUS
<1>2. PICK pbs : pbs = {ProxyToProto(p) : p \in S}
  OBVIOUS
<1>3. ServeProxiesByLabels(store, labels).err = "" /\ ServeProxiesByLabels(store, labels).objs = pbs
  BY <1>1, <1>2 DEF ServeProxiesByLabels, Found
<1>4. CallProxiesByLabels(store, labels).objs = {ProxyFromProto(pb) : pb \in pbs}
  BY <1>3 DEF CallProxiesByLabels, Found
<1>5. \A p : p \in S <=> \E x \in DOMAIN store["Proxy"] : p = store["Proxy"][x] /\ MatchesLabels(p.labels, labels)
  BY <1>1 DEF FindByLabels, Range
<1>6. \A p \in S : ProxyFromProto(ProxyToProto(p)) = p
  BY <1>5, ProxiesMeant
<1>7. {ProxyFromProto(pb) : pb \in pbs} = S
  BY <1>2, <1>6
<1>8. \A x \in DOMAIN store["Proxy"] : store["Proxy"][x] = ProxyMeant(x)
  BY ProxiesMeant
<1>9. \A p : MatchesLabels(p.labels, labels) <=> Labelled(p, labels)
  BY DEF MatchesLabels, Labelled
<1>10. S = {q \in {ProxyMeant(x) : x \in DOMAIN store["Proxy"]} : Labelled(q, labels)}
  BY <1>5, <1>8, <1>9
<1> QED
  BY <1>4, <1>7, <1>10

\* as the manifest of the pool says.
LEMMA PoolServed ==
  ASSUME StoreOK(store), Fits(store, given), NEW n \in DOMAIN store["Pool"], NEW p, p = Meaning("Pool", n, given["Pool"][n])
  PROVE  ResolveProxies(store, AgentStore["Pool"][n]).objs =
           IF p.type = "static" THEN [i \in DOMAIN p.members |-> ProxyMeant(p.members[i].proxy_id)]
           ELSE {q \in {ProxyMeant(x) : x \in DOMAIN store["Proxy"]} : Labelled(q, p.selector)}
<1>1. "Pool" \in Kind
  BY KindsAre
<1>2. PICK o, a : o = store["Pool"][n] /\ a = AgentStore["Pool"][n]
  OBVIOUS
<1>3. o \in Range(store["Pool"])
  BY <1>2 DEF Range
<1>4. o \in Pools /\ PoolValidate(o) /\ Range(MemberIds(o)) \subseteq DOMAIN store["Proxy"]
  BY <1>3, PoolAnchored
<1>5. ObjectOK("Pool", o)
  BY <1>1, <1>3, StoredAt
<1>6. a = Back("Pool", o)
  BY <1>1, <1>2, AgentHas
<1>7. a.type = o.type /\ a.selector = o.selector /\ MemberIds(a) = MemberIds(o)
  BY <1>1, <1>5, <1>6, BackIs
<1>8. AsGiven("Pool", n, o, given["Pool"][n])
  BY <1>1, <1>2, FitsFacts
<1>9. SameMembers(o, p)
  BY <1>8, Zenon DEF AsGiven
<1>10. o.type = p.type /\ o.selector = p.selector /\ MemberIds(o) = MemberIds(p)
  BY <1>9, Zenon DEF SameMembers
<1>11. CASE p.type = "static"
  <2>1. o.members # <<>>
    BY <1>4, <1>10, <1>11, Zenon DEF PoolValidate
  <2>2. PICK ids : ids = MemberIds(o)
    OBVIOUS
  <2>3. ids # <<>>
    <3>1. PICK ms \in Seq(Members) : ms = o.members
      BY <1>4 DEF Pools, Members
    <3>2. 1 \in DOMAIN ms
      BY <2>1, <3>1
    <3>3. DOMAIN ids = DOMAIN ms
      BY <2>2, <3>1 DEF MemberIds
    <3> QED
      BY <3>2, <3>3
  <2>4. Range(ids) \subseteq DOMAIN store["Proxy"]
    BY <1>4, <2>2
  <2>5. CallProxiesByIds(store, ids).objs = [i \in DOMAIN ids |-> ProxyMeant(ids[i])]
    BY <2>3, <2>4, StaticResolves
  <2>6. ids = [i \in DOMAIN p.members |-> p.members[i].proxy_id]
    BY <1>10, <2>2 DEF MemberIds
  <2>7. [i \in DOMAIN ids |-> ProxyMeant(ids[i])] = [i \in DOMAIN p.members |-> ProxyMeant(p.members[i].proxy_id)]
    BY <2>6
  <2>8. ResolveProxies(store, a) = CallProxiesByIds(store, MemberIds(a))
    BY <1>7, <1>10, <1>11, Zenon DEF ResolveProxies
  <2>9. ResolveProxies(store, a) = CallProxiesByIds(store, ids)
    BY <1>7, <2>2, <2>8
  <2> QED
    BY <1>2, <1>11, <2>5, <2>7, <2>9
<1>12. CASE p.type # "static"
  <2>1. PICK labels : labels = o.selector
    OBVIOUS
  <2>2. labels # {}
    BY <1>4, <1>10, <1>12, <2>1, Zenon DEF PoolValidate
  <2>3. CallProxiesByLabels(store, labels).objs
        = {q \in {ProxyMeant(x) : x \in DOMAIN store["Proxy"]} : Labelled(q, labels)}
    BY <2>2, DynamicResolves
  <2>4. ResolveProxies(store, a) = CallProxiesByLabels(store, a.selector)
    BY <1>7, <1>10, <1>12, Zenon DEF ResolveProxies
  <2>5. a.selector = labels /\ p.selector = labels
    BY <1>7, <1>10, <2>1
  <2> QED
    BY <1>2, <1>12, <2>3, <2>4, <2>5
<1> QED
  BY <1>11, <1>12

\* The router the agent has decides as its manifest says.
LEMMA RouterServed ==
  ASSUME StoreOK(store), Fits(store, given), NEW n \in DOMAIN store["Router"], NEW req
  PROVE  /\ Resolve(SetRouter(store["Router"][n]), req) = Target(given["Router"][n].spec.rules, req)
         /\ AgentStore["Router"][n] = store["Router"][n]
<1>1. "Router" \in Kind /\ "Router" # "Pool"
  BY KindsAre
<1>2. PICK r, g : r = store["Router"][n] /\ g = given["Router"][n]
  OBVIOUS
<1>3. ObjectOK("Router", r)
  BY <1>1, <1>2, StoreFacts
<1>4. r \in Routers /\ RouterValidate(r)
  BY <1>3, ObjectArms, Zenon
<1>5. AsGiven("Router", n, r, g)
  BY <1>1, <1>2, FitsFacts
<1>6. g.spec \in SpecV1["Router"] /\ r = RouterFromSpecV1([name |-> n], g.spec)
  BY <1>5, Zenon DEF AsGiven
<1>7. PICK s \in RouterSpecV1 : s = g.spec
  BY <1>6, SpecsAre
<1>8. SetRouter(r) = Compile(r)
  BY <1>4, CompiledValid
<1>9. Resolve(Compile(r), req) = Target(s.rules, req)
  BY <1>4, <1>6, <1>7, RouterDecides
<1>10. Back("Router", r) = r
  BY <1>1, <1>3, BackIs
<1>11. AgentStore["Router"][n] = Back("Router", r)
  BY <1>1, <1>2, AgentHas
<1> QED
  BY <1>2, <1>7, <1>8, <1>9, <1>10, <1>11

\* The invariant contains the property.
LEMMA InvServes == ConfigInv => ServedAsWritten
<1> SUFFICES ASSUME ConfigInv PROVE ServedAsWritten
  OBVIOUS
<1> DEFINE means(k, n) == Meaning(k, n, given[k][n])
<1>1. StoreOK(store) /\ Fits(store, given)
  BY DEF ConfigInv
<1>2. ASSUME NEW k \in Kind \ {"Router"}, NEW n \in DOMAIN store[k], k = "Pool" => FitInt32(given[k][n].spec)
      PROVE  PgctlGet(store, k, n) = {means(k, n)} /\ AgentStore[k][n] = means(k, n)
  BY <1>1, <1>2, OneServed
<1>3. ASSUME NEW n \in DOMAIN store["Pool"]
      PROVE  LET p == means("Pool", n) IN
             ResolveProxies(store, AgentStore["Pool"][n]).objs =
               IF p.type = "static"
               THEN [i \in DOMAIN p.members |-> means("Proxy", p.members[i].proxy_id)]
               ELSE {q \in {means("Proxy", x) : x \in DOMAIN store["Proxy"]} : Labelled(q, p.selector)}
  BY <1>1, PoolServed DEF ProxyMeant
<1>4. ASSUME NEW n \in DOMAIN store["Router"], NEW req \in Requests, NEW st \in {AgentStore, store}
      PROVE  Resolve(SetRouter(st["Router"][n]), req) = Target(given["Router"][n].spec.rules, req)
  BY <1>1, RouterServed
<1> QED
  BY <1>2, <1>3, <1>4, Zenon DEF ServedAsWritten, Target

\* dispatcher.go to cache.go: under every name pgctl shows and the agent has what the
\* last accepted manifest says (of a pool, if its weights fit the wire); its pools
\* resolve to the proxies that their manifests name or, by their selectors, ask for, where
\* an empty value asks for a missing key as well; and its routers decide any request by
\* the first rule that holds.
THEOREM AgentsServeWhatWasWritten == ConfigSpec => []ServedAsWritten
  BY ConfigInvAlways, InvServes, PTL

=============================================================================
