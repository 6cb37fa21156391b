-------------------------- MODULE DurabilityProofs --------------------------
(***************************************************************************)
(* Theorems about Durability, for every number of clients, every queue     *)
(* limit and every number of failures, lost acknowledgements and restarts. *)
(*                                                                         *)
(* The argument for acknowledged commits: the snapshots in the queue grow  *)
(* from the one on disk to the root, the pending snapshot of the current   *)
(* revision is the current root, and labels are never shared, so that a    *)
(* caller is awakened by the very snapshot that contains its receipt.      *)
(*                                                                         *)
(* The argument for the order of revisions, which holds when the overflow  *)
(* hook commits nothing: snapshots wait in the order of their revisions,   *)
(* each newer than what is persisted and not older than what is on disk.   *)
(***************************************************************************)
EXTENDS Durability, SequenceTheorems, FiniteSetTheorems, TLAPS

Entry == [revision : Nat, root : SUBSET Nat]

(* A queue between the commits low on disk and the root top at revision rev *)
QueueSound(q, rev, top, low) ==
  /\ q \in Seq(Entry)
  /\ \A n \in 1 .. Len(q) : /\ q[n].revision <= rev
                            /\ low \subseteq q[n].root
                            /\ q[n].root \subseteq top
                            /\ q[n].revision = rev => q[n].root = top
  /\ \A m, n \in 1 .. Len(q) : m < n => q[m].root \subseteq q[n].root
  /\ \A m, n \in 1 .. Len(q) : q[m].revision = q[n].revision => m = n

(* The awaited snapshot is pending and contains what was promised; whoever *)
(* only awaits the end of the queue is covered already.                    *)
WaitSound(wait, q, low) ==
  wait # Idle =>
    IF wait.tail THEN wait.receipt.root \subseteq low
    ELSE \E n \in 1 .. Len(q) : /\ q[n].revision = wait.task
                                /\ wait.receipt.root \subseteq q[n].root

MemorySound ==
  /\ revision \in Nat /\ issued \in Nat /\ root \in SUBSET Nat
  /\ persisted \in Int /\ persisted <= revision
  /\ disk.revision \in Nat /\ disk.root \subseteq root
  /\ persisted = revision => root \subseteq disk.root

HeadSound ==
  /\ phase # "waiting" => queue # <<>>
  /\ phase \in {"installed", "stored"} => queue[1].root = disk.root

WaitsSound ==
  /\ DOMAIN waits = Clients \cup {Closer}
  /\ \A c \in Clients \cup {Closer} : WaitSound(waits[c], queue, disk.root)

DurabilityInv ==
  /\ MemorySound
  /\ QueueSound(queue, revision, root, disk.root)
  /\ HeadSound
  /\ WaitsSound
  /\ AckedDurable

-----------------------------------------------------------------------------
(* A publication keeps the queue sound: no pending snapshot has its number. *)
LEMMA PublishSound ==
  ASSUME NEW q, NEW rev \in Nat, NEW top \in SUBSET Nat, NEW low,
         QueueSound(q, rev, top, low),
         NEW n \in Nat \ {0}, NEW top2 \in SUBSET Nat, top \subseteq top2
  PROVE  /\ QueueSound(q, rev + n, top2, low)
         /\ \A i \in 1 .. Len(q) : q[i].revision < rev + 1
<1>1. /\ q \in Seq(Entry)
      /\ \A i \in 1 .. Len(q) : q[i] \in Entry /\ q[i].revision <= rev
  BY DEF QueueSound
<1>2. \A i \in 1 .. Len(q) : q[i].revision \in Nat
  BY <1>1 DEF Entry
<1>3. \A i \in 1 .. Len(q) : q[i].revision < rev + 1 /\ q[i].revision <= rev + n
                           /\ q[i].revision # rev + n
  BY <1>1, <1>2
<1>4. \A i \in 1 .. Len(q) : low \subseteq q[i].root /\ q[i].root \subseteq top2
  BY DEF QueueSound
<1> QED
  BY <1>1, <1>3, <1>4 DEF QueueSound

(* What #persist is meant to do with the snapshot of root top under a label *)
PersistGood(q, rev, top, low, label) ==
  LET p == Persist(q, [revision |-> label, root |-> top])
  IN  /\ QueueSound(p.queue, rev, top, low)
      /\ Len(p.queue) >= Len(q)
      /\ \A n \in 1 .. Len(q) : p.queue[n] = q[n]
      /\ ~p.full => \E n \in 1 .. Len(p.queue) : /\ p.queue[n].revision = label
                                                 /\ p.queue[n].root = top
      /\ \A n \in 1 .. Len(p.queue) :
           p.queue[n].revision = label \/ \E m \in 1 .. Len(q) : p.queue[n].revision = q[m].revision

NotPending(q, label) == \A n \in 1 .. Len(q) : q[n].revision # label

(* #persist keeps the queue sound and everything pending in its place, and *)
(* unless it refuses, the snapshot asked for is pending afterwards.        *)
LEMMA PersistSound ==
  ASSUME NEW q, NEW rev \in Nat, NEW top \in SUBSET Nat, NEW low, low \subseteq top,
         QueueSound(q, rev, top, low),
         NEW label \in Nat, label <= rev,
         label = rev \/ NotPending(q, label)
  PROVE  PersistGood(q, rev, top, low, label)
<1> DEFINE s == [revision |-> label, root |-> top]
           p == Persist(q, s)
<1>1. q \in Seq(Entry) /\ Len(q) \in Nat
  BY DEF QueueSound
<1>2. s \in Entry /\ s.revision = label /\ s.root = top
  BY DEF Entry
<1>3. CASE p.queue = q
  <2>1. ~p.full => \E n \in 1 .. Len(q) : q[n].revision = label
    <3>1. CASE \E n \in 1 .. Len(q) : q[n].revision = label
      BY <3>1
    <3>2. CASE ~(\E n \in 1 .. Len(q) : q[n].revision = label) /\ Len(q) >= MaxPendingSnapshots
      BY <3>2 DEF Persist
    <3>3. CASE ~(\E n \in 1 .. Len(q) : q[n].revision = label) /\ ~(Len(q) >= MaxPendingSnapshots)
      <4>1. p.queue = Append(q, s)
        BY <3>3 DEF Persist
      <4> HIDE DEF s, p
      <4>2. Len(Append(q, s)) = Len(q) + 1
        BY <1>1, <1>2
      <4> QED BY <1>1, <1>3, <4>1, <4>2
    <3> QED BY <3>1, <3>2, <3>3
  <2> HIDE DEF p, s
  <2>2. ~p.full => \E n \in 1 .. Len(q) : q[n].revision = label /\ q[n].root = top
    BY <2>1 DEF QueueSound, NotPending
  <2> QED BY <1>1, <1>3, <2>2 DEF p, s, PersistGood
<1>4. CASE p.queue = Append(q, s) /\ \A n \in 1 .. Len(q) : q[n].revision # label
  <2> DEFINE a == Append(q, s)
  <2> HIDE DEF s, p
  <2>1. /\ a \in Seq(Entry) /\ Len(a) = Len(q) + 1
        /\ \A n \in 1 .. Len(q) : a[n] = q[n]
        /\ a[Len(q) + 1] = s
    BY <1>1, <1>2
  <2>2. 1 .. Len(a) = (1 .. Len(q)) \cup {Len(q) + 1}
    BY <1>1, <2>1
  <2> HIDE DEF a
  <2>3. \A n \in 1 .. Len(a) : /\ a[n].revision <= rev
                               /\ low \subseteq a[n].root
                               /\ a[n].root \subseteq top
                               /\ a[n].revision = rev => a[n].root = top
    BY <1>2, <2>1, <2>2 DEF QueueSound
  <2>4. \A m, n \in 1 .. Len(a) : m < n => a[m].root \subseteq a[n].root
    BY <1>1, <1>2, <2>1, <2>2 DEF QueueSound
  <2>5. \A m, n \in 1 .. Len(a) : a[m].revision = a[n].revision => m = n
    BY <1>1, <1>2, <1>4, <2>1, <2>2 DEF QueueSound
  <2>6. QueueSound(a, rev, top, low)
    BY <2>1, <2>3, <2>4, <2>5 DEF QueueSound
  <2>7. p.queue = a
    BY <1>4 DEF a
  <2>8. /\ Len(p.queue) >= Len(q)
        /\ \A n \in 1 .. Len(q) : p.queue[n] = q[n]
    BY <1>1, <2>1, <2>7
  <2>9. Len(q) + 1 \in 1 .. Len(p.queue) /\ p.queue[Len(q) + 1].revision = label
                                     /\ p.queue[Len(q) + 1].root = top
    BY <1>1, <1>2, <2>1, <2>2, <2>7
  <2>10. \A n \in 1 .. Len(p.queue) :
           p.queue[n].revision = label \/ \E m \in 1 .. Len(q) : p.queue[n].revision = q[m].revision
    BY <1>2, <2>1, <2>2, <2>7
  <2> QED
    BY <2>6, <2>7, <2>8, <2>9, <2>10 DEF p, s, PersistGood
<1>5. \/ p.queue = q
      \/ p.queue = Append(q, s) /\ \A n \in 1 .. Len(q) : q[n].revision # label
  BY DEF Persist
<1> QED
  BY <1>3, <1>4, <1>5

(* The task at the head leaves: the rest of the queue is sound. *)
LEMMA TailSound ==
  ASSUME NEW q, NEW rev, NEW top, NEW low, QueueSound(q, rev, top, low), q # <<>>
  PROVE  /\ QueueSound(Tail(q), rev, top, low)
         /\ 1 \in 1 .. Len(q) /\ Head(q) = q[1]
         /\ Len(q) = Len(Tail(q)) + 1
         /\ \A n \in 1 .. Len(Tail(q)) : n + 1 \in 1 .. Len(q) /\ Tail(q)[n] = q[n + 1]
         /\ \A n \in 1 .. Len(q) : n # 1 => n - 1 \in 1 .. Len(Tail(q)) /\ Tail(q)[n - 1] = q[n]
<1>1. q \in Seq(Entry)
  BY DEF QueueSound
<1>2. /\ Tail(q) \in Seq(Entry)
      /\ Len(q) \in Nat /\ Len(q) >= 1
      /\ Len(Tail(q)) = Len(q) - 1
      /\ \A n \in 1 .. Len(Tail(q)) : Tail(q)[n] = q[n + 1]
      /\ Head(q) = q[1]
  BY <1>1
<1> DEFINE r == Tail(q)
<1>3. /\ r \in Seq(Entry)
      /\ Len(q) \in Nat /\ Len(r) = Len(q) - 1 /\ Len(r) \in Nat
      /\ \A n \in 1 .. Len(r) : n + 1 \in 1 .. Len(q) /\ r[n] = q[n + 1]
  BY <1>2
<1> HIDE DEF r
<1>4. QueueSound(r, rev, top, low)
  <2>1. \A n \in 1 .. Len(r) : /\ r[n].revision <= rev
                               /\ low \subseteq r[n].root
                               /\ r[n].root \subseteq top
                               /\ r[n].revision = rev => r[n].root = top
    <3>1. \A k \in 1 .. Len(q) : /\ q[k].revision <= rev
                                 /\ low \subseteq q[k].root
                                 /\ q[k].root \subseteq top
                                 /\ q[k].revision = rev => q[k].root = top
      BY DEF QueueSound
    <3> QED BY <1>3, <3>1
  <2>2. \A m, n \in 1 .. Len(r) : m < n => r[m].root \subseteq r[n].root
    <3>1. \A m, n \in 1 .. Len(r) : m < n => m + 1 < n + 1
      BY <1>3
    <3> QED BY <1>3, <3>1 DEF QueueSound
  <2>3. \A m, n \in 1 .. Len(r) : r[m].revision = r[n].revision => m = n
    <3>1. \A m, n \in 1 .. Len(r) : m + 1 = n + 1 => m = n
      BY <1>3
    <3> QED BY <1>3, <3>1 DEF QueueSound
  <2> QED BY <1>3, <2>1, <2>2, <2>3 DEF QueueSound
<1>5. \A n \in 1 .. Len(q) : n # 1 => n - 1 \in 1 .. Len(r) /\ r[n - 1] = q[n]
  <2>1. \A n \in 1 .. Len(q) : n # 1 => n - 1 \in 1 .. Len(r) /\ (n - 1) + 1 = n
    BY <1>3
  <2> QED BY <1>3, <2>1
<1> QED
  BY <1>2, <1>3, <1>4, <1>5 DEF r

(* The disk moves on to the snapshot at the head: the queue stays sound. *)
LEMMA InstallSound ==
  ASSUME NEW q, NEW rev, NEW top, NEW low, QueueSound(q, rev, top, low), q # <<>>
  PROVE  /\ QueueSound(q, rev, top, q[1].root)
         /\ low \subseteq q[1].root /\ q[1].root \subseteq top
         /\ q[1] \in Entry
<1>1. q \in Seq(Entry) /\ 1 \in 1 .. Len(q) /\ q[1] \in Entry
  BY DEF QueueSound
<1>2. \A n \in 1 .. Len(q) : n = 1 \/ 1 < n
  BY <1>1
<1>3. \A n \in 1 .. Len(q) : q[1].root \subseteq q[n].root
  BY <1>1, <1>2 DEF QueueSound
<1> QED
  BY <1>1, <1>3 DEF QueueSound

(* A caller asks #persist for the root as it is or has just been published, *)
(* under its revision or under an earlier one that is not pending.          *)
LEMMA AwaitLabelled ==
  ASSUME DurabilityInv, NEW c \in Clients \cup {Closer}, NEW otherwise,
         NEW label \in Nat, NEW receipt, NEW s,
         revision' \in Nat, issued' \in Nat, root' \in SUBSET Nat,
         QueueSound(queue, revision', root', disk.root),
         persisted < revision', root \subseteq root',
         s = [revision |-> label, root |-> root'],
         label <= revision', label = revision' \/ NotPending(queue, label),
         receipt.revision = label, receipt.root \subseteq root',
         AwaitPersist(c, Persist(queue, s), receipt, otherwise),
         UNCHANGED <<persisted, phase, disk, promised>>
  PROVE  DurabilityInv'
<1> DEFINE p == Persist(queue, s)
<1>1. receipt.revision = label /\ receipt.root \subseteq root'
  OBVIOUS
<1>2. /\ queue' = p.queue
      /\ p.full => waits' = waits
      /\ ~p.full => waits' = [waits EXCEPT ![c] = Awaiting(receipt.revision, FALSE, receipt)]
  BY DEF AwaitPersist
<1>3. disk.root \subseteq root' /\ disk.root \subseteq root
  BY DEF DurabilityInv, MemorySound
<1>4. /\ QueueSound(p.queue, revision', root', disk.root)
      /\ Len(p.queue) >= Len(queue)
      /\ \A n \in 1 .. Len(queue) : p.queue[n] = queue[n]
      /\ ~p.full => \E n \in 1 .. Len(p.queue) : /\ p.queue[n].revision = label
                                                 /\ p.queue[n].root = root'
  <2> DEFINE rev == revision'
             top == root'
             low == disk.root
  <2>1. /\ rev \in Nat /\ top \in SUBSET Nat /\ low \subseteq top
        /\ QueueSound(queue, rev, top, low) /\ label <= rev
        /\ label = rev \/ NotPending(queue, label)
        /\ s = [revision |-> label, root |-> top]
    BY <1>3
  <2> HIDE DEF rev, top, low
  <2>2. PersistGood(queue, rev, top, low, label)
    BY <2>1, PersistSound
  <2> QED BY <2>1, <2>2 DEF rev, top, low, PersistGood
<1> HIDE DEF p
<1>5. /\ queue \in Seq(Entry) /\ queue' \in Seq(Entry) /\ Len(queue) \in Nat /\ Len(queue') \in Nat
      /\ 1 .. Len(queue) \subseteq 1 .. Len(queue')
  <2>1. queue \in Seq(Entry) /\ queue' \in Seq(Entry)
    BY <1>2, <1>4 DEF QueueSound, DurabilityInv
  <2> QED BY <2>1, <1>2, <1>4
<1>6. phase' # "waiting" => queue # <<>> /\ queue' # <<>> /\ queue'[1] = queue[1]
  BY <1>2, <1>4, <1>5 DEF DurabilityInv, HeadSound
<1>7. DOMAIN waits' = Clients \cup {Closer} /\ DOMAIN waits = Clients \cup {Closer}
  BY <1>2 DEF DurabilityInv, WaitsSound
<1>8. ASSUME NEW w \in Clients \cup {Closer}
      PROVE  WaitSound(waits'[w], queue', disk'.root)
  <2>1. WaitSound(waits[w], queue', disk'.root)
    <3>1. WaitSound(waits[w], queue, disk.root)
      BY DEF DurabilityInv, WaitsSound
    <3> QED BY <1>2, <1>4, <1>5, <3>1 DEF WaitSound
  <2>2. ~p.full => WaitSound(Awaiting(receipt.revision, FALSE, receipt), queue', disk'.root)
    BY <1>1, <1>2, <1>4 DEF WaitSound, Awaiting
  <2> QED
    BY <1>2, <1>7, <2>1, <2>2
<1>9. HeadSound'
  BY <1>6 DEF DurabilityInv, HeadSound
<1>10. AckedDurable'
  BY DEF DurabilityInv, AckedDurable
<1>11. QueueSound(queue', revision', root', disk'.root)
  BY <1>2, <1>4
<1>12. MemorySound'
  BY <1>3 DEF DurabilityInv, MemorySound
<1>13. WaitsSound'
  BY <1>7, <1>8 DEF WaitsSound
<1> QED
  BY <1>9, <1>10, <1>11, <1>12, <1>13 DEF DurabilityInv

(* The same for a caller that asks under the present revision *)
LEMMA AwaitKeeps ==
  ASSUME DurabilityInv, NEW c \in Clients \cup {Closer}, NEW receipt, NEW otherwise,
         revision' \in Nat, issued' \in Nat, root' \in SUBSET Nat,
         QueueSound(queue, revision', root', disk.root),
         persisted < revision', root \subseteq root',
         receipt = [revision |-> revision', root |-> root'],
         AwaitPersist(c, Persist(queue, receipt), receipt, otherwise),
         UNCHANGED <<persisted, phase, disk, promised>>
  PROVE  DurabilityInv'
<1>1. /\ receipt.revision = revision' /\ receipt.root \subseteq root'
      /\ revision' <= revision'
  OBVIOUS
<1> QED
  BY <1>1, AwaitLabelled

(* Publishing makes a root that contains the old one. *)
LEMMA PublishedSound ==
  ASSUME DurabilityInv, NEW n \in Nat \ {0}, Publish(n)
  PROVE  /\ revision' = revision + n /\ revision' \in Nat /\ issued' \in Nat
         /\ root' \in SUBSET Nat /\ root \subseteq root'
         /\ root' = Published(n).root
         /\ Published(n) = [revision |-> revision', root |-> root']
         /\ persisted < revision'
         /\ QueueSound(queue, revision', root', disk.root)
         /\ \A i \in 1 .. Len(queue) : queue[i].revision < revision + 1
<1>1. /\ revision \in Nat /\ issued \in Nat /\ root \in SUBSET Nat
      /\ persisted \in Int /\ persisted <= revision
      /\ QueueSound(queue, revision, root, disk.root)
  BY DEF DurabilityInv, MemorySound
<1>2. /\ revision' = revision + n /\ issued' = issued + n
      /\ root' = root \cup issued + 1 .. issued + n
  BY DEF Publish, Published
<1>3. root' \in SUBSET Nat
  BY <1>1, <1>2
<1> DEFINE low == disk.root
           top2 == root'
<1>4. QueueSound(queue, revision + n, top2, low) /\ \A i \in 1 .. Len(queue) : queue[i].revision < revision + 1
  <2>1. top2 \in SUBSET Nat /\ root \subseteq top2 /\ QueueSound(queue, revision, root, low)
    BY <1>1, <1>2, <1>3
  <2> HIDE DEF low, top2
  <2> QED BY <1>1, <2>1, PublishSound
<1> QED
  BY <1>1, <1>2, <1>3, <1>4 DEF Published

(* A step that leaves queue, waits, disk and promises alone and publishes   *)
(* at most a new commit.                                                    *)
LEMMA VolatileKeeps ==
  ASSUME DurabilityInv, Publish(1), UNCHANGED <<persisted, phase, disk, promised, queue, waits>>
  PROVE  DurabilityInv'
<1>1. /\ revision' = revision + 1 /\ revision' \in Nat /\ issued' \in Nat
      /\ root' \in SUBSET Nat /\ root \subseteq root'
      /\ persisted < revision'
      /\ QueueSound(queue, revision', root', disk.root)
  BY PublishedSound
<1>2. MemorySound'
  <2>1. /\ persisted' = persisted /\ disk' = disk /\ persisted \in Int
        /\ disk.revision \in Nat /\ disk.root \subseteq root
    BY DEF DurabilityInv, MemorySound
  <2>2. persisted' <= revision' /\ persisted' # revision'
    BY <1>1, <2>1
  <2>3. disk'.root \subseteq root'
    BY <1>1, <2>1
  <2> QED BY <1>1, <2>1, <2>2, <2>3 DEF MemorySound
<1>3. QueueSound(queue', revision', root', disk'.root)
  BY <1>1
<1>4. HeadSound'
  BY DEF DurabilityInv, HeadSound
<1>5. WaitsSound'
  BY DEF DurabilityInv, WaitsSound
<1>6. AckedDurable'
  BY DEF DurabilityInv, AckedDurable
<1> QED
  BY <1>2, <1>3, <1>4, <1>5, <1>6 DEF DurabilityInv

(* What is published in a step of two commits *)
LEMMA PublishedTwice ==
  ASSUME DurabilityInv, Publish(2)
  PROVE  /\ Published(1).root \subseteq root' /\ Published(1).revision = revision + 1
         /\ [Published(2) EXCEPT !.revision = revision + 1]
              = [revision |-> revision + 1, root |-> root']
         /\ Published(2).root = root'
<1> DEFINE top == root'
           rev == revision + 2
<1>1. Published(2) = [revision |-> rev, root |-> top]
  BY PublishedSound
<1>2. /\ Published(1).root \subseteq top
      /\ [Published(2) EXCEPT !.revision = revision + 1] = [revision |-> revision + 1, root |-> top]
      /\ Published(2).root = top
  <2>1. issued \in Nat /\ Published(2).root = root \cup issued + 1 .. issued + 2
    BY DEF DurabilityInv, MemorySound, Published
  <2>2. Published(2).root = top /\ Published(2).revision = rev
    BY <1>1
  <2>3. issued + 1 .. issued + 1 \subseteq issued + 1 .. issued + 2
    BY <2>1
  <2>4. Published(1).root = root \cup issued + 1 .. issued + 1
    BY DEF Published
  <2>5. Published(1).root \subseteq top
    BY <2>1, <2>2, <2>3, <2>4
  <2> HIDE DEF top, rev
  <2>6. [Published(2) EXCEPT !.revision = revision + 1] = [revision |-> revision + 1, root |-> top]
    BY <1>1
  <2> QED BY <2>2, <2>5, <2>6
<1> QED
  BY <1>2 DEF Published

(* The snapshot of a commit with an overflow hook that commits in memory:   *)
(* it is queued under a revision that is over already.                      *)
LEMMA VolatileHookKeeps ==
  ASSUME DurabilityInv, NEW c \in Clients, CommitAroundVolatile(c)
  PROVE  DurabilityInv'
<1> DEFINE late == [Published(2) EXCEPT !.revision = revision + 1]
<1>1. /\ Publish(2) /\ AwaitPersist(c, Persist(queue, late), Published(1), state)
      /\ UNCHANGED <<persisted, phase, disk, promised>>
  BY DEF CommitAroundVolatile, storage
<1>2. /\ Published(1).root \subseteq root' /\ Published(1).revision = revision + 1
      /\ late = [revision |-> revision + 1, root |-> root']
  BY <1>1, PublishedTwice
<1>3. /\ revision' = revision + 2 /\ revision' \in Nat /\ issued' \in Nat
      /\ root' \in SUBSET Nat /\ root \subseteq root'
      /\ persisted < revision'
      /\ QueueSound(queue, revision', root', disk.root)
      /\ \A i \in 1 .. Len(queue) : queue[i].revision < revision + 1
  BY <1>1, PublishedSound
<1> HIDE DEF late
<1>4. revision + 1 \in Nat /\ revision + 1 <= revision'
  BY <1>3 DEF DurabilityInv, MemorySound
<1>5. NotPending(queue, revision + 1)
  <2>1. \A i \in 1 .. Len(queue) : queue[i].revision \in Nat
    <3>1. queue \in Seq(Entry)
      BY <1>3 DEF QueueSound
    <3>2. \A i \in 1 .. Len(queue) : queue[i] \in Entry
      BY <3>1
    <3> QED
      BY <3>2 DEF Entry
  <2> QED
    BY <1>3, <1>4, <2>1 DEF NotPending
<1> QED
  BY <1>1, <1>2, <1>3, <1>4, <1>5, AwaitLabelled

(* The two snapshots of a commit with a committing overflow hook. *)
LEMMA HookKeeps ==
  ASSUME DurabilityInv, NEW c \in Clients, NEW hook \in Clients, CommitAroundHook(c, hook)
  PROVE  DurabilityInv'
<1> DEFINE top   == root'
           low   == disk.root
           rev   == revision + 2
           inner == Persist(queue, [revision |-> rev, root |-> top])
           outer == Persist(inner.queue, [revision |-> revision + 1, root |-> top])
<1>1. /\ revision' = rev /\ revision' \in Nat /\ issued' \in Nat
      /\ top \in SUBSET Nat /\ root \subseteq top
      /\ Published(2) = [revision |-> rev, root |-> top]
      /\ persisted < revision'
      /\ QueueSound(queue, rev, top, low)
      /\ \A i \in 1 .. Len(queue) : queue[i].revision < revision + 1
  <2>1. Publish(2)
    BY DEF CommitAroundHook
  <2> QED BY <2>1, PublishedSound
<1>2. /\ Published(1).root \subseteq top
      /\ [Published(2) EXCEPT !.revision = revision + 1] = [revision |-> revision + 1, root |-> top]
      /\ Published(2).root = top
  BY PublishedTwice DEF CommitAroundHook
<1>3. low \subseteq top /\ revision \in Nat
  BY <1>1 DEF DurabilityInv, MemorySound
<1>4. /\ queue' = outer.queue
      /\ waits' = [w \in DOMAIN waits |->
            IF w = hook /\ ~inner.full THEN Awaiting(revision + 2, FALSE, Published(2))
            ELSE IF w = c /\ ~outer.full THEN Awaiting(revision + 1, FALSE, Published(1))
            ELSE waits[w]]
      /\ UNCHANGED <<persisted, phase, disk, promised>>
  BY <1>1, <1>2 DEF CommitAroundHook, storage
<1> HIDE DEF top, low
<1>5. PersistGood(queue, rev, top, low, rev)
  <2>1. rev \in Nat /\ rev <= rev
    BY <1>3
  <2> HIDE DEF rev
  <2> QED BY <1>1, <1>3, <2>1, PersistSound
<1>6. /\ QueueSound(inner.queue, rev, top, low)
      /\ Len(inner.queue) >= Len(queue)
      /\ \A n \in 1 .. Len(queue) : inner.queue[n] = queue[n]
      /\ ~inner.full => \E n \in 1 .. Len(inner.queue) : /\ inner.queue[n].revision = rev
                                                         /\ inner.queue[n].root = top
      /\ \A n \in 1 .. Len(inner.queue) : inner.queue[n].revision = rev
            \/ \E m \in 1 .. Len(queue) : inner.queue[n].revision = queue[m].revision
  BY <1>5 DEF PersistGood
<1>7. PersistGood(inner.queue, rev, top, low, revision + 1)
  <2> HIDE DEF inner
  <2>1. NotPending(inner.queue, revision + 1)
    BY SMTT(30), <1>1, <1>3, <1>6 DEF NotPending
  <2>2. revision + 1 <= rev /\ rev \in Nat /\ revision + 1 \in Nat
    BY <1>3
  <2> QED BY <1>1, <1>3, <1>6, <2>1, <2>2, PersistSound
<1>8. /\ QueueSound(outer.queue, rev, top, low)
      /\ Len(outer.queue) >= Len(inner.queue)
      /\ \A n \in 1 .. Len(inner.queue) : outer.queue[n] = inner.queue[n]
      /\ ~outer.full => \E n \in 1 .. Len(outer.queue) : /\ outer.queue[n].revision = revision + 1
                                                         /\ outer.queue[n].root = top
  BY <1>7 DEF PersistGood
<1> HIDE DEF inner, outer
<1>9. /\ queue \in Seq(Entry) /\ Len(queue) \in Nat
      /\ inner.queue \in Seq(Entry) /\ Len(inner.queue) \in Nat
      /\ queue' \in Seq(Entry) /\ Len(queue') \in Nat
  <2>1. queue \in Seq(Entry) /\ inner.queue \in Seq(Entry) /\ queue' \in Seq(Entry)
    BY <1>1, <1>4, <1>6, <1>8 DEF QueueSound
  <2> QED BY <2>1
<1>10. /\ 1 .. Len(queue) \subseteq 1 .. Len(inner.queue)
       /\ 1 .. Len(inner.queue) \subseteq 1 .. Len(queue')
       /\ \A n \in 1 .. Len(queue) : queue'[n] = queue[n]
       /\ ~inner.full => \E n \in 1 .. Len(queue') : /\ queue'[n].revision = revision + 2
                                                     /\ queue'[n].root = top
  <2>1. /\ 1 .. Len(queue) \subseteq 1 .. Len(inner.queue)
        /\ 1 .. Len(inner.queue) \subseteq 1 .. Len(queue')
    BY <1>4, <1>6, <1>8, <1>9
  <2> QED BY <1>4, <1>6, <1>8, <2>1
<1>11. phase' # "waiting" => queue' # <<>> /\ queue'[1] = queue[1]
  BY <1>4, <1>9, <1>10 DEF DurabilityInv, HeadSound
<1>12. ASSUME NEW w \in Clients \cup {Closer}
       PROVE  WaitSound(waits'[w], queue', low)
  <2>1. WaitSound(waits[w], queue', low)
    <3>1. WaitSound(waits[w], queue, low)
      BY DEF DurabilityInv, WaitsSound, low
    <3> QED BY <1>10, <3>1 DEF WaitSound
  <2>2. ~inner.full => WaitSound(Awaiting(revision + 2, FALSE, Published(2)), queue', low)
    BY <1>2, <1>10 DEF WaitSound, Awaiting
  <2>3. ~outer.full => WaitSound(Awaiting(revision + 1, FALSE, Published(1)), queue', low)
    BY <1>2, <1>4, <1>8 DEF WaitSound, Awaiting
  <2>4. DOMAIN waits = Clients \cup {Closer}
    BY DEF DurabilityInv, WaitsSound
  <2> QED BY <1>4, <2>1, <2>2, <2>3, <2>4
<1>13. AckedDurable'
  BY <1>4 DEF DurabilityInv, AckedDurable
<1>14. disk'.root = low /\ disk' = disk /\ root' = top
  BY <1>4 DEF low, top
<1>15. WaitsSound'
  <2>1. DOMAIN waits' = Clients \cup {Closer}
    BY <1>4 DEF DurabilityInv, WaitsSound
  <2> QED BY <1>12, <1>14, <2>1 DEF WaitsSound
<1>16. HeadSound'
  BY <1>4, <1>11 DEF DurabilityInv, HeadSound
<1>17. QueueSound(queue', revision', root', disk'.root)
  BY <1>1, <1>4, <1>8, <1>14
<1>18. MemorySound'
  BY <1>1, <1>3, <1>4, <1>14 DEF DurabilityInv, MemorySound
<1> QED
  BY <1>13, <1>15, <1>16, <1>17, <1>18 DEF DurabilityInv
(* Everyone else who persists the current root, or awaits the end of the   *)
(* queue because the current root is persisted already.                    *)
LEMMA CoverKeeps ==
  ASSUME DurabilityInv, NEW c \in Clients \cup {Closer}, NEW otherwise,
         Cover(c, otherwise), UNCHANGED <<revision, root, issued, persisted, phase, disk>>
  PROVE  DurabilityInv'
<1>1. /\ revision \in Nat /\ issued \in Nat /\ root \in SUBSET Nat
      /\ persisted \in Int /\ persisted <= revision
      /\ persisted = revision => root \subseteq disk.root
      /\ QueueSound(queue, revision, root, disk.root)
  BY DEF DurabilityInv, MemorySound
<1>2. CASE /\ persisted < revision
           /\ AwaitPersist(c, Persist(queue, Now), Now, otherwise)
           /\ UNCHANGED promised
  <2>1. /\ revision' \in Nat /\ issued' \in Nat /\ root' \in SUBSET Nat
        /\ QueueSound(queue, revision', root', disk.root)
        /\ persisted < revision' /\ root \subseteq root'
        /\ Now = [revision |-> revision', root |-> root']
    BY <1>1, <1>2 DEF Now
  <2> QED BY <1>2, <2>1, AwaitKeeps
<1>3. CASE /\ persisted >= revision
           /\ waits' = IF queue = <<>> THEN waits
                       ELSE [waits EXCEPT ![c] = Awaiting(Last(queue).revision, TRUE, Now)]
           /\ promised' = IF queue = <<>> THEN promised \cup {Now} ELSE promised
           /\ UNCHANGED queue
  <2>1. Now.root \subseteq disk.root
    BY <1>1, <1>3 DEF Now
  <2>2. AckedDurable'
    BY <1>3, <2>1 DEF DurabilityInv, AckedDurable
  <2>3. WaitsSound'
    <3>1. \A task : WaitSound(Awaiting(task, TRUE, Now), queue, disk.root)
      BY <2>1 DEF WaitSound, Awaiting
    <3>2. /\ DOMAIN waits = Clients \cup {Closer} /\ DOMAIN waits' = Clients \cup {Closer}
          /\ \A w \in Clients \cup {Closer} : WaitSound(waits[w], queue, disk.root)
      BY <1>3 DEF DurabilityInv, WaitsSound
    <3>3. \A w \in Clients \cup {Closer} : WaitSound(waits'[w], queue, disk.root)
      BY <1>3, <3>1, <3>2
    <3> QED BY <1>3, <3>2, <3>3 DEF WaitsSound
  <2>4. HeadSound'
    BY <1>3 DEF DurabilityInv, HeadSound
  <2>5. MemorySound'
    BY DEF DurabilityInv, MemorySound
  <2>6. QueueSound(queue', revision', root', disk'.root)
    BY <1>1, <1>3
  <2> QED BY <2>2, <2>3, <2>4, <2>5, <2>6 DEF DurabilityInv
<1> QED BY <1>2, <1>3 DEF Cover

(* The adapter installs the snapshot at the head. *)
LEMMA InstallKeeps ==
  ASSUME DurabilityInv, InstallSnapshot
  PROVE  DurabilityInv'
<1>1. /\ queue # <<>> /\ disk'.revision = Head(queue).revision /\ disk'.root = Head(queue).root
      /\ phase' = "installed"
      /\ UNCHANGED <<revision, root, persisted, issued, queue, waits, promised>>
  BY DEF InstallSnapshot, Envelope, memory, history, DurabilityInv, HeadSound
<1>2. /\ QueueSound(queue, revision, root, queue[1].root)
      /\ disk.root \subseteq queue[1].root /\ queue[1].root \subseteq root
      /\ queue[1] \in Entry
  BY <1>1, InstallSound DEF DurabilityInv
<1>3. disk'.root = queue[1].root /\ disk'.revision \in Nat
  <2>1. Head(queue) = queue[1]
    BY <1>1, TailSound DEF DurabilityInv
  <2> QED BY <1>1, <1>2, <2>1 DEF Entry
<1>4. AckedDurable'
  BY <1>1, <1>2, <1>3 DEF DurabilityInv, AckedDurable
<1>5. HeadSound'
  BY <1>1, <1>3 DEF HeadSound
<1>6. WaitsSound'
  BY <1>1, <1>2, <1>3 DEF DurabilityInv, WaitsSound, WaitSound
<1>7. MemorySound'
  BY <1>1, <1>2, <1>3 DEF DurabilityInv, MemorySound
<1>8. QueueSound(queue', revision', root', disk'.root)
  BY <1>1, <1>2, <1>3
<1> QED
  BY <1>4, <1>5, <1>6, <1>7, <1>8 DEF DurabilityInv

(* The acknowledged snapshot of the current revision is the current root. *)
LEMMA AckKeeps ==
  ASSUME DurabilityInv, AckStore
  PROVE  DurabilityInv'
<1>1. /\ phase = "installed" /\ phase' = "stored"
      /\ persisted' = Acknowledged
      /\ UNCHANGED <<revision, root, issued, queue, waits, disk, promised>>
  BY DEF AckStore, storage, history
<1>2. /\ queue # <<>> /\ queue[1].root = disk.root
  BY <1>1 DEF DurabilityInv, HeadSound
<1>3. /\ 1 \in 1 .. Len(queue) /\ Head(queue) = queue[1] /\ queue[1] \in Entry
  BY <1>2, TailSound, InstallSound DEF DurabilityInv
<1>4. /\ Head(queue).revision \in Nat /\ Head(queue).revision <= revision
      /\ Head(queue).revision = revision => root = disk.root
  BY <1>2, <1>3 DEF DurabilityInv, QueueSound, Entry
<1>5. /\ persisted' \in Int /\ persisted' <= revision
      /\ persisted' = revision => root \subseteq disk.root
  <2>1. /\ persisted \in Int /\ persisted <= revision /\ revision \in Nat
        /\ persisted = revision => root \subseteq disk.root
    BY DEF DurabilityInv, MemorySound
  <2>2. persisted' = persisted \/ persisted' = Head(queue).revision
    BY <1>1 DEF Acknowledged
  <2> QED BY <1>4, <2>1, <2>2
<1>6. MemorySound'
  BY <1>1, <1>5 DEF DurabilityInv, MemorySound
<1>7. HeadSound'
  BY <1>1, <1>2 DEF HeadSound
<1>8. WaitsSound' /\ QueueSound(queue', revision', root', disk'.root)
  BY <1>1 DEF DurabilityInv, WaitsSound
<1>9. AckedDurable'
  BY <1>1 DEF DurabilityInv, AckedDurable
<1> QED
  BY <1>6, <1>7, <1>8, <1>9 DEF DurabilityInv

(* The task leaves the queue.  Labels are not shared, so whoever goes on   *)
(* after a success awaited the snapshot that is now on disk, and whoever   *)
(* does not go on awaits one that is still pending.                        *)
LEMMA SettleKeeps ==
  ASSUME DurabilityInv, SettleTask
  PROVE  DurabilityInv'
<1>1. /\ phase \in {"stored", "failed"} /\ phase' = "waiting"
      /\ queue' = Tail(queue)
      /\ waits' = [c \in DOMAIN waits |-> IF c \in HeadAwaited THEN Idle ELSE waits[c]]
      /\ promised' = promised \cup {waits[c].receipt : c \in HeadAwaited \cap Resolvable}
      /\ UNCHANGED <<revision, root, persisted, issued, disk>>
  BY DEF SettleTask, memory, storage, Awakened, Resolved
<1>2. queue # <<>> /\ (phase = "stored" => queue[1].root = disk.root)
  BY <1>1 DEF DurabilityInv, HeadSound
<1>3. /\ QueueSound(Tail(queue), revision, root, disk.root)
      /\ 1 \in 1 .. Len(queue) /\ Head(queue) = queue[1]
      /\ \A n \in 1 .. Len(queue) : n # 1 => /\ n - 1 \in 1 .. Len(Tail(queue))
                                             /\ Tail(queue)[n - 1] = queue[n]
  BY <1>2, TailSound DEF DurabilityInv
<1>4. /\ DOMAIN waits = Clients \cup {Closer}
      /\ \A c \in Clients \cup {Closer} : WaitSound(waits[c], queue, disk.root)
  BY DEF DurabilityInv, WaitsSound
<1>5. WaitsSound'
  <2>1. ASSUME NEW c \in Clients \cup {Closer}
        PROVE  WaitSound(waits'[c], Tail(queue), disk.root)
    <3>1. CASE c \in HeadAwaited
      BY <1>1, <1>4, <3>1 DEF WaitSound
    <3>2. CASE c \notin HeadAwaited
      <4>1. waits'[c] = waits[c] /\ (waits[c] # Idle => waits[c].task # queue[1].revision)
        BY <1>1, <1>3, <1>4, <3>2 DEF HeadAwaited
      <4>2. WaitSound(waits[c], queue, disk.root)
        BY <1>4
      <4>3. ASSUME waits[c] # Idle, ~waits[c].tail
            PROVE  \E n \in 1 .. Len(Tail(queue)) : /\ Tail(queue)[n].revision = waits[c].task
                                                    /\ waits[c].receipt.root \subseteq Tail(queue)[n].root
        <5>1. PICK n \in 1 .. Len(queue) : /\ queue[n].revision = waits[c].task
                                           /\ waits[c].receipt.root \subseteq queue[n].root
          BY <4>2, <4>3 DEF WaitSound
        <5>2. n # 1
          BY <4>1, <4>3, <5>1
        <5> QED BY <1>3, <5>1, <5>2
      <4> QED BY <4>1, <4>2, <4>3 DEF WaitSound
    <3> QED BY <3>1, <3>2
  <2> QED BY <1>1, <1>4, <2>1 DEF WaitsSound
<1>6. AckedDurable'
  <2>1. ASSUME NEW c \in HeadAwaited \cap Resolvable
        PROVE  waits[c].receipt.root \subseteq disk.root
    <3>1. /\ c \in Clients \cup {Closer} /\ waits[c] # Idle
          /\ waits[c].task = queue[1].revision
          /\ phase = "stored" \/ waits[c].tail
      BY <1>3, <1>4, <2>1 DEF HeadAwaited, Resolvable
    <3>2. WaitSound(waits[c], queue, disk.root)
      BY <1>4, <3>1
    <3>3. CASE waits[c].tail
      BY <3>1, <3>2, <3>3 DEF WaitSound
    <3>4. CASE ~waits[c].tail
      <4>1. PICK n \in 1 .. Len(queue) : /\ queue[n].revision = waits[c].task
                                         /\ waits[c].receipt.root \subseteq queue[n].root
        BY <3>1, <3>2, <3>4 DEF WaitSound
      <4>2. n = 1
        BY <1>3, <3>1, <4>1 DEF DurabilityInv, QueueSound
      <4> QED BY <1>2, <3>1, <3>4, <4>1, <4>2
    <3> QED BY <3>3, <3>4
  <2> QED BY <1>1, <2>1 DEF DurabilityInv, AckedDurable
<1>7. MemorySound' /\ HeadSound'
  BY <1>1 DEF DurabilityInv, MemorySound, HeadSound
<1> QED
  BY <1>1, <1>3, <1>5, <1>6, <1>7 DEF DurabilityInv

(* A new process reads what is on disk. *)
LEMMA RestartKeeps ==
  ASSUME DurabilityInv, Restart
  PROVE  DurabilityInv'
<1>1. /\ revision' = disk.revision /\ root' = disk.root
      /\ persisted' = IF disk.generation = 0 THEN -1 ELSE disk.revision
      /\ queue' = <<>> /\ phase' = "waiting"
      /\ waits' = [c \in DOMAIN waits |-> Idle]
      /\ UNCHANGED <<disk, issued, promised>>
  BY DEF Restart, history
<1>2. /\ disk.revision \in Nat /\ disk.root \in SUBSET Nat /\ issued \in Nat
      /\ DOMAIN waits = Clients \cup {Closer}
  BY DEF DurabilityInv, MemorySound, WaitsSound
<1>3. MemorySound'
  BY <1>1, <1>2 DEF MemorySound
<1>4. QueueSound(queue', revision', root', disk'.root)
  <2>1. queue' \in Seq(Entry) /\ Len(queue') = 0
    BY <1>1
  <2> QED BY <2>1 DEF QueueSound
<1>5. HeadSound' /\ WaitsSound'
  BY <1>1, <1>2 DEF HeadSound, WaitsSound, WaitSound
<1>6. AckedDurable'
  BY <1>1 DEF DurabilityInv, AckedDurable
<1> QED
  BY <1>3, <1>4, <1>5, <1>6 DEF DurabilityInv

(* A step of the task or of close() that touches none of what the argument *)
(* is about, except the phase.                                             *)
LEMMA OthersKeep ==
  ASSUME DurabilityInv, queue = queue',
         phase' = phase \/ (phase' = "storing" /\ queue # <<>>) \/ (phase' = "failed" /\ phase # "waiting"),
         UNCHANGED <<revision, root, persisted, issued, waits, disk, promised>>
  PROVE  DurabilityInv'
<1>1. MemorySound' /\ WaitsSound' /\ QueueSound(queue', revision', root', disk'.root)
  BY DEF DurabilityInv, MemorySound, WaitsSound
<1>2. HeadSound'
  BY DEF DurabilityInv, HeadSound
<1>3. AckedDurable'
  BY DEF DurabilityInv, AckedDurable
<1> QED
  BY <1>1, <1>2, <1>3 DEF DurabilityInv

-----------------------------------------------------------------------------
(* A new database satisfies the invariant. *)
LEMMA DurabilityInit == Init => DurabilityInv
<1> SUFFICES ASSUME Init PROVE DurabilityInv
  OBVIOUS
<1>1. MemorySound /\ HeadSound /\ WaitsSound /\ AckedDurable
  BY DEF Init, MemorySound, HeadSound, WaitsSound, WaitSound, AckedDurable
<1>2. QueueSound(queue, revision, root, disk.root)
  <2>1. queue \in Seq(Entry) /\ Len(queue) = 0
    BY DEF Init
  <2> QED BY <2>1 DEF QueueSound
<1> QED
  BY <1>1, <1>2 DEF DurabilityInv

(* Every step preserves the invariant. *)
LEMMA DurabilityStep == DurabilityInv /\ [Next]_vars => DurabilityInv'
<1> SUFFICES ASSUME DurabilityInv, [Next]_vars PROVE DurabilityInv'
  OBVIOUS
<1>1. ASSUME NEW c \in Clients, CommitPersisted(c) PROVE DurabilityInv'
  <2>1. /\ Publish(1) /\ AwaitPersist(c, Persist(queue, Published(1)), Published(1), state)
        /\ UNCHANGED <<persisted, phase, disk, promised>>
    BY <1>1 DEF CommitPersisted, storage
  <2>2. /\ revision' \in Nat /\ issued' \in Nat
        /\ root' \in SUBSET Nat /\ root \subseteq root'
        /\ Published(1) = [revision |-> revision', root |-> root']
        /\ persisted < revision'
        /\ QueueSound(queue, revision', root', disk.root)
    BY <2>1, PublishedSound
  <2> QED BY <2>1, <2>2, AwaitKeeps
<1>2. ASSUME NEW c \in Clients, CommitUnchanged(c) PROVE DurabilityInv'
  <2>1. UNCHANGED <<revision, root, issued, persisted, phase, disk>>
    BY <1>2 DEF CommitUnchanged, memory, storage
  <2>2. CASE /\ persisted < revision
             /\ AwaitPersist(c, Persist(queue, Now), Now, state)
             /\ UNCHANGED promised
    BY <2>1, <2>2, CoverKeeps DEF Cover
  <2>3. CASE /\ persisted >= revision /\ promised' = promised \cup {Now}
             /\ UNCHANGED <<queue, waits>>
    <3>1. Now.root \subseteq disk.root
      BY <2>3 DEF Now, DurabilityInv, MemorySound
    <3>2. AckedDurable'
      BY <2>1, <2>3, <3>1 DEF DurabilityInv, AckedDurable
    <3>3. MemorySound' /\ HeadSound' /\ WaitsSound' /\ QueueSound(queue', revision', root', disk'.root)
      BY <2>1, <2>3 DEF DurabilityInv, MemorySound, HeadSound, WaitsSound
    <3> QED BY <3>2, <3>3 DEF DurabilityInv
  <2> QED BY <1>2, <2>2, <2>3 DEF CommitUnchanged
<1>3. ASSUME NEW c \in Clients, Flush(c) PROVE DurabilityInv'
  BY <1>3, CoverKeeps DEF Flush, memory, storage
<1>4. ASSUME NEW c \in Clients, NEW hook \in Clients, CommitAroundHook(c, hook) PROVE DurabilityInv'
  BY <1>4, HookKeeps
<1>15. ASSUME NEW c \in Clients, CommitAroundVolatile(c) PROVE DurabilityInv'
  BY <1>15, VolatileHookKeeps
<1>5. CASE CommitVolatile
  BY <1>5, VolatileKeeps DEF CommitVolatile, storage
<1>6. CASE Close
  BY <1>6, CoverKeeps DEF Close, memory, storage
<1>7. CASE InstallSnapshot
  BY <1>7, InstallKeeps
<1>8. CASE AckStore
  BY <1>8, AckKeeps
<1>9. CASE SettleTask
  BY <1>9, SettleKeeps
<1>10. CASE Restart
  BY <1>10, RestartKeeps
<1>11. CASE StartStore
  BY <1>11, OthersKeep DEF StartStore, memory, storage, history
<1>12. CASE FailStore \/ LoseAck
  BY <1>12, OthersKeep DEF FailStore, LoseAck, StoreRejected, memory, storage, history
<1>13. CASE ReleaseAdapter \/ FinishClose
  BY <1>13, OthersKeep DEF ReleaseAdapter, FinishClose, memory, storage, history
<1>14. CASE UNCHANGED vars
  BY <1>14, OthersKeep DEF vars, memory, storage, history
<1> QED
  BY <1>1, <1>2, <1>3, <1>4, <1>5, <1>6, <1>7, <1>8, <1>9, <1>10, <1>11, <1>12, <1>13, <1>14,
     <1>15 DEF Next

(* The queue, the callers and the disk always agree as described above. *)
THEOREM DurabilityInvHolds == Spec => []DurabilityInv
BY DurabilityInit, DurabilityStep, PTL DEF Spec

(* No acknowledged commit is ever missing from the disk: #persist shares,  *)
(* refuses, stores and fails snapshots, the overflow hook commits inside a *)
(* commit and the process restarts, all without losing one.                *)
THEOREM AckedStaysDurable == Spec => []AckedDurable
<1>1. DurabilityInv => AckedDurable
  BY DEF DurabilityInv
<1> QED
  BY <1>1, DurabilityInvHolds, PTL

-----------------------------------------------------------------------------
(* What memory holds, whatever the overflow hook does *)

MemoryTypes ==
  /\ state \in {"open", "degraded", "closing", "closed"}
  /\ issued \in 0 .. MaxCommits /\ revision \in 0 .. issued /\ root \subseteq 1 .. issued
  /\ persisted \in Int /\ -1 <= persisted
  /\ generation \in Nat /\ released \in BOOLEAN
  /\ disk.generation \in Nat /\ disk.revision \in 0 .. issued
  /\ phase \in {"waiting", "storing", "installed", "stored", "failed"}
  /\ closing \in {"none", "flushing", "settled", "releasing", "closed"}

(* What a caller awaits is pending, and what it was promised is a snapshot. *)
PendingFor(wait, q) ==
  wait # Idle => /\ wait.receipt \in Snapshot
                 /\ \E n \in 1 .. Len(q) : q[n].revision = wait.task

PromiseTypes ==
  /\ Len(queue) <= MaxPendingSnapshots
  /\ \A c \in Clients \cup {Closer} : PendingFor(waits[c], queue)
  /\ promised \subseteq Snapshot

TypeInv == MemoryTypes /\ PromiseTypes

-----------------------------------------------------------------------------
(* Types *)

(* What the invariant says of the queue and its head *)
LEMMA QueueFacts ==
  ASSUME DurabilityInv
  PROVE  /\ queue \in Seq(Entry) /\ Len(queue) \in Nat
         /\ \A n \in 1 .. Len(queue) :
              /\ queue[n] \in Entry /\ queue[n].revision \in Nat /\ queue[n].revision <= revision
              /\ disk.root \subseteq queue[n].root /\ queue[n].root \subseteq root
         /\ phase # "waiting" => queue # <<>>
         /\ queue # <<>> => /\ Head(queue) = queue[1] /\ 1 \in 1 .. Len(queue)
                            /\ Head(queue).revision \in Nat /\ Head(queue).revision <= revision
         /\ revision \in Nat /\ issued \in Nat /\ root \subseteq Nat
         /\ persisted \in Int /\ persisted <= revision /\ disk.root \subseteq root
         /\ DOMAIN waits = Clients \cup {Closer}
<1>1. queue \in Seq(Entry) /\ (phase # "waiting" => queue # <<>>)
  BY DEF DurabilityInv, QueueSound, HeadSound
<1>2. \A n \in 1 .. Len(queue) : queue[n] \in Entry
  BY <1>1
<1>3. \A n \in 1 .. Len(queue) :
        /\ queue[n].revision \in Nat /\ queue[n].revision <= revision
        /\ disk.root \subseteq queue[n].root /\ queue[n].root \subseteq root
  BY <1>2 DEF DurabilityInv, QueueSound, Entry
<1>4. queue # <<>> => Head(queue) = queue[1] /\ 1 \in 1 .. Len(queue)
  BY <1>1
<1> QED
  BY <1>1, <1>2, <1>3, <1>4 DEF DurabilityInv, MemorySound, WaitsSound

(* A published root has as many commits more as the revision is higher. *)
LEMMA PublishTypes ==
  ASSUME DurabilityInv, MemoryTypes, NEW n \in 1 .. 2, Publish(n)
  PROVE  /\ issued' \in 0 .. MaxCommits /\ revision' \in 0 .. issued' /\ root' \subseteq 1 .. issued'
         /\ issued <= issued' /\ revision' = revision + n
         /\ Published(n) = [revision |-> revision', root |-> root']
<1>1. issued' = issued + n /\ revision' = revision + n /\ issued + n <= MaxCommits
  BY DEF Publish, Published
<1>2. root' = root \cup issued + 1 .. issued + n
  BY DEF Publish, Published
<1>3. issued \in Nat /\ revision \in Nat /\ revision <= issued /\ MaxCommits \in Nat
  BY DurabilityAssumption DEF MemoryTypes
<1>4. issued' \in 0 .. MaxCommits /\ revision' \in 0 .. issued' /\ issued <= issued'
  BY <1>1, <1>3
<1>5. root' \subseteq 1 .. issued'
  BY <1>1, <1>2, <1>3 DEF MemoryTypes
<1> QED
  BY <1>1, <1>2, <1>4, <1>5 DEF Published

(* A snapshot of a root that was published is one. *)
LEMMA NowIsSnapshot ==
  ASSUME MemoryTypes
  PROVE  Now \in Snapshot
<1>1. revision \in 0 .. MaxCommits /\ root \subseteq 1 .. MaxCommits
  BY DurabilityAssumption DEF MemoryTypes
<1> QED
  BY <1>1 DEF Now, Snapshot

(* Every step preserves the types of the memory and of the disk. *)
LEMMA MemoryStep == DurabilityInv /\ MemoryTypes /\ [Next]_vars => MemoryTypes'
<1> SUFFICES ASSUME DurabilityInv, MemoryTypes, [Next]_vars PROVE MemoryTypes'
  OBVIOUS
<1> USE DEF MemoryTypes
<1>1. ASSUME NEW n \in 1 .. 2, Publish(n), state' \in {state, "degraded"},
             UNCHANGED <<persisted, generation, released, disk, phase, closing>>
      PROVE  MemoryTypes'
  <2>1. /\ issued' \in 0 .. MaxCommits /\ revision' \in 0 .. issued' /\ root' \subseteq 1 .. issued'
        /\ disk.revision \in 0 .. issued'
    BY <1>1, PublishTypes, DurabilityAssumption
  <2> QED
    BY <1>1, <2>1
<1>2. ASSUME state' \in {state, "degraded", "closing"},
             closing' \in {closing, "settled", "flushing"}, UNCHANGED <<memory, issued, phase, storage>>
      PROVE  MemoryTypes'
  BY <1>2 DEF memory, storage
<1>3. ASSUME NEW c, CommitPersisted(c) PROVE MemoryTypes'
  BY <1>3, <1>1 DEF CommitPersisted, AwaitPersist, storage
<1>4. ASSUME NEW c, CommitUnchanged(c) PROVE MemoryTypes'
  BY <1>4, <1>2 DEF CommitUnchanged, AwaitPersist
<1>5. ASSUME NEW c, Flush(c) PROVE MemoryTypes'
  BY <1>5, <1>2 DEF Flush, Cover, AwaitPersist
<1>6. ASSUME NEW c, NEW hook, CommitAroundHook(c, hook) PROVE MemoryTypes'
  BY <1>6, <1>1 DEF CommitAroundHook, storage
<1>14. ASSUME NEW c, CommitAroundVolatile(c) PROVE MemoryTypes'
  BY <1>14, <1>1 DEF CommitAroundVolatile, AwaitPersist, storage
<1>7. CASE CommitVolatile
  BY <1>7, <1>1 DEF CommitVolatile, storage
<1>8. CASE Close
  BY <1>8, <1>2 DEF Close, Cover, AwaitPersist
<1>9. CASE StartStore \/ FailStore \/ LoseAck \/ SettleTask \/ ReleaseAdapter \/ FinishClose
  BY <1>9 DEF StartStore, FailStore, LoseAck, StoreRejected, SettleTask, ReleaseAdapter,
     FinishClose, memory, storage, history
<1>10. CASE InstallSnapshot
  <2>1. Head(queue).revision \in 0 .. issued
    <3>1. queue # <<>>
      BY <1>10, QueueFacts DEF InstallSnapshot
    <3> QED
      BY <3>1, QueueFacts
  <2>2. disk' = [generation |-> generation + 1, revision |-> Head(queue).revision,
                 root |-> Head(queue).root]
    BY <1>10 DEF InstallSnapshot, Envelope
  <2>3. disk'.generation \in Nat /\ disk'.revision \in 0 .. issued
    BY <2>1, <2>2
  <2> QED
    BY <1>10, <2>3 DEF InstallSnapshot, memory, history
<1>11. CASE AckStore
  <2>1. Head(queue).revision \in Nat
    BY <1>11, QueueFacts DEF AckStore
  <2>2. persisted' \in Int /\ -1 <= persisted'
    BY <1>11, <2>1 DEF AckStore, Acknowledged
  <2>3. state' \in {state, "open"}
    BY <1>11 DEF AckStore, Healed
  <2> QED
    BY <1>11, <2>2, <2>3 DEF AckStore, storage, history
<1>12. CASE Restart
  <2>1. root' \subseteq 1 .. issued
    BY <1>12, QueueFacts DEF Restart
  <2>2. persisted' \in Int /\ -1 <= persisted'
    BY <1>12 DEF Restart
  <2> QED
    BY <1>12, <2>1, <2>2 DEF Restart, history
<1>13. CASE UNCHANGED vars
  BY <1>13 DEF vars, memory, storage, history
<1> QED
  BY <1>3, <1>4, <1>5, <1>6, <1>7, <1>8, <1>9, <1>10, <1>11, <1>12, <1>13, <1>14
     DEF Next

(* A pending task is still there when the queue has only grown. *)
LEMMA GrownQueue ==
  ASSUME NEW wait, NEW q, NEW p, PendingFor(wait, q),
         Len(q) \in Nat, Len(p) \in Nat, Len(q) <= Len(p),
         \A n \in 1 .. Len(q) : p[n].revision = q[n].revision
  PROVE  PendingFor(wait, p)
BY DEF PendingFor

(* What #persist returns: the queue as it was, when it shares or refuses, *)
(* or one snapshot longer.                                                *)
LEMMA PersistReturns ==
  ASSUME NEW q \in Seq(Entry), NEW s \in Entry, Len(q) <= MaxPendingSnapshots,
         NEW p, p = Persist(q, s)
  PROVE  /\ p.queue \in Seq(Entry) /\ Len(p.queue) \in Nat /\ Len(q) \in Nat
         /\ Len(q) <= Len(p.queue) /\ Len(p.queue) <= MaxPendingSnapshots
         /\ \A n \in 1 .. Len(q) : p.queue[n] = q[n]
         /\ ~p.full => \E n \in 1 .. Len(p.queue) : p.queue[n].revision = s.revision
         /\ p.full => p.queue = q
         /\ \/ p.queue = q
            \/ /\ p.queue = Append(q, s) /\ Len(p.queue) = Len(q) + 1
               /\ p.queue[Len(q) + 1] = s /\ ~p.full
               /\ \A n \in 1 .. Len(q) : q[n].revision # s.revision
<1>1. Len(q) \in Nat /\ MaxPendingSnapshots \in Nat
  BY DurabilityAssumption
<1>2. CASE \E n \in 1 .. Len(q) : q[n].revision = s.revision
  <2>1. p = [queue |-> q, full |-> FALSE]
    BY <1>2 DEF Persist
  <2> QED
    BY <1>1, <1>2, <2>1
<1>3. CASE (\A n \in 1 .. Len(q) : q[n].revision # s.revision) /\ Len(q) >= MaxPendingSnapshots
  <2>1. p = [queue |-> q, full |-> TRUE]
    BY <1>3 DEF Persist
  <2> QED
    BY <1>1, <2>1
<1>4. CASE (\A n \in 1 .. Len(q) : q[n].revision # s.revision) /\ ~(Len(q) >= MaxPendingSnapshots)
  <2>1. p = [queue |-> Append(q, s), full |-> FALSE]
    BY <1>4 DEF Persist
  <2>2. /\ Append(q, s) \in Seq(Entry) /\ Len(Append(q, s)) = Len(q) + 1
        /\ Append(q, s)[Len(q) + 1] = s
        /\ \A n \in 1 .. Len(q) : Append(q, s)[n] = q[n]
    OBVIOUS
  <2>3. Len(q) + 1 \in 1 .. Len(q) + 1 /\ Len(q) + 1 <= MaxPendingSnapshots
    BY <1>1, <1>4
  <2> DEFINE a == Append(q, s)
  <2>4. /\ p.queue = a /\ p.full = FALSE /\ a \in Seq(Entry) /\ Len(a) = Len(q) + 1
        /\ a[Len(q) + 1] = s
        /\ \A n \in 1 .. Len(q) : a[n] = q[n]
    BY <2>1, <2>2
  <2> HIDE DEF a
  <2> QED
    BY <1>1, <1>4, <2>3, <2>4 DEF a
<1> QED
  BY <1>2, <1>3, <1>4

(* A caller that asks #persist for a snapshot awaits one that is pending. *)
LEMMA AwaitTypes ==
  ASSUME DurabilityInv, PromiseTypes, NEW c \in Clients \cup {Closer}, NEW otherwise,
         NEW s \in Entry, NEW receipt \in Snapshot, receipt.revision = s.revision,
         AwaitPersist(c, Persist(queue, s), receipt, otherwise), UNCHANGED promised
  PROVE  PromiseTypes'
<1> DEFINE p == Persist(queue, s)
<1>1. /\ queue' = p.queue
      /\ p.full => waits' = waits
      /\ ~p.full => waits' = [waits EXCEPT ![c] = Awaiting(s.revision, FALSE, receipt)]
  BY DEF AwaitPersist
<1>2. /\ p.queue \in Seq(Entry) /\ Len(p.queue) \in Nat /\ Len(queue) \in Nat
      /\ Len(queue) <= Len(p.queue) /\ Len(p.queue) <= MaxPendingSnapshots
      /\ \A n \in 1 .. Len(queue) : p.queue[n] = queue[n]
      /\ ~p.full => \E n \in 1 .. Len(p.queue) : p.queue[n].revision = s.revision
  BY QueueFacts, PersistReturns DEF PromiseTypes
<1> HIDE DEF p
<1>3. \A w \in Clients \cup {Closer} : PendingFor(waits[w], queue')
  BY <1>1, <1>2, GrownQueue DEF PromiseTypes
<1>4. ~p.full => PendingFor(Awaiting(s.revision, FALSE, receipt), queue')
  BY <1>1, <1>2 DEF PendingFor, Awaiting
<1>5. DOMAIN waits = Clients \cup {Closer}
  BY QueueFacts
<1>6. \A w \in Clients \cup {Closer} : PendingFor(waits'[w], queue')
  BY <1>1, <1>3, <1>4, <1>5
<1> QED
  BY <1>1, <1>2, <1>6 DEF PromiseTypes

(* Whoever needs what storage covers already awaits the end of the queue. *)
LEMMA CoverTypes ==
  ASSUME DurabilityInv, MemoryTypes, PromiseTypes, NEW c \in Clients \cup {Closer},
         NEW otherwise, Cover(c, otherwise)
  PROVE  PromiseTypes'
<1>1. Now \in Snapshot /\ Now \in Entry /\ queue \in Seq(Entry)
  BY NowIsSnapshot, QueueFacts DEF Now, Entry
<1>2. CASE /\ AwaitPersist(c, Persist(queue, Now), Now, otherwise)
           /\ UNCHANGED promised
  BY <1>1, <1>2, AwaitTypes
<1>3. CASE /\ waits' = IF queue = <<>> THEN waits
                       ELSE [waits EXCEPT ![c] = Awaiting(Last(queue).revision, TRUE, Now)]
           /\ promised' = IF queue = <<>> THEN promised \cup {Now} ELSE promised
           /\ UNCHANGED queue
  <2>1. queue # <<>> => PendingFor(Awaiting(Last(queue).revision, TRUE, Now), queue)
    <3>1. queue # <<>> => Len(queue) \in 1 .. Len(queue) /\ queue[Len(queue)] = Last(queue)
      BY <1>1 DEF Last
    <3> QED
      BY <1>1, <3>1 DEF PendingFor, Awaiting
  <2>2. DOMAIN waits = Clients \cup {Closer}
    BY QueueFacts
  <2>3. \A w \in Clients \cup {Closer} : PendingFor(waits'[w], queue)
    BY <1>3, <2>1, <2>2 DEF PromiseTypes
  <2> QED
    BY <1>1, <1>3, <2>3 DEF PromiseTypes
<1> QED
  BY <1>2, <1>3 DEF Cover

(* The snapshots of two commits published in one step *)
LEMMA PublishedTwiceTypes ==
  ASSUME MemoryTypes, Publish(2), NEW late, late = [Published(2) EXCEPT !.revision = revision + 1]
  PROVE  /\ Published(2) \in Snapshot /\ Published(1) \in Snapshot
         /\ Published(2) \in Entry /\ late \in Entry
         /\ Published(2).revision = revision + 2 /\ late.revision = revision + 1
         /\ Published(1).revision = revision + 1
<1>1. revision \in Nat /\ issued \in Nat /\ root \subseteq 1 .. issued /\ revision <= issued
      /\ issued + 2 <= MaxCommits /\ MaxCommits \in Nat
  BY DurabilityAssumption DEF MemoryTypes, Publish
<1> DEFINE one == root \cup issued + 1 .. issued + 1
           two == root \cup issued + 1 .. issued + 2
<1>2. one \subseteq 1 .. MaxCommits /\ two \subseteq 1 .. MaxCommits /\ two \subseteq Nat
  BY <1>1
<1>3. /\ Published(1) = [revision |-> revision + 1, root |-> one]
      /\ Published(2) = [revision |-> revision + 2, root |-> two]
  BY DEF Published
<1> HIDE DEF one, two
<1>4. late = [revision |-> revision + 1, root |-> two]
  BY <1>3
<1>5. revision + 1 \in 0 .. MaxCommits /\ revision + 2 \in 0 .. MaxCommits
      /\ revision + 1 \in Nat /\ revision + 2 \in Nat
  BY <1>1
<1> QED
  BY <1>2, <1>3, <1>4, <1>5 DEF Snapshot, Entry

(* Every step preserves the limit of the queue and the types of promises. *)
LEMMA PromiseStep ==
  DurabilityInv /\ MemoryTypes /\ PromiseTypes /\ [Next]_vars => PromiseTypes'
<1> SUFFICES ASSUME DurabilityInv, MemoryTypes, PromiseTypes, [Next]_vars
             PROVE  PromiseTypes'
  OBVIOUS
<1>1. CASE UNCHANGED <<queue, waits, promised>>
  BY <1>1 DEF PromiseTypes
<1>2. ASSUME NEW c \in Clients, CommitPersisted(c) PROVE PromiseTypes'
  <2>1. /\ AwaitPersist(c, Persist(queue, Published(1)), Published(1), state)
        /\ UNCHANGED promised
    BY <1>2 DEF CommitPersisted
  <2>2. Published(1) \in Snapshot /\ Published(1) \in Entry
    <3>1. /\ issued' \in 0 .. MaxCommits /\ revision' \in 0 .. issued' /\ root' \subseteq 1 .. issued'
          /\ Published(1) = [revision |-> revision', root |-> root']
      BY <1>2, PublishTypes DEF CommitPersisted
    <3>2. revision' \in 0 .. MaxCommits /\ root' \subseteq 1 .. MaxCommits
          /\ revision' \in Nat /\ root' \subseteq Nat
      BY <3>1, DurabilityAssumption
    <3> DEFINE rev == revision'
               top == root'
    <3>3. /\ rev \in 0 .. MaxCommits /\ top \subseteq 1 .. MaxCommits /\ rev \in Nat
          /\ top \subseteq Nat /\ Published(1) = [revision |-> rev, root |-> top]
      BY <3>1, <3>2
    <3> HIDE DEF rev, top
    <3>4. [revision |-> rev, root |-> top] \in Snapshot
      BY <3>3 DEF Snapshot
    <3>5. [revision |-> rev, root |-> top] \in Entry
      BY <3>3 DEF Entry
    <3> QED
      BY <3>3, <3>4, <3>5
  <2> QED
    BY <2>1, <2>2, AwaitTypes
<1>3. ASSUME NEW c \in Clients, CommitUnchanged(c) PROVE PromiseTypes'
  <2>1. Now \in Snapshot /\ Now \in Entry
    BY NowIsSnapshot, QueueFacts DEF Now, Entry
  <2>2. CASE AwaitPersist(c, Persist(queue, Now), Now, state) /\ UNCHANGED promised
    BY <2>1, <2>2, AwaitTypes
  <2>3. CASE promised' = promised \cup {Now} /\ UNCHANGED <<state, queue, waits>>
    BY <2>1, <2>3 DEF PromiseTypes
  <2> QED
    BY <1>3, <2>2, <2>3 DEF CommitUnchanged
<1>4. ASSUME NEW c \in Clients, Flush(c) PROVE PromiseTypes'
  BY <1>4, CoverTypes DEF Flush
<1>5. CASE Close
  BY <1>5, CoverTypes DEF Close
<1>6. ASSUME NEW c \in Clients, NEW hook \in Clients, CommitAroundHook(c, hook)
      PROVE  PromiseTypes'
  <2> DEFINE late  == [Published(2) EXCEPT !.revision = revision + 1]
             inner == Persist(queue, Published(2))
             outer == Persist(inner.queue, late)
  <2>1. /\ queue' = outer.queue
        /\ waits' = [w \in DOMAIN waits |->
             IF w = hook /\ ~inner.full THEN Awaiting(revision + 2, FALSE, Published(2))
             ELSE IF w = c /\ ~outer.full THEN Awaiting(revision + 1, FALSE, Published(1))
             ELSE waits[w]]
        /\ UNCHANGED promised
    BY <1>6 DEF CommitAroundHook
  <2>2. /\ Published(2) \in Snapshot /\ Published(1) \in Snapshot
        /\ Published(2) \in Entry /\ late \in Entry
        /\ Published(2).revision = revision + 2 /\ late.revision = revision + 1
    BY <1>6, PublishedTwiceTypes DEF CommitAroundHook
  <2> HIDE DEF late
  <2>3. /\ inner.queue \in Seq(Entry) /\ Len(inner.queue) \in Nat /\ Len(queue) \in Nat
        /\ Len(queue) <= Len(inner.queue) /\ Len(inner.queue) <= MaxPendingSnapshots
        /\ \A n \in 1 .. Len(queue) : inner.queue[n] = queue[n]
        /\ ~inner.full => \E n \in 1 .. Len(inner.queue) : inner.queue[n].revision = revision + 2
    BY <2>2, QueueFacts, PersistReturns DEF PromiseTypes
  <2> HIDE DEF inner
  <2>4. /\ outer.queue \in Seq(Entry) /\ Len(outer.queue) \in Nat
        /\ Len(inner.queue) <= Len(outer.queue) /\ Len(outer.queue) <= MaxPendingSnapshots
        /\ \A n \in 1 .. Len(inner.queue) : outer.queue[n] = inner.queue[n]
        /\ ~outer.full => \E n \in 1 .. Len(outer.queue) : outer.queue[n].revision = revision + 1
    BY <2>2, <2>3, PersistReturns
  <2> HIDE DEF outer
  <2>5. /\ Len(queue) <= Len(outer.queue)
        /\ \A n \in 1 .. Len(queue) : outer.queue[n] = queue[n]
        /\ \A n \in 1 .. Len(inner.queue) : n \in 1 .. Len(outer.queue)
    BY <2>3, <2>4
  <2>6. \A w \in Clients \cup {Closer} : PendingFor(waits[w], outer.queue)
    BY <2>3, <2>4, <2>5, GrownQueue DEF PromiseTypes
  <2>7. ~inner.full => PendingFor(Awaiting(revision + 2, FALSE, Published(2)), outer.queue)
    <3>1. ~inner.full => \E n \in 1 .. Len(outer.queue) : outer.queue[n].revision = revision + 2
      BY <2>3, <2>4, <2>5
    <3> QED
      BY <2>2, <3>1 DEF PendingFor, Awaiting
  <2>8. ~outer.full => PendingFor(Awaiting(revision + 1, FALSE, Published(1)), outer.queue)
    BY <2>2, <2>4 DEF PendingFor, Awaiting
  <2>9. \A w \in Clients \cup {Closer} : PendingFor(waits'[w], outer.queue)
    BY <2>1, <2>6, <2>7, <2>8, QueueFacts
  <2> QED
    BY <2>1, <2>4, <2>9 DEF PromiseTypes
<1>10. ASSUME NEW c \in Clients, CommitAroundVolatile(c) PROVE PromiseTypes'
  <2> PICK late : late = [Published(2) EXCEPT !.revision = revision + 1]
    OBVIOUS
  <2>1. /\ AwaitPersist(c, Persist(queue, late), Published(1), state)
        /\ UNCHANGED promised
    BY <1>10 DEF CommitAroundVolatile
  <2>2. late \in Entry /\ Published(1) \in Snapshot /\ Published(1).revision = late.revision
    BY <1>10, PublishedTwiceTypes DEF CommitAroundVolatile
  <2> QED
    BY <2>1, <2>2, AwaitTypes
<1>7. CASE SettleTask
  <2>1. /\ queue # <<>> /\ queue' = Tail(queue)
        /\ waits' = [c \in DOMAIN waits |-> IF c \in HeadAwaited THEN Idle ELSE waits[c]]
        /\ promised' = promised \cup {waits[c].receipt : c \in HeadAwaited \cap Resolvable}
    BY <1>7, QueueFacts DEF SettleTask, Awakened, Resolved
  <2>2. /\ Len(Tail(queue)) = Len(queue) - 1 /\ Len(queue) \in Nat
        /\ Head(queue) = queue[1]
        /\ \A n \in 1 .. Len(queue) : n # 1 => n - 1 \in 1 .. Len(Tail(queue))
                                              /\ Tail(queue)[n - 1] = queue[n]
    BY <2>1, QueueFacts, TailSound DEF DurabilityInv
  <2>3. DOMAIN waits = Clients \cup {Closer}
    BY QueueFacts
  <2>4. ASSUME NEW w \in Clients \cup {Closer}, w \notin HeadAwaited
        PROVE  PendingFor(waits[w], queue')
    <3>1. CASE waits[w] = Idle
      BY <3>1 DEF PendingFor
    <3>2. CASE waits[w] # Idle
      <4>1. waits[w].task # Head(queue).revision
        BY <2>3, <2>4, <3>2 DEF HeadAwaited
      <4>2. PICK n \in 1 .. Len(queue) : queue[n].revision = waits[w].task
        BY <3>2 DEF PromiseTypes, PendingFor
      <4>3. n # 1
        BY <2>2, <4>1, <4>2
      <4> QED
        BY <2>1, <2>2, <4>2, <4>3 DEF PromiseTypes, PendingFor
    <3> QED
      BY <3>1, <3>2
  <2>5. \A w \in Clients \cup {Closer} : PendingFor(waits'[w], queue')
    BY <2>1, <2>3, <2>4 DEF PendingFor
  <2>6. promised' \subseteq Snapshot
    <3>1. \A w \in HeadAwaited : waits[w].receipt \in Snapshot
      BY <2>3 DEF HeadAwaited, PromiseTypes, PendingFor
    <3> QED
      BY <2>1, <3>1 DEF PromiseTypes
  <2>7. Len(queue') <= MaxPendingSnapshots
    BY <2>1, <2>2, DurabilityAssumption DEF PromiseTypes
  <2> QED
    BY <2>5, <2>6, <2>7 DEF PromiseTypes
<1>8. CASE Restart
  <2>1. queue' = <<>> /\ promised' = promised /\ waits' = [c \in DOMAIN waits |-> Idle]
    BY <1>8 DEF Restart, history
  <2>2. Len(queue') <= MaxPendingSnapshots
    BY <2>1, DurabilityAssumption
  <2>3. \A w \in Clients \cup {Closer} : PendingFor(waits'[w], queue')
    BY <2>1, QueueFacts DEF PendingFor
  <2> QED
    BY <2>1, <2>2, <2>3 DEF PromiseTypes
<1>9. CASE CommitVolatile \/ StartStore \/ InstallSnapshot \/ AckStore \/ FailStore \/ LoseAck
           \/ ReleaseAdapter \/ FinishClose \/ UNCHANGED vars
  BY <1>9, <1>1 DEF CommitVolatile, StartStore, InstallSnapshot, AckStore, FailStore, LoseAck,
     StoreRejected, ReleaseAdapter, FinishClose, history, vars
<1> QED
  BY <1>2, <1>3, <1>4, <1>5, <1>6, <1>7, <1>8, <1>9, <1>10 DEF Next

(* Together these are the type invariant. *)
LEMMA TypesFollow == DurabilityInv /\ MemoryTypes /\ PromiseTypes => TypeOK
<1> SUFFICES ASSUME DurabilityInv, MemoryTypes, PromiseTypes PROVE TypeOK
  OBVIOUS
<1>1. /\ issued \in Nat /\ issued <= MaxCommits /\ MaxCommits \in Nat
      /\ root \subseteq 1 .. MaxCommits /\ revision \in 0 .. MaxCommits
      /\ disk.revision \in 0 .. MaxCommits
  BY DurabilityAssumption DEF MemoryTypes
<1>2. queue \in Seq(Snapshot)
  <2>1. \A n \in 1 .. Len(queue) : queue[n] \in Snapshot
    <3> SUFFICES ASSUME NEW n \in 1 .. Len(queue) PROVE queue[n] \in Snapshot
      OBVIOUS
    <3>1. /\ queue[n] \in Entry /\ queue[n].revision \in 0 .. MaxCommits
          /\ queue[n].root \subseteq 1 .. MaxCommits
      <4>1. /\ queue[n] \in Entry /\ queue[n].revision \in Nat
            /\ queue[n].revision <= revision /\ queue[n].root \subseteq root
        BY QueueFacts
      <4>2. queue[n].root \subseteq 1 .. MaxCommits
        BY <1>1, <4>1
      <4>3. \A k \in Nat : k <= revision => k \in 0 .. MaxCommits
        BY <1>1
      <4> QED
        BY <4>1, <4>2, <4>3
    <3> QED
      BY <3>1 DEF Entry, Snapshot
  <2> QED
    BY <2>1, QueueFacts
<1>3. [revision |-> disk.revision, root |-> disk.root] \in Snapshot
  BY <1>1, QueueFacts DEF Snapshot
<1>4. persisted \in -1 .. MaxCommits
  BY <1>1, QueueFacts DEF MemoryTypes
<1> QED
  BY <1>1, <1>2, <1>3, <1>4, QueueFacts DEF TypeOK, MemoryTypes, PromiseTypes, PendingFor

(* The initial state has the types. *)
LEMMA TypesInit == Init => TypeInv
<1> SUFFICES ASSUME Init PROVE TypeInv
  OBVIOUS
<1>1. MemoryTypes
  <2>1. /\ persisted = -1 /\ disk.generation = 0 /\ disk.revision = 0
        /\ 0 \in 0 .. MaxCommits /\ 0 \in 0 .. 0
    BY DurabilityAssumption DEF Init
  <2>2. persisted \in Int /\ -1 <= persisted
    BY <2>1
  <2> QED
    BY <2>1, <2>2 DEF Init, MemoryTypes
<1>2. PromiseTypes
  BY DurabilityAssumption DEF Init, PromiseTypes, PendingFor
<1> QED
  BY <1>1, <1>2 DEF TypeInv

(* The types hold throughout, and the queue never exceeds its limit, also  *)
(* when the overflow hook of a commit commits and persists on its own.     *)
THEOREM TypesHold == Spec => []TypeOK
<1>1. DurabilityInv /\ TypeInv /\ [Next]_vars => TypeInv'
  BY MemoryStep, PromiseStep DEF TypeInv
<1>2. DurabilityInv /\ TypeInv => TypeOK
  BY TypesFollow DEF TypeInv
<1> QED
  BY <1>1, <1>2, TypesInit, DurabilityInvHolds, PTL DEF Spec

-----------------------------------------------------------------------------
(* Order, when the overflow hook commits nothing *)

RevisionOrder ==
  /\ persisted <= disk.revision /\ disk.revision <= revision
  /\ phase \in {"installed", "stored"} => queue[1].revision = disk.revision
  /\ \A n \in 1 .. Len(queue) : disk.revision <= queue[n].revision
  /\ \A n \in 1 .. Len(queue) : (n = 1 /\ phase = "stored") \/ persisted < queue[n].revision
  /\ \A m, n \in 1 .. Len(queue) : m < n => queue[m].revision < queue[n].revision
  /\ DegradedMeansBehind

(* A caller awaits the snapshot of its own revision, or storage covers it. *)
InOrder(wait, low) ==
  wait # Idle => IF wait.tail THEN wait.receipt.revision <= low
                 ELSE wait.receipt.revision = wait.task

ReceiptOrder ==
  /\ \A c \in Clients \cup {Closer} : InOrder(waits[c], disk.revision)
  /\ AckedRevisionInstalled

OrderInv == RevisionOrder /\ ReceiptOrder /\ SnapshotsMatchLabel

Sound == DurabilityInv /\ TypeInv

(* The numbers that are compared are integers. *)
LEMMA Numbers ==
  ASSUME Sound
  PROVE  /\ persisted \in Int /\ disk.revision \in Nat /\ revision \in Nat
         /\ queue \in Seq(Entry) /\ Len(queue) \in Nat
         /\ \A n \in 1 .. Len(queue) : queue[n].revision \in Nat /\ queue[n].revision <= revision
         /\ \A c \in Clients \cup {Closer} : waits[c] # Idle => waits[c].receipt.revision \in Nat
         /\ \A receipt \in promised : receipt.revision \in Nat
<1>1. \A s \in Snapshot : s.revision \in Nat
  BY DurabilityAssumption DEF Snapshot
<1>2. issued \in Nat /\ disk.revision \in 0 .. issued
  BY DurabilityAssumption DEF Sound, TypeInv, MemoryTypes
<1> QED
  BY <1>1, <1>2, QueueFacts DEF Sound, TypeInv, PromiseTypes, PendingFor

(* A publication adds a commit that was never published. *)
LEMMA PublishCounts ==
  ASSUME MemoryTypes, Cardinality(root) = revision, Publish(1)
  PROVE  Cardinality(root') = revision'
<1>1. root' = root \cup issued + 1 .. issued + 1 /\ revision' = revision + 1
  BY DEF Publish, Published
<1>2. issued \in Nat /\ root \subseteq 1 .. issued
  BY DEF MemoryTypes
<1>3. root' = root \cup {issued + 1} /\ issued + 1 \notin root
  BY <1>1, <1>2
<1>4. IsFiniteSet(root)
  <2>1. 1 \in Int /\ issued \in Int
    BY <1>2
  <2>2. IsFiniteSet(1 .. issued)
    BY <2>1, FS_Interval
  <2> QED
    BY <1>2, <2>2, FS_Subset
<1>5. Cardinality(root \cup {issued + 1}) = Cardinality(root) + 1
  BY <1>3, <1>4, FS_AddElement
<1> QED
  BY <1>1, <1>3, <1>5

(* Asking #persist for the newest root keeps the order. *)
LEMMA AwaitOrder ==
  ASSUME Sound, OrderInv, NEW c \in Clients \cup {Closer}, NEW otherwise \in {state, "closing"},
         revision' \in Nat, revision <= revision', persisted < revision',
         root' \subseteq Nat, Cardinality(root') = revision',
         NEW s, s = [revision |-> revision', root |-> root'],
         AwaitPersist(c, Persist(queue, s), s, otherwise),
         UNCHANGED <<persisted, phase, disk, promised>>
  PROVE  OrderInv'
<1> DEFINE p == Persist(queue, s)
<1>1. /\ queue' = p.queue
      /\ state' = IF p.full THEN "degraded" ELSE otherwise
      /\ p.full => waits' = waits
      /\ ~p.full => waits' = [waits EXCEPT ![c] = Awaiting(s.revision, FALSE, s)]
  BY DEF AwaitPersist
<1>2. s \in Entry /\ s.revision = revision' /\ s.root = root'
  BY DEF Entry
<1>3. /\ p.queue \in Seq(Entry) /\ Len(p.queue) \in Nat
      /\ \/ p.queue = queue
         \/ /\ Len(p.queue) = Len(queue) + 1
            /\ p.queue[Len(queue) + 1] = s
            /\ \A n \in 1 .. Len(queue) : queue[n].revision # s.revision
      /\ \A n \in 1 .. Len(queue) : p.queue[n] = queue[n]
  BY <1>2, Numbers, PersistReturns DEF Sound, TypeInv, PromiseTypes
<1> HIDE DEF p
<1>n. /\ persisted \in Int /\ disk.revision \in Nat /\ revision \in Nat /\ Len(queue) \in Nat
      /\ \A n \in 1 .. Len(queue) : queue[n].revision \in Nat /\ queue[n].revision <= revision
  BY Numbers
<1>r. ReceiptOrder'
  <2>1. InOrder(Awaiting(s.revision, FALSE, s), disk.revision)
    BY DEF InOrder, Awaiting
  <2>2. \A w \in Clients \cup {Closer} : InOrder(waits'[w], disk.revision)
    BY <1>1, <2>1, QueueFacts DEF OrderInv, ReceiptOrder, Sound
  <2> QED
    BY <2>2 DEF OrderInv, ReceiptOrder, AckedRevisionInstalled
<1>d. DegradedMeansBehind'
  BY <1>1, <1>n DEF DegradedMeansBehind, OrderInv, RevisionOrder
<1>m. persisted' <= disk'.revision /\ disk'.revision <= revision'
  BY <1>n DEF OrderInv, RevisionOrder
<1>4. CASE queue' = queue
  <2>1. RevisionOrder'
    BY <1>4, <1>d, <1>m DEF OrderInv, RevisionOrder
  <2>2. SnapshotsMatchLabel'
    BY <1>4 DEF OrderInv, SnapshotsMatchLabel
  <2> QED
    BY <2>1, <2>2, <1>r DEF OrderInv
<1>5. CASE queue' # queue
  <2>1. /\ Len(queue') = Len(queue) + 1
        /\ queue'[Len(queue) + 1].revision = revision' /\ queue'[Len(queue) + 1].root = root'
        /\ \A n \in 1 .. Len(queue) : queue'[n] = queue[n] /\ queue[n].revision < revision'
    <3>1. \A n \in 1 .. Len(queue) : queue[n].revision # revision'
      BY <1>1, <1>2, <1>3, <1>5
    <3> QED
      BY <1>1, <1>2, <1>3, <1>5, <1>n, <3>1
  <2>2. \A n \in 1 .. Len(queue') :
          \/ n \in 1 .. Len(queue) /\ queue'[n] = queue[n] /\ queue'[n].revision < revision'
          \/ /\ n = Len(queue) + 1
             /\ queue'[n].revision = revision' /\ queue'[n].root = root'
    BY <2>1, <1>n
  <2>3. phase' \in {"installed", "stored"} => queue'[1].revision = disk'.revision
    <3>1. phase # "waiting" => 1 \in 1 .. Len(queue)
      BY QueueFacts DEF Sound
    <3> QED
      BY <2>1, <3>1 DEF OrderInv, RevisionOrder
  <2>4. \A n \in 1 .. Len(queue') : disk'.revision <= queue'[n].revision
    BY <2>2, <1>n, <1>m DEF OrderInv, RevisionOrder
  <2>5. \A n \in 1 .. Len(queue') : (n = 1 /\ phase' = "stored") \/ persisted' < queue'[n].revision
    BY <2>2 DEF OrderInv, RevisionOrder
  <2>6. \A m, n \in 1 .. Len(queue') : m < n => queue'[m].revision < queue'[n].revision
    <3> SUFFICES ASSUME NEW m \in 1 .. Len(queue'), NEW n \in 1 .. Len(queue'), m < n
                 PROVE  queue'[m].revision < queue'[n].revision
      OBVIOUS
    <3>1. m \in 1 .. Len(queue)
      BY <2>1, <1>n
    <3>2. CASE n \in 1 .. Len(queue)
      BY <2>1, <3>1, <3>2 DEF OrderInv, RevisionOrder
    <3>3. CASE n = Len(queue) + 1
      BY <2>1, <3>1, <3>3
    <3> QED
      BY <2>2, <3>2, <3>3
  <2>7. RevisionOrder'
    BY <1>d, <1>m, <2>3, <2>4, <2>5, <2>6 DEF RevisionOrder
  <2>8. SnapshotsMatchLabel'
    <3>1. \A n \in 1 .. Len(queue') : Cardinality(queue'[n].root) = queue'[n].revision
      BY <2>2 DEF OrderInv, SnapshotsMatchLabel
    <3> QED
      BY <3>1 DEF OrderInv, SnapshotsMatchLabel
  <2> QED
    BY <2>7, <2>8, <1>r DEF OrderInv
<1> QED
  BY <1>4, <1>5

(* Everyone else who asks for the current root keeps the order. *)
LEMMA CoverOrder ==
  ASSUME Sound, OrderInv, NEW c \in Clients \cup {Closer}, NEW otherwise \in {state, "closing"},
         Cover(c, otherwise), UNCHANGED <<memory, issued, phase, disk>>
  PROVE  OrderInv'
<1>n. /\ persisted \in Int /\ disk.revision \in Nat /\ revision \in Nat /\ root \subseteq Nat
  BY Numbers, QueueFacts DEF Sound
<1>u. UNCHANGED <<revision, root, persisted>>
  BY DEF memory
<1>1. CASE /\ persisted < revision
           /\ AwaitPersist(c, Persist(queue, Now), Now, otherwise)
           /\ UNCHANGED promised
  <2>1. /\ revision' \in Nat /\ revision <= revision' /\ persisted < revision'
        /\ root' \subseteq Nat /\ Cardinality(root') = revision'
        /\ Now = [revision |-> revision', root |-> root']
    BY <1>n, <1>u, <1>1 DEF OrderInv, SnapshotsMatchLabel, Now
  <2> QED
    BY <1>1, <1>u, <2>1, AwaitOrder
<1>2. CASE /\ persisted >= revision
           /\ state' = otherwise
           /\ waits' = IF queue = <<>> THEN waits
                       ELSE [waits EXCEPT ![c] = Awaiting(Last(queue).revision, TRUE, Now)]
           /\ promised' = IF queue = <<>> THEN promised \cup {Now} ELSE promised
           /\ UNCHANGED queue
  <2>1. Now.revision <= disk.revision
    BY <1>2, <1>n DEF OrderInv, RevisionOrder, Now
  <2>2. \A task : InOrder(Awaiting(task, TRUE, Now), disk.revision)
    BY <2>1 DEF InOrder, Awaiting
  <2>3. \A w \in Clients \cup {Closer} : InOrder(waits'[w], disk.revision)
    BY <1>2, <2>2, QueueFacts DEF OrderInv, ReceiptOrder, Sound
  <2>4. ReceiptOrder'
    BY <1>2, <2>1, <2>3 DEF OrderInv, ReceiptOrder, AckedRevisionInstalled
  <2>5. DegradedMeansBehind'
    BY <1>2, <1>u DEF OrderInv, RevisionOrder, DegradedMeansBehind
  <2>6. RevisionOrder' /\ SnapshotsMatchLabel'
    BY <1>2, <1>u, <2>5 DEF OrderInv, RevisionOrder, SnapshotsMatchLabel
  <2> QED
    BY <2>4, <2>6 DEF OrderInv
<1> QED
  BY <1>1, <1>2 DEF Cover

(* A commit nobody waits for leaves memory further ahead of the storage. *)
LEMMA VolatileOrder ==
  ASSUME Sound, OrderInv, CommitVolatile
  PROVE  OrderInv'
<1>1. /\ revision' = revision + 1 /\ Cardinality(root') = revision'
      /\ UNCHANGED <<state, persisted, queue, phase, waits, disk, promised>>
  BY PublishCounts DEF CommitVolatile, storage, Publish, Published, Sound, TypeInv, OrderInv,
     SnapshotsMatchLabel
<1>2. persisted \in Int /\ revision \in Nat /\ disk.revision \in Nat
  BY Numbers
<1>3. disk.revision <= revision' /\ DegradedMeansBehind'
  BY <1>1, <1>2 DEF OrderInv, RevisionOrder, DegradedMeansBehind
<1>4. RevisionOrder'
  BY <1>1, <1>3 DEF OrderInv, RevisionOrder
<1>5. ReceiptOrder'
  BY <1>1 DEF OrderInv, ReceiptOrder, AckedRevisionInstalled
<1>6. SnapshotsMatchLabel'
  BY <1>1 DEF OrderInv, SnapshotsMatchLabel
<1> QED
  BY <1>4, <1>5, <1>6 DEF OrderInv

(* The oldest pending snapshot is not older than the disk, newer than what *)
(* is persisted, and older than those behind it.                           *)
LEMMA HeadOrder ==
  ASSUME Sound, OrderInv, queue # <<>>
  PROVE  /\ Head(queue) = queue[1] /\ 1 \in 1 .. Len(queue) /\ queue[1].revision \in Nat
         /\ disk.revision <= queue[1].revision /\ queue[1].revision <= revision
         /\ phase # "stored" => persisted < queue[1].revision /\ persisted < revision
         /\ disk.root \subseteq queue[1].root
         /\ \A n \in 1 .. Len(queue) : queue[1].revision <= queue[n].revision
         /\ \A n \in 1 .. Len(queue) : n = 1 \/ queue[1].revision < queue[n].revision
<1>1. /\ Head(queue) = queue[1] /\ 1 \in 1 .. Len(queue) /\ queue[1].revision \in Nat
      /\ queue[1].revision <= revision /\ revision \in Nat /\ persisted \in Int
      /\ \A n \in 1 .. Len(queue) : queue[n].revision \in Nat
  BY QueueFacts DEF Sound
<1>2. \A n \in 1 .. Len(queue) : n = 1 \/ 1 < n
  BY <1>1
<1>3. \A n \in 1 .. Len(queue) : n = 1 \/ queue[1].revision < queue[n].revision
  BY <1>1, <1>2 DEF OrderInv, RevisionOrder
<1>4. \A n \in 1 .. Len(queue) : queue[1].revision <= queue[n].revision
  BY <1>1, <1>3
<1>5. /\ disk.revision <= queue[1].revision
      /\ phase # "stored" => persisted < queue[1].revision
  BY <1>1 DEF OrderInv, RevisionOrder
<1>6. disk.root \subseteq queue[1].root
  BY <1>1, QueueFacts DEF Sound
<1> QED
  BY <1>1, <1>3, <1>4, <1>5, <1>6

(* The adapter moves the disk on to the oldest pending snapshot. *)
LEMMA InstallOrder ==
  ASSUME Sound, OrderInv, InstallSnapshot
  PROVE  OrderInv' /\ disk.revision <= disk'.revision /\ disk.root \subseteq disk'.root
<1>1. /\ queue # <<>> /\ phase' = "installed" /\ phase = "storing"
      /\ UNCHANGED <<state, revision, root, persisted, queue, waits, promised>>
  BY QueueFacts DEF InstallSnapshot, memory, history, Sound
<1>2. disk'.revision = queue[1].revision /\ disk'.root = queue[1].root
  BY <1>1, HeadOrder DEF InstallSnapshot, Envelope
<1>n. /\ persisted \in Int /\ disk.revision \in Nat /\ disk'.revision \in Nat
      /\ disk.revision <= disk'.revision
      /\ \A c \in Clients \cup {Closer} : waits[c] # Idle => waits[c].receipt.revision \in Nat
      /\ \A receipt \in promised : receipt.revision \in Nat
  BY <1>1, <1>2, HeadOrder, Numbers
<1>3. /\ persisted' <= disk'.revision /\ disk'.revision <= revision'
      /\ \A n \in 1 .. Len(queue) : disk'.revision <= queue[n].revision
  BY <1>1, <1>2, <1>n, HeadOrder DEF OrderInv, RevisionOrder
<1>4. RevisionOrder'
  BY <1>1, <1>2, <1>3 DEF OrderInv, RevisionOrder, DegradedMeansBehind
<1>5. \A w \in Clients \cup {Closer} : InOrder(waits'[w], disk'.revision)
  BY <1>1, <1>n DEF OrderInv, ReceiptOrder, InOrder
<1>6. ReceiptOrder'
  BY <1>1, <1>5, <1>n DEF OrderInv, ReceiptOrder, AckedRevisionInstalled
<1>7. SnapshotsMatchLabel'
  BY <1>1, <1>2, HeadOrder DEF OrderInv, SnapshotsMatchLabel
<1> QED
  BY <1>1, <1>2, <1>n, <1>4, <1>6, <1>7, HeadOrder DEF OrderInv

(* What is acknowledged is on disk, and the database opens when it is all. *)
LEMMA AckOrder ==
  ASSUME Sound, OrderInv, AckStore
  PROVE  OrderInv'
<1>1. /\ queue # <<>> /\ phase = "installed" /\ phase' = "stored"
      /\ persisted' = Acknowledged /\ state' = Healed(persisted')
      /\ UNCHANGED <<revision, root, queue, waits, disk, promised>>
  BY QueueFacts DEF AckStore, storage, history, Sound
<1>2. persisted' = queue[1].revision /\ queue[1].revision = disk.revision
  BY <1>1, HeadOrder DEF OrderInv, RevisionOrder, Acknowledged
<1>3. DegradedMeansBehind'
  BY <1>1, <1>2, HeadOrder, Numbers DEF Healed, DegradedMeansBehind
<1>4. persisted' <= disk'.revision
  BY <1>1, <1>2, HeadOrder
<1>5. RevisionOrder'
  BY <1>1, <1>2, <1>3, <1>4, HeadOrder DEF OrderInv, RevisionOrder
<1>6. ReceiptOrder' /\ SnapshotsMatchLabel'
  BY <1>1 DEF OrderInv, ReceiptOrder, AckedRevisionInstalled, SnapshotsMatchLabel
<1> QED
  BY <1>5, <1>6 DEF OrderInv

(* A store that fails leaves its snapshot unpersisted. *)
LEMMA RejectOrder ==
  ASSUME Sound, OrderInv, StoreRejected, phase \in {"storing", "installed"}
  PROVE  OrderInv'
<1>1. /\ queue # <<>> /\ phase # "stored" /\ phase' = "failed" /\ state' = "degraded"
      /\ UNCHANGED <<revision, root, persisted, queue, waits, disk, promised>>
  BY QueueFacts DEF StoreRejected, memory, storage, history, Sound
<1>2. DegradedMeansBehind'
  BY <1>1, HeadOrder DEF DegradedMeansBehind
<1>3. RevisionOrder'
  BY <1>1, <1>2 DEF OrderInv, RevisionOrder
<1>4. ReceiptOrder' /\ SnapshotsMatchLabel'
  BY <1>1 DEF OrderInv, ReceiptOrder, AckedRevisionInstalled, SnapshotsMatchLabel
<1> QED
  BY <1>3, <1>4 DEF OrderInv

(* The task leaves the queue, and who goes on after a success awaited the *)
(* revision that is on disk.                                              *)
LEMMA SettleOrder ==
  ASSUME Sound, OrderInv, SettleTask
  PROVE  OrderInv'
<1>1. /\ queue # <<>> /\ phase \in {"stored", "failed"} /\ phase' = "waiting"
      /\ queue' = Tail(queue)
      /\ waits' = [c \in DOMAIN waits |-> IF c \in HeadAwaited THEN Idle ELSE waits[c]]
      /\ promised' = promised \cup {waits[c].receipt : c \in HeadAwaited \cap Resolvable}
      /\ UNCHANGED <<state, revision, root, persisted, disk>>
  BY QueueFacts DEF SettleTask, Awakened, Resolved, memory, storage, Sound
<1>2. /\ Len(queue') = Len(queue) - 1 /\ Len(queue) \in Nat
      /\ \A n \in 1 .. Len(queue') : n + 1 \in 1 .. Len(queue) /\ queue'[n] = queue[n + 1]
  BY <1>1, QueueFacts, TailSound DEF Sound, DurabilityInv
<1>3. RevisionOrder'
  <2>1. \A n \in 1 .. Len(queue') : disk.revision <= queue'[n].revision
    BY <1>2 DEF OrderInv, RevisionOrder
  <2>2. \A n \in 1 .. Len(queue') : persisted < queue'[n].revision
    <3>1. \A n \in 1 .. Len(queue') : n + 1 # 1
      BY <1>2
    <3> QED
      BY <1>2, <3>1 DEF OrderInv, RevisionOrder
  <2>3. \A m, n \in 1 .. Len(queue') : m < n => queue'[m].revision < queue'[n].revision
    <3>1. \A m, n \in 1 .. Len(queue') : m < n => m + 1 < n + 1
      BY <1>2
    <3> QED
      BY <1>2, <3>1 DEF OrderInv, RevisionOrder
  <2> QED
    BY <1>1, <2>1, <2>2, <2>3 DEF OrderInv, RevisionOrder, DegradedMeansBehind
<1>4. SnapshotsMatchLabel'
  <2>1. \A n \in 1 .. Len(queue') : Cardinality(queue'[n].root) = queue'[n].revision
    BY <1>2 DEF OrderInv, SnapshotsMatchLabel
  <2> QED
    BY <1>1, <2>1 DEF OrderInv, SnapshotsMatchLabel
<1>5. \A c \in HeadAwaited \cap Resolvable : waits[c].receipt.revision <= disk.revision
  <2> SUFFICES ASSUME NEW c \in HeadAwaited \cap Resolvable
               PROVE  waits[c].receipt.revision <= disk.revision
    OBVIOUS
  <2>1. /\ c \in Clients \cup {Closer} /\ waits[c] # Idle /\ waits[c].task = queue[1].revision
        /\ phase = "stored" \/ waits[c].tail
    BY <1>1, QueueFacts, HeadOrder DEF HeadAwaited, Resolvable, Sound
  <2>2. CASE waits[c].tail
    BY <2>1, <2>2 DEF OrderInv, ReceiptOrder, InOrder
  <2>3. CASE ~waits[c].tail
    <3>1. waits[c].receipt.revision = queue[1].revision
      BY <2>1, <2>3 DEF OrderInv, ReceiptOrder, InOrder
    <3>2. queue[1].revision = disk.revision
      BY <2>1, <2>3 DEF OrderInv, RevisionOrder
    <3> QED
      BY <1>1, <3>1, <3>2, HeadOrder
  <2> QED
    BY <2>2, <2>3
<1>6. \A w \in Clients \cup {Closer} : InOrder(waits'[w], disk.revision)
  BY <1>1, QueueFacts DEF OrderInv, ReceiptOrder, InOrder, Sound
<1>7. ReceiptOrder'
  BY <1>1, <1>5, <1>6 DEF OrderInv, ReceiptOrder, AckedRevisionInstalled
<1> QED
  BY <1>3, <1>4, <1>7 DEF OrderInv

(* A new process starts from what is on disk. *)
LEMMA RestartOrder ==
  ASSUME Sound, OrderInv, Restart
  PROVE  OrderInv'
<1>1. /\ state' = "open" /\ revision' = disk.revision /\ root' = disk.root /\ queue' = <<>>
      /\ persisted' \in {-1, disk.revision} /\ phase' = "waiting"
      /\ waits' = [c \in DOMAIN waits |-> Idle] /\ UNCHANGED <<disk, promised>>
  BY DEF Restart, history
<1>2. persisted' <= disk'.revision /\ disk'.revision <= revision'
  BY <1>1, Numbers
<1>3. 1 .. Len(queue') = {}
  BY <1>1
<1>4. RevisionOrder'
  BY <1>1, <1>2, <1>3 DEF RevisionOrder, DegradedMeansBehind
<1>5. ReceiptOrder'
  BY <1>1, QueueFacts DEF OrderInv, ReceiptOrder, InOrder, AckedRevisionInstalled, Sound
<1>6. SnapshotsMatchLabel'
  BY <1>1, <1>3 DEF OrderInv, SnapshotsMatchLabel
<1> QED
  BY <1>4, <1>5, <1>6 DEF OrderInv

(* Every step keeps the order, and the disk never goes back. *)
LEMMA OrderStep ==
  ASSUME ~OverflowHookCommits, Sound, OrderInv, [Next]_vars
  PROVE  OrderInv' /\ disk.revision <= disk'.revision /\ disk.root \subseteq disk'.root
<1>n. disk.revision <= disk.revision
  BY Numbers
<1>1. ASSUME NEW c \in Clients, CommitPersisted(c) PROVE OrderInv' /\ disk' = disk
  <2>1. /\ AwaitPersist(c, Persist(queue, Published(1)), Published(1), state)
        /\ UNCHANGED <<persisted, phase, disk, promised>>
        /\ Publish(1)
    BY <1>1 DEF CommitPersisted, storage
  <2>2. /\ revision' = revision + 1 /\ Published(1) = [revision |-> revision', root |-> root']
        /\ Cardinality(root') = revision' /\ root' \subseteq 1 .. issued'
    BY <2>1, PublishTypes, PublishCounts DEF Sound, TypeInv, OrderInv, SnapshotsMatchLabel
  <2>3. revision \in Nat /\ persisted \in Int /\ persisted <= revision
    BY QueueFacts DEF Sound
  <2>4. revision' \in Nat /\ revision <= revision' /\ persisted < revision' /\ root' \subseteq Nat
    BY <2>2, <2>3
  <2> QED
    BY <2>1, <2>2, <2>4, AwaitOrder
<1>2. ASSUME NEW c \in Clients, CommitUnchanged(c) PROVE OrderInv' /\ disk' = disk
  <2>1. UNCHANGED <<memory, issued, phase, disk>>
    BY <1>2 DEF CommitUnchanged, storage
  <2>2. CASE AwaitPersist(c, Persist(queue, Now), Now, state) /\ persisted < revision
             /\ UNCHANGED promised
    BY <2>1, <2>2, CoverOrder DEF Cover
  <2>3. CASE /\ persisted >= revision
             /\ promised' = promised \cup {Now}
             /\ UNCHANGED <<state, queue, waits>>
    <3>1. /\ UNCHANGED <<revision, root, persisted>>
          /\ persisted \in Int /\ revision \in Nat /\ disk.revision \in Nat
      BY <2>1, Numbers DEF memory
    <3>2. Now.revision <= disk.revision
      BY <2>3, <3>1 DEF OrderInv, RevisionOrder, Now
    <3>3. ReceiptOrder'
      BY <2>1, <2>3, <3>2 DEF OrderInv, ReceiptOrder, AckedRevisionInstalled
    <3>4. RevisionOrder' /\ SnapshotsMatchLabel'
      BY <2>1, <2>3, <3>1 DEF OrderInv, RevisionOrder, DegradedMeansBehind, SnapshotsMatchLabel
    <3> QED
      BY <2>1, <3>3, <3>4 DEF OrderInv
  <2> QED
    BY <1>2, <2>1, <2>2, <2>3 DEF CommitUnchanged
<1>3. ASSUME NEW c \in Clients, Flush(c) PROVE OrderInv' /\ disk' = disk
  BY <1>3, CoverOrder DEF Flush, storage
<1>4. CASE Close
  <2>1. /\ Cover(Closer, "closing") /\ UNCHANGED <<memory, issued, phase, disk>>
        /\ "closing" \in {state, "closing"}
    BY <1>4 DEF Close, storage
  <2> QED
    BY <1>n, <2>1, CoverOrder
<1>5. CASE CommitVolatile
  BY <1>5, <1>n, VolatileOrder DEF CommitVolatile, storage
<1>6. CASE InstallSnapshot
  BY <1>6, InstallOrder
<1>7. CASE AckStore
  BY <1>7, <1>n, AckOrder DEF AckStore, storage
<1>8. CASE FailStore \/ LoseAck
  BY <1>8, <1>n, RejectOrder DEF FailStore, LoseAck, StoreRejected, storage
<1>9. CASE SettleTask
  BY <1>9, <1>n, SettleOrder DEF SettleTask, storage
<1>10. CASE Restart
  BY <1>10, <1>n, RestartOrder DEF Restart
<1>11. CASE StartStore \/ ReleaseAdapter \/ FinishClose \/ UNCHANGED vars
  <2>1. /\ UNCHANGED <<revision, root, persisted, queue, waits, disk, promised>>
        /\ state' \in {state, "closed"}
        /\ phase' = phase \/ (phase' = "storing" /\ phase = "waiting")
    BY <1>11 DEF StartStore, ReleaseAdapter, FinishClose, vars, memory, storage, history
  <2>2. RevisionOrder'
    BY <2>1 DEF OrderInv, RevisionOrder, DegradedMeansBehind
  <2>3. ReceiptOrder' /\ SnapshotsMatchLabel'
    BY <2>1 DEF OrderInv, ReceiptOrder, AckedRevisionInstalled, SnapshotsMatchLabel
  <2> QED
    BY <1>n, <2>1, <2>2, <2>3 DEF OrderInv
<1> QED
  BY <1>n, <1>1, <1>2, <1>3, <1>4, <1>5, <1>6, <1>7, <1>8, <1>9, <1>10, <1>11
     DEF Next, CommitAroundHook, CommitAroundVolatile

(* The initial state is in order. *)
LEMMA OrderInit == Init => OrderInv
<1> SUFFICES ASSUME Init PROVE OrderInv
  OBVIOUS
<1>1. /\ revision = 0 /\ root = {} /\ persisted = -1 /\ queue = <<>> /\ state = "open"
      /\ disk.revision = 0 /\ disk.root = {} /\ phase = "waiting" /\ promised = {}
      /\ waits = [c \in Clients \cup {Closer} |-> Idle]
  BY DEF Init
<1>2. 1 .. Len(queue) = {} /\ Cardinality({}) = 0
  BY <1>1, FS_EmptySet
<1>3. persisted <= disk.revision /\ disk.revision <= revision
  BY <1>1
<1>4. RevisionOrder
  BY <1>1, <1>2, <1>3 DEF RevisionOrder, DegradedMeansBehind
<1>5. ReceiptOrder
  BY <1>1 DEF ReceiptOrder, InOrder, AckedRevisionInstalled
<1>6. SnapshotsMatchLabel
  BY <1>1, <1>2 DEF SnapshotsMatchLabel
<1> QED
  BY <1>4, <1>5, <1>6 DEF OrderInv

(* Without a committing hook, snapshots are stored in the order of their *)
(* revisions, each newer than what is persisted.                         *)
THEOREM OrderHolds == ~OverflowHookCommits => (Spec => [](Sound /\ OrderInv))
<1> SUFFICES ASSUME ~OverflowHookCommits PROVE Spec => [](Sound /\ OrderInv)
  OBVIOUS
<1>1. Init => TypeInv /\ OrderInv
  BY TypesInit, OrderInit
<1>2. DurabilityInv /\ DurabilityInv' /\ TypeInv /\ OrderInv /\ [Next]_vars => TypeInv' /\ OrderInv'
  BY MemoryStep, PromiseStep, OrderStep DEF TypeInv, Sound
<1>3. DurabilityInv /\ TypeInv => Sound
  BY DEF Sound
<1> QED
  BY <1>1, <1>2, <1>3, DurabilityInvHolds, PTL DEF Spec

(* #persist clones the root before it awaits: the snapshot stored under a   *)
(* revision holds the commits up to it, whatever was published meanwhile.   *)
THEOREM LabelsAreRight == ~OverflowHookCommits => (Spec => []SnapshotsMatchLabel)
<1>1. OrderInv => SnapshotsMatchLabel
  BY DEF OrderInv
<1> QED
  BY <1>1, OrderHolds, PTL

(* A durable call that resolved has its revision on disk for good: stores *)
(* are never reordered, and a failure is never taken for a success.       *)
THEOREM AckedIsInstalled == ~OverflowHookCommits => (Spec => []AckedRevisionInstalled)
<1>1. OrderInv => AckedRevisionInstalled
  BY DEF OrderInv, ReceiptOrder
<1> QED
  BY <1>1, OrderHolds, PTL

(* A store that catches up always leaves the database open: it is degraded *)
(* only while something is not persisted.                                  *)
THEOREM DegradedIsBehind == ~OverflowHookCommits => (Spec => []DegradedMeansBehind)
<1>1. OrderInv => DegradedMeansBehind
  BY DEF OrderInv, RevisionOrder
<1> QED
  BY <1>1, OrderHolds, PTL

(* Neither a delayed store nor a restart takes the disk back. *)
THEOREM DiskMovesOn == ~OverflowHookCommits => (Spec => DiskNeverRegresses)
<1> SUFFICES ASSUME ~OverflowHookCommits PROVE Spec => DiskNeverRegresses
  OBVIOUS
<1>1. Sound /\ OrderInv /\ [Next]_vars
        => [disk.revision <= disk'.revision /\ disk.root \subseteq disk'.root]_vars
  BY OrderStep
<1> QED
  BY <1>1, OrderHolds, PTL DEF Spec, DiskNeverRegresses

=============================================================================
