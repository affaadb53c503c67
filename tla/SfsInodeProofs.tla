--------------------------- MODULE SfsInodeProofs ---------------------------
(***************************************************************************)
(* Proofs about the inodes of the simple file system: for any number of    *)
(* processes, an inode number has at most one structure in memory, which   *)
(* is not freed while anybody works on it, and no write is lost.           *)
(***************************************************************************)
EXTENDS SfsInode, FiniteSetTheorems, TLAPS

(* The places without an inode, with a reference to it, with the lock of   *)
(* the file system and with the lock of the inode.                         *)
OutPc == {"idle", "load", "read"}
HeldPc == {"held", "write", "fsync", "fsync_wbuf"}
FsPc == {"read", "syncall", "syncall_wbuf", "rsync", "rsync_wbuf"}
SemPc == {"write", "fsync_wbuf", "syncall_wbuf", "rsync_wbuf"}

Inode == [linked : BOOLEAN, ref : Nat, reclaim : Nat, dirty : BOOLEAN, ver : Nat, sem : Proc \cup {None}]

TypeOK ==
    /\ at \in [Proc -> OutPc \cup HeldPc \cup FsPc \cup {"reclaim"}]
    /\ my \in [Proc -> Obj \cup {None}]
    /\ node \in [Obj -> Inode]
    /\ fsLock \in Proc \cup {None}
    /\ disk \in Nat /\ last \in Nat

Working == \A p \in Proc : my[p] = None <=> at[p] \in OutPc

(* lock_sfs_fs and lock_sin exclude.                                       *)
FsHeld == \A p \in Proc : fsLock = p <=> at[p] \in FsPc
SemHeld == \A p \in Proc, o \in Obj : node[o].sem = p <=> my[p] = o /\ at[p] \in SemPc

(* sfs_load_inode reads the disk inode only if none is in memory.          *)
ReadAlone == \A p \in Proc : at[p] = "read" => Linked = {}
Unique == \A o1, o2 \in Linked : o1 = o2
Cleared == \A o \in Obj \ Linked : node[o] = Freed

(* sfs_reclaim that writes the inode first has nobody to wait for.         *)
Dying == \A p \in Proc : at[p] \in {"rsync", "rsync_wbuf"} => node[my[p]].ref = 0 /\ node[my[p]].reclaim = 0

CacheIInv ==
    /\ TypeOK /\ Working /\ FsHeld /\ SemHeld /\ ReadAlone /\ Unique /\ Cleared /\ Dying
    /\ NoUseAfterFree /\ CountsExact /\ NoLostUpdate

---------------------------------------------------------------------------
Bit(x) == IF x THEN 1 ELSE 0

(* Two sets that differ at most in p.                                      *)
LEMMA DifferAtOne ==
    ASSUME NEW S, NEW T, IsFiniteSet(S), NEW p, \A q : q # p => (q \in S <=> q \in T)
    PROVE  /\ IsFiniteSet(T)
           /\ Cardinality(S) \in Nat /\ Cardinality(T) \in Nat
           /\ Cardinality(T) = Cardinality(S) - Bit(p \in S) + Bit(p \in T)
<1> DEFINE R == S \ {p}
<1>1. IsFiniteSet(R) /\ Cardinality(R) \in Nat /\ p \notin R
  BY FS_Subset, FS_CardinalityType
<1>2. S = IF p \in S THEN R \cup {p} ELSE R
  OBVIOUS
<1>3. T = IF p \in T THEN R \cup {p} ELSE R
  OBVIOUS
<1> HIDE DEF R
<1>4. IsFiniteSet(R \cup {p}) /\ Cardinality(R \cup {p}) = Cardinality(R) + 1
  BY <1>1, FS_AddElement
<1>5. Cardinality(S) = Cardinality(R) + Bit(p \in S)
  BY <1>1, <1>2, <1>4 DEF Bit
<1>6. IsFiniteSet(T) /\ Cardinality(T) = Cardinality(R) + Bit(p \in T)
  BY <1>1, <1>3, <1>4 DEF Bit
<1>7. Bit(p \in S) \in Nat /\ Bit(p \in T) \in Nat
  BY DEF Bit
<1> QED
  BY <1>1, <1>5, <1>6, <1>7

LEMMA CountsFinite ==
    ASSUME SfsInodeAssumption, NEW o
    PROVE  /\ IsFiniteSet(Holders(o)) /\ Cardinality(Holders(o)) \in Nat
           /\ IsFiniteSet(Reclaimers(o)) /\ Cardinality(Reclaimers(o)) \in Nat
           /\ Cardinality(Holders(o)) = 0 <=> Holders(o) = {}
           /\ Cardinality(Reclaimers(o)) = 0 <=> Reclaimers(o) = {}
<1>1. Holders(o) \subseteq Proc /\ Reclaimers(o) \subseteq Proc
  BY DEF Holders, Reclaimers
<1> QED
  BY <1>1, FS_Subset, FS_CardinalityType, FS_EmptySet DEF SfsInodeAssumption

(* A step of p to t, with inode m, and the sets that the counts count.     *)
LEMMA StepCounts ==
    ASSUME SfsInodeAssumption, TypeOK, NEW p \in Proc, NEW t, NEW m, NEW o,
           at' = [at EXCEPT ![p] = t], my' = [my EXCEPT ![p] = m]
    PROVE  /\ Cardinality(Holders(o)') = Cardinality(Holders(o))
                 - Bit(my[p] = o /\ at[p] \in HeldPc) + Bit(m = o /\ t \in HeldPc)
           /\ Cardinality(Reclaimers(o)') = Cardinality(Reclaimers(o))
                 - Bit(my[p] = o /\ at[p] = "reclaim") + Bit(m = o /\ t = "reclaim")
           /\ Cardinality(Holders(o)') \in Nat /\ Cardinality(Reclaimers(o)') \in Nat
           /\ Cardinality(Holders(o)') = 0 <=> Holders(o)' = {}
<1>1. /\ at'[p] = t /\ my'[p] = m
      /\ \A q \in Proc : q # p => at'[q] = at[q] /\ my'[q] = my[q]
  BY DEF TypeOK
<1>2. \A q : q \in Holders(o)' <=> q \in Proc /\ my'[q] = o /\ at'[q] \in HeldPc
  BY DEF Holders, HeldPc
<1>3. \A q : q \in Holders(o) <=> q \in Proc /\ my[q] = o /\ at[q] \in HeldPc
  BY DEF Holders, HeldPc
<1>4. \A q : q # p => (q \in Holders(o) <=> q \in Holders(o)')
  BY <1>1, <1>2, <1>3
<1>5. (p \in Holders(o) <=> my[p] = o /\ at[p] \in HeldPc) /\ (p \in Holders(o)' <=> m = o /\ t \in HeldPc)
  BY <1>1, <1>2, <1>3
<1>6. /\ IsFiniteSet(Holders(o)') /\ Cardinality(Holders(o)') \in Nat
      /\ Cardinality(Holders(o)') = Cardinality(Holders(o)) - Bit(p \in Holders(o)) + Bit(p \in Holders(o)')
  BY <1>4, CountsFinite, DifferAtOne
<1>7. \A q : q \in Reclaimers(o)' <=> q \in Proc /\ my'[q] = o /\ at'[q] = "reclaim"
  BY DEF Reclaimers
<1>8. \A q : q \in Reclaimers(o) <=> q \in Proc /\ my[q] = o /\ at[q] = "reclaim"
  BY DEF Reclaimers
<1>9. \A q : q # p => (q \in Reclaimers(o) <=> q \in Reclaimers(o)')
  BY <1>1, <1>7, <1>8
<1>10. (p \in Reclaimers(o) <=> my[p] = o /\ at[p] = "reclaim") /\ (p \in Reclaimers(o)' <=> m = o /\ t = "reclaim")
  BY <1>1, <1>7, <1>8
<1>11. /\ IsFiniteSet(Reclaimers(o)') /\ Cardinality(Reclaimers(o)') \in Nat
       /\ Cardinality(Reclaimers(o)') = Cardinality(Reclaimers(o)) - Bit(p \in Reclaimers(o)) + Bit(p \in Reclaimers(o)')
  BY <1>9, CountsFinite, DifferAtOne
<1>12. Cardinality(Holders(o)') = 0 <=> Holders(o)' = {}
  BY <1>6, FS_EmptySet
<1> QED
  BY <1>5, <1>6, <1>10, <1>11, <1>12

(* A step of p to t that works on the inode o in memory, leaves it there   *)
(* as n, and p with the inode m.                                           *)
Steps(p, t, o, m, n) ==
    /\ o \in Linked /\ n \in Inode /\ n.linked
    /\ t \in OutPc \cup HeldPc \cup FsPc \cup {"reclaim"} /\ t # "read"
    /\ m \in {None, o} /\ my[p] \in {None, o} /\ (m = None <=> t \in OutPc)
    /\ at' = [at EXCEPT ![p] = t] /\ my' = [my EXCEPT ![p] = m] /\ node' = [node EXCEPT ![o] = n]
    /\ fsLock' \in Proc \cup {None} /\ disk' \in Nat /\ last' \in Nat

LocksRight(p, t, o, n) ==
    /\ \A q \in Proc : fsLock' = q <=> IF q = p THEN t \in FsPc ELSE fsLock = q
    /\ n.sem = IF t \in SemPc THEN p ELSE IF node[o].sem = p THEN None ELSE node[o].sem
    /\ t \in SemPc => node[o].sem \in {None, p}

CountsRight(p, t, o, n) ==
    /\ n.ref = node[o].ref - Bit(at[p] \in HeldPc) + Bit(t \in HeldPc)
    /\ n.reclaim = node[o].reclaim - Bit(at[p] = "reclaim") + Bit(t = "reclaim")
                         - Bit(node[o].ref # 0) + Bit(n.ref # 0)
    /\ t \in {"rsync", "rsync_wbuf"} => n.ref = 0 /\ n.reclaim = 0
    /\ \A q \in Proc : q # p /\ at[q] \in {"rsync", "rsync_wbuf"} => n.ref = node[o].ref /\ n.reclaim = node[o].reclaim

VersionRight(n) == n.ver = last' /\ (~ n.dirty => disk' = last' \/ n.sem # None)

LEMMA LinkedStep ==
    ASSUME SfsInodeAssumption, CacheIInv, NEW p \in Proc, NEW o, NEW n, NEW t, NEW m,
           Steps(p, t, o, m, n), LocksRight(p, t, o, n), CountsRight(p, t, o, n), VersionRight(n)
    PROVE  CacheIInv'
<1> USE DEF Steps, LocksRight, CountsRight, VersionRight
<1>1. TypeOK /\ o \in Obj /\ None \notin Proc /\ o # None /\ None \notin Obj
  BY DEF CacheIInv, Linked, SfsInodeAssumption
<1>2. /\ at'[p] = t /\ my'[p] = m
      /\ \A q \in Proc : q # p => at'[q] = at[q] /\ my'[q] = my[q]
  BY <1>1 DEF TypeOK
<1>3. node'[o] = n /\ \A a \in Obj : a # o => node'[a] = node[a]
  BY <1>1 DEF TypeOK
<1>4. Linked' = Linked
  BY <1>3 DEF Linked
<1>5. TypeOK'
  BY <1>1 DEF TypeOK
<1>6. Working'
  BY <1>2, <1>1 DEF Working, CacheIInv
<1>7. FsHeld'
  BY <1>2 DEF FsHeld, CacheIInv
<1>8. \A a \in Linked : a = o
  BY DEF CacheIInv, Unique
<1>9. SemHeld'
  <2> SUFFICES ASSUME NEW q \in Proc, NEW a \in Obj PROVE node'[a].sem = q <=> my'[q] = a /\ at'[q] \in SemPc
    BY DEF SemHeld
  <2>1. \A r \in Proc, b \in Obj : node[b].sem = r <=> my[r] = b /\ at[r] \in SemPc
    BY DEF CacheIInv, SemHeld
  <2>2. CASE a = o /\ q = p
    <3>1. node'[a].sem = p <=> t \in SemPc
      BY <2>2, <1>1, <1>3
    <3>2. t \in SemPc => m = o
      BY DEF SemPc, OutPc
    <3> QED
      BY <2>2, <3>1, <3>2, <1>2
  <2>3. CASE a = o /\ q # p
    BY <2>1, <2>3, <1>1, <1>2, <1>3
  <2>4. CASE a # o /\ q = p
    BY <2>1, <2>4, <1>1, <1>2, <1>3
  <2>5. CASE a # o /\ q # p
    BY <2>1, <2>5, <1>2, <1>3
  <2> QED
    BY <2>2, <2>3, <2>4, <2>5
<1>10. ReadAlone'
  BY <1>2 DEF ReadAlone, CacheIInv
<1>11. Unique'
  BY <1>4 DEF Unique, CacheIInv
<1>12. Cleared'
  BY <1>3, <1>4 DEF Cleared, CacheIInv
<1>13. NoUseAfterFree'
  BY <1>1, <1>2, <1>4 DEF NoUseAfterFree, CacheIInv
<1>14. Dying'
  <2> SUFFICES ASSUME NEW q \in Proc, at'[q] \in {"rsync", "rsync_wbuf"} PROVE node'[my'[q]].ref = 0 /\ node'[my'[q]].reclaim = 0
    BY DEF Dying
  <2>1. my'[q] # None
    BY <1>6 DEF Working, OutPc
  <2>2. my'[q] = o
    BY <2>1, <1>4, <1>8, <1>13 DEF NoUseAfterFree
  <2>3. CASE q = p
    BY <2>2, <2>3, <1>2, <1>3
  <2>4. CASE q # p
    BY <2>2, <2>4, <1>2, <1>3 DEF CacheIInv, Dying
  <2> QED
    BY <2>3, <2>4
<1>15. CountsExact'
  <2>1. /\ Cardinality(Holders(o)') = Cardinality(Holders(o))
                 - Bit(my[p] = o /\ at[p] \in HeldPc) + Bit(m = o /\ t \in HeldPc)
        /\ Cardinality(Reclaimers(o)') = Cardinality(Reclaimers(o))
                 - Bit(my[p] = o /\ at[p] = "reclaim") + Bit(m = o /\ t = "reclaim")
        /\ Cardinality(Holders(o)') \in Nat /\ Cardinality(Reclaimers(o)') \in Nat
        /\ Cardinality(Holders(o)') = 0 <=> Holders(o)' = {}
    BY <1>1, StepCounts
  <2>2. /\ my[p] = o /\ at[p] \in HeldPc <=> at[p] \in HeldPc
        /\ my[p] = o /\ at[p] = "reclaim" <=> at[p] = "reclaim"
    BY DEF CacheIInv, Working, OutPc, HeldPc
  <2>3. (m = o /\ t \in HeldPc <=> t \in HeldPc) /\ (m = o /\ t = "reclaim" <=> t = "reclaim")
    BY DEF OutPc, HeldPc
  <2>4. node[o].ref = Cardinality(Holders(o)) /\ node[o].reclaim = Cardinality(Reclaimers(o)) + Bit(Holders(o) # {})
    BY DEF CacheIInv, CountsExact, Bit
  <2>5. /\ Cardinality(Holders(o)) \in Nat /\ Cardinality(Reclaimers(o)) \in Nat
        /\ Cardinality(Holders(o)) = 0 <=> Holders(o) = {}
    BY CountsFinite
  <2>6. n.ref = Cardinality(Holders(o)')
    BY <2>1, <2>2, <2>3, <2>4
  <2>7. Bit(node[o].ref # 0) = Bit(Holders(o) # {}) /\ Bit(n.ref # 0) = Bit(Holders(o)' # {})
    BY <2>1, <2>4, <2>5, <2>6
  <2>8. n.reclaim = Cardinality(Reclaimers(o)') + Bit(Holders(o)' # {})
    <3>1. /\ Bit(Holders(o) # {}) \in Nat /\ Bit(Holders(o)' # {}) \in Nat
          /\ Bit(at[p] = "reclaim") \in Nat /\ Bit(t = "reclaim") \in Nat
      BY DEF Bit
    <3>2. Cardinality(Reclaimers(o)') = Cardinality(Reclaimers(o)) - Bit(at[p] = "reclaim") + Bit(t = "reclaim")
      BY <2>1, <2>2, <2>3
    <3> QED
      BY <3>1, <3>2, <2>4, <2>5, <2>7
  <2> SUFFICES ASSUME NEW a \in Linked'
               PROVE  /\ node'[a].ref = Cardinality(Holders(a)')
                      /\ node'[a].reclaim = Cardinality(Reclaimers(a)') + (IF Holders(a)' # {} THEN 1 ELSE 0)
    BY DEF CountsExact
  <2>9. a = o
    BY <1>4, <1>8
  <2> QED
    BY <2>6, <2>8, <2>9, <1>3 DEF Bit
<1>16. NoLostUpdate'
  BY <1>3, <1>4, <1>8 DEF NoLostUpdate
<1> QED
  BY <1>5, <1>6, <1>7, <1>9, <1>10, <1>11, <1>12, <1>13, <1>14, <1>15, <1>16 DEF CacheIInv

(* A process in a call on an inode, and what it knows about it.            *)
LEMMA AtNode ==
    ASSUME SfsInodeAssumption, CacheIInv, NEW p \in Proc, at[p] \notin OutPc
    PROVE  /\ my[p] \in Linked /\ my[p] \in Obj /\ my[p] # None /\ node[my[p]] \in Inode /\ node[my[p]].linked
           /\ node[my[p]].ref \in Nat /\ node[my[p]].reclaim \in Nat /\ node[my[p]].ver = last
           /\ at[p] \in HeldPc => node[my[p]].ref > 0
           /\ at[p] = "reclaim" => node[my[p]].reclaim > 0
           /\ node[my[p]].sem = p <=> at[p] \in SemPc
<1> DEFINE o == my[p]
<1>1. o \in Linked /\ o \in Obj /\ o # None /\ node[o] \in Inode /\ node[o].linked
  BY DEF CacheIInv, Working, NoUseAfterFree, Linked, TypeOK
<1>2. node[o].ref = Cardinality(Holders(o)) /\ node[o].reclaim = Cardinality(Reclaimers(o)) + Bit(Holders(o) # {})
  BY <1>1 DEF CacheIInv, CountsExact, Bit
<1>3. Bit(Holders(o) # {}) \in Nat
  BY DEF Bit
<1>4. /\ Cardinality(Holders(o)) \in Nat /\ Cardinality(Reclaimers(o)) \in Nat
      /\ Cardinality(Holders(o)) = 0 <=> Holders(o) = {}
      /\ Cardinality(Reclaimers(o)) = 0 <=> Reclaimers(o) = {}
  BY CountsFinite
<1>5. at[p] \in HeldPc => p \in Holders(o)
  BY DEF Holders, HeldPc
<1>6. at[p] = "reclaim" => p \in Reclaimers(o)
  BY DEF Reclaimers
<1>7. node[o].ver = last /\ (node[o].sem = p <=> at[p] \in SemPc)
  BY <1>1 DEF CacheIInv, NoLostUpdate, SemHeld
<1> QED
  BY <1>1, <1>2, <1>3, <1>4, <1>5, <1>6, <1>7

(* Without the lock of the file system nobody reads, syncs or reclaims.    *)
LEMMA FsFree ==
    ASSUME SfsInodeAssumption, CacheIInv, fsLock = None, NEW q \in Proc
    PROVE  at[q] \notin FsPc
BY DEF CacheIInv, FsHeld, SfsInodeAssumption

LEMMA LoadInv == ASSUME SfsInodeAssumption, CacheIInv, NEW p \in Proc, Load(p) PROVE CacheIInv'
<1>1. TypeOK /\ at[p] = "idle" /\ at' = [at EXCEPT ![p] = "load"] /\ my' = [my EXCEPT ![p] = None] /\ UNCHANGED <<node, fsLock, disk, last>>
  BY DEF Load, Goto, CacheIInv
<1>2. my[p] = None
  BY <1>1 DEF CacheIInv, Working, OutPc
<1>3. my' = my
  BY <1>1, <1>2 DEF TypeOK
<1>4. at'[p] = "load" /\ \A q \in Proc : q # p => at'[q] = at[q]
  BY <1>1 DEF TypeOK
<1>5. Linked' = Linked
  BY <1>1 DEF Linked
<1>6. TypeOK'
  BY <1>1 DEF TypeOK, OutPc
<1>7. Working' /\ FsHeld' /\ SemHeld'
  BY <1>1, <1>2, <1>3, <1>4 DEF CacheIInv, Working, FsHeld, SemHeld, OutPc, FsPc, SemPc, SfsInodeAssumption
<1>8. ReadAlone' /\ Unique' /\ Cleared' /\ NoUseAfterFree' /\ NoLostUpdate'
  BY <1>1, <1>3, <1>4, <1>5 DEF CacheIInv, ReadAlone, Unique, Cleared, NoUseAfterFree, NoLostUpdate
<1>9. Dying'
  BY <1>1, <1>3, <1>4 DEF CacheIInv, Dying
<1>10. ASSUME NEW o \in Obj PROVE Holders(o)' = Holders(o) /\ Reclaimers(o)' = Reclaimers(o)
  BY <1>1, <1>2, <1>3, <1>4 DEF Holders, Reclaimers, SfsInodeAssumption
<1>11. CountsExact'
  BY <1>1, <1>5, <1>10 DEF CacheIInv, CountsExact, Linked
<1> QED
  BY <1>6, <1>7, <1>8, <1>9, <1>11 DEF CacheIInv

LEMMA LookupNolockInv == ASSUME SfsInodeAssumption, CacheIInv, NEW p \in Proc, LookupNolock(p) PROVE CacheIInv'
<1>1. TypeOK /\ at[p] = "load" /\ fsLock = None /\ disk' = disk /\ last' = last
  BY DEF LookupNolock, CacheIInv
<1>2. my[p] = None
  BY <1>1 DEF CacheIInv, Working, OutPc
<1>3. \A q \in Proc : at[q] \notin FsPc
  BY <1>1, FsFree
<1>4. ASSUME NEW o \in Linked,
             node' = [node EXCEPT ![o] = [node[o] EXCEPT !.ref = @ + 1, !.reclaim = IF node[o].ref = 0 THEN @ + 1 ELSE @]],
             at' = [at EXCEPT ![p] = "held"], my' = [my EXCEPT ![p] = o], fsLock' = fsLock
      PROVE  CacheIInv'
  <2> DEFINE n == [node[o] EXCEPT !.ref = @ + 1, !.reclaim = IF node[o].ref = 0 THEN @ + 1 ELSE @]
  <2>1. node[o] \in Inode /\ node[o].linked /\ o \in Obj /\ o # None
    BY <1>1 DEF TypeOK, Linked, SfsInodeAssumption
  <2>2. /\ n \in Inode /\ n.linked /\ n.sem = node[o].sem /\ n.ver = node[o].ver /\ n.dirty = node[o].dirty
        /\ n.ref = node[o].ref + 1
        /\ n.reclaim = IF node[o].ref = 0 THEN node[o].reclaim + 1 ELSE node[o].reclaim
    <3>1. node[o].ref + 1 \in Nat /\ (IF node[o].ref = 0 THEN node[o].reclaim + 1 ELSE node[o].reclaim) \in Nat
      BY <2>1 DEF Inode
    <3> QED
      BY <2>1, <3>1 DEF Inode
  <2>3. node[o].sem # p
    BY <1>1, <2>1 DEF CacheIInv, SemHeld, SemPc
  <2>4. node[o].ref \in Nat /\ node[o].reclaim \in Nat
    BY <2>1 DEF Inode
  <2>5. n.ver = last' /\ (~ n.dirty => disk' = last' \/ n.sem # None)
    BY <1>1, <2>2 DEF CacheIInv, NoLostUpdate
  <2>6. n.ref = node[o].ref - Bit(at[p] \in HeldPc) + Bit("held" \in HeldPc)
    BY <1>1, <2>2, <2>4 DEF Bit, HeldPc
  <2>7. n.reclaim = node[o].reclaim - Bit(at[p] = "reclaim") + Bit("held" = "reclaim") - Bit(node[o].ref # 0) + Bit(n.ref # 0)
    BY <1>1, <2>2, <2>4 DEF Bit
  <2>8. node' = [node EXCEPT ![o] = n]
    BY <1>4
  <2>9. \A q \in Proc : q # p /\ at[q] \in {"rsync", "rsync_wbuf"} => n.ref = node[o].ref /\ n.reclaim = node[o].reclaim
    BY <1>3 DEF FsPc
  <2>10. \A q \in Proc : fsLock' = q <=> IF q = p THEN "held" \in FsPc ELSE fsLock = q
    BY <1>1, <1>4 DEF FsPc, SfsInodeAssumption
  <2>11. /\ "held" \in OutPc \cup HeldPc \cup FsPc \cup {"reclaim"} /\ "held" \notin OutPc
         /\ "held" \notin SemPc /\ "held" \notin {"rsync", "rsync_wbuf"} /\ "held" # "read"
    BY DEF OutPc, HeldPc, SemPc
  <2>12. disk' \in Nat /\ last' \in Nat /\ fsLock' \in Proc \cup {None}
    BY <1>1, <1>4 DEF TypeOK
  <2> HIDE DEF n
  <2>13. Steps(p, "held", o, o, n)
    BY <1>2, <1>4, <2>1, <2>2, <2>8, <2>11, <2>12 DEF Steps
  <2>14. LocksRight(p, "held", o, n)
    BY <2>2, <2>3, <2>10, <2>11 DEF LocksRight
  <2>15. CountsRight(p, "held", o, n)
    BY <2>6, <2>7, <2>9, <2>11 DEF CountsRight
  <2> QED
    BY <2>5, <2>13, <2>14, <2>15, LinkedStep DEF VersionRight
<1>5. ASSUME Linked = {}, at' = [at EXCEPT ![p] = "read"], my' = [my EXCEPT ![p] = None], fsLock' = p, node' = node
      PROVE  CacheIInv'
  <2>1. my' = my
    BY <1>1, <1>2, <1>5 DEF TypeOK
  <2>2. at'[p] = "read" /\ \A q \in Proc : q # p => at'[q] = at[q]
    BY <1>1, <1>5 DEF TypeOK
  <2>3. Linked' = {}
    BY <1>5 DEF Linked
  <2>4. TypeOK'
    BY <1>1, <1>5 DEF TypeOK, OutPc
  <2>5. Working' /\ SemHeld'
    BY <1>1, <1>2, <1>5, <2>1, <2>2 DEF CacheIInv, Working, SemHeld, OutPc, SemPc, SfsInodeAssumption
  <2>6. FsHeld'
    BY <1>3, <1>5, <2>2 DEF FsHeld, FsPc
  <2>7. ReadAlone' /\ Unique' /\ Cleared' /\ NoUseAfterFree' /\ NoLostUpdate' /\ CountsExact'
    BY <1>1, <1>5, <2>1, <2>3 DEF CacheIInv, ReadAlone, Unique, Cleared, NoUseAfterFree, NoLostUpdate, CountsExact
  <2>8. Dying'
    BY <1>5, <2>1, <2>2 DEF CacheIInv, Dying
  <2> QED
    BY <2>4, <2>5, <2>6, <2>7, <2>8 DEF CacheIInv
<1> QED
  BY <1>4, <1>5 DEF LookupNolock, Set, Goto

(* The steps of a call on an inode that leave its counts alone.            *)
CountsKept(p, t, o, n) ==
    /\ n.ref = node[o].ref /\ n.reclaim = node[o].reclaim
    /\ at[p] # "reclaim" /\ t # "reclaim" /\ (at[p] \in HeldPc <=> t \in HeldPc)
    /\ t \in {"rsync", "rsync_wbuf"} => my[p] = o /\ at[p] \in {"rsync", "rsync_wbuf"}

LEMMA CallStep ==
    ASSUME SfsInodeAssumption, CacheIInv, NEW p \in Proc, NEW o, NEW n, NEW t, NEW m,
           Steps(p, t, o, m, n), CountsKept(p, t, o, n)
    PROVE  CountsRight(p, t, o, n)
<1>1. node[o].ref \in Nat /\ node[o].reclaim \in Nat
  BY DEF Steps, CacheIInv, TypeOK, Inode, Linked
<1>2. n.ref = node[o].ref - Bit(at[p] \in HeldPc) + Bit(t \in HeldPc)
  BY <1>1 DEF Bit, CountsKept
<1>3. n.reclaim = node[o].reclaim - Bit(at[p] = "reclaim") + Bit(t = "reclaim") - Bit(node[o].ref # 0) + Bit(n.ref # 0)
  BY <1>1 DEF Bit, CountsKept
<1>4. t \in {"rsync", "rsync_wbuf"} => n.ref = 0 /\ n.reclaim = 0
  BY DEF CacheIInv, Dying, CountsKept
<1> QED
  BY <1>2, <1>3, <1>4 DEF CountsRight, CountsKept

LEMMA WriteInv == ASSUME SfsInodeAssumption, CacheIInv, NEW p \in Proc, Write(p) PROVE CacheIInv'
<1> DEFINE o == my[p]
           n == [node[o] EXCEPT !.sem = p]
<1>1. /\ at[p] = "held" /\ node[o].sem = None /\ node' = [node EXCEPT ![o] = n] /\ fsLock' = fsLock /\ disk' = disk /\ last' = last
      /\ at' = [at EXCEPT ![p] = "write"] /\ my' = [my EXCEPT ![p] = o]
  BY DEF Write, Set, Goto
<1>2. at[p] \notin OutPc
  BY <1>1 DEF OutPc
<1>3. o \in Linked /\ o # None /\ node[o] \in Inode /\ node[o].linked /\ node[o].ver = last
  BY <1>2, AtNode
<1>4. n \in Inode /\ n.linked /\ n.ref = node[o].ref /\ n.reclaim = node[o].reclaim /\ n.ver = last /\ n.sem = p
  BY <1>3 DEF Inode
<1>5. \A q \in Proc : fsLock' = q <=> IF q = p THEN "write" \in FsPc ELSE fsLock = q
  BY <1>1 DEF CacheIInv, FsHeld, FsPc
<1>6. fsLock' \in Proc \cup {None} /\ disk' \in Nat /\ last' \in Nat /\ p # None
  BY <1>1 DEF CacheIInv, TypeOK, SfsInodeAssumption
<1>7. "write" \in HeldPc /\ "held" \in HeldPc /\ "write" \in SemPc /\ "write" \notin OutPc
  BY DEF HeldPc, SemPc, OutPc
<1> HIDE DEF n
<1>8. Steps(p, "write", o, o, n)
  BY <1>1, <1>3, <1>4, <1>6, <1>7 DEF Steps
<1>9. LocksRight(p, "write", o, n)
  BY <1>1, <1>4, <1>5, <1>7 DEF LocksRight
<1>10. CountsRight(p, "write", o, n)
  <2>1. CountsKept(p, "write", o, n)
    BY <1>1, <1>4, <1>7 DEF CountsKept
  <2> QED
    BY <2>1, <1>8, CallStep
<1>11. VersionRight(n)
  BY <1>1, <1>4, <1>6 DEF VersionRight
<1> QED
  BY <1>8, <1>9, <1>10, <1>11, LinkedStep

LEMMA WriteDoneInv == ASSUME SfsInodeAssumption, CacheIInv, NEW p \in Proc, WriteDone(p) PROVE CacheIInv'
<1> DEFINE o == my[p]
           n == [node[o] EXCEPT !.sem = None, !.dirty = TRUE, !.ver = last + 1]
<1>1. /\ at[p] = "write" /\ node' = [node EXCEPT ![o] = n] /\ fsLock' = fsLock /\ disk' = disk /\ last' = last + 1
      /\ at' = [at EXCEPT ![p] = "held"] /\ my' = [my EXCEPT ![p] = o]
  BY DEF WriteDone, Set, Goto
<1>2. at[p] \notin OutPc /\ at[p] \in SemPc
  BY <1>1 DEF OutPc, SemPc
<1>3. o \in Linked /\ o # None /\ node[o] \in Inode /\ node[o].linked /\ node[o].sem = p
  BY <1>2, AtNode
<1>4. fsLock' \in Proc \cup {None} /\ disk' \in Nat /\ last' \in Nat /\ p # None
  BY <1>1 DEF CacheIInv, TypeOK, SfsInodeAssumption
<1>5. n \in Inode /\ n.linked /\ n.ref = node[o].ref /\ n.reclaim = node[o].reclaim /\ n.ver = last' /\ n.sem = None /\ n.dirty
  BY <1>1, <1>3, <1>4 DEF Inode
<1>6. \A q \in Proc : fsLock' = q <=> IF q = p THEN "held" \in FsPc ELSE fsLock = q
  BY <1>1 DEF CacheIInv, FsHeld, FsPc
<1>7. "write" \in HeldPc /\ "held" \in HeldPc /\ "held" \notin SemPc /\ "held" \notin OutPc
  BY DEF HeldPc, SemPc, OutPc
<1> HIDE DEF n
<1>8. Steps(p, "held", o, o, n)
  BY <1>1, <1>3, <1>4, <1>5, <1>7 DEF Steps
<1>9. LocksRight(p, "held", o, n)
  BY <1>3, <1>5, <1>6, <1>7 DEF LocksRight
<1>10. CountsRight(p, "held", o, n)
  <2>1. CountsKept(p, "held", o, n)
    BY <1>1, <1>5, <1>7 DEF CountsKept
  <2> QED
    BY <2>1, <1>8, CallStep
<1>11. VersionRight(n)
  BY <1>5 DEF VersionRight
<1> QED
  BY <1>8, <1>9, <1>10, <1>11, LinkedStep

LEMMA FsyncInv == ASSUME SfsInodeAssumption, CacheIInv, NEW p \in Proc, Fsync(p) PROVE CacheIInv'
<1> DEFINE o == my[p]
<1>1. /\ at[p] = "held" /\ UNCHANGED <<node, fsLock, disk, last>>
      /\ at' = [at EXCEPT ![p] = "fsync"] /\ my' = [my EXCEPT ![p] = o]
  BY DEF Fsync, Set, Goto
<1>2. at[p] \notin OutPc /\ at[p] \notin SemPc
  BY <1>1 DEF OutPc, SemPc
<1>3. o \in Linked /\ o # None /\ node[o] \in Inode /\ node[o].linked /\ node[o].sem # p /\ node[o].ver = last
  BY <1>2, AtNode
<1>4. node' = [node EXCEPT ![o] = node[o]]
  BY <1>1, <1>3 DEF CacheIInv, TypeOK
<1>5. ~ node[o].dirty => disk = last \/ node[o].sem # None
  BY <1>3 DEF CacheIInv, NoLostUpdate
<1>6. \A q \in Proc : fsLock' = q <=> IF q = p THEN "fsync" \in FsPc ELSE fsLock = q
  BY <1>1 DEF CacheIInv, FsHeld, FsPc
<1>7. fsLock' \in Proc \cup {None} /\ disk' \in Nat /\ last' \in Nat
  BY <1>1 DEF CacheIInv, TypeOK
<1>8. "fsync" \in HeldPc /\ "held" \in HeldPc /\ "fsync" \notin SemPc /\ "fsync" \notin OutPc
  BY DEF HeldPc, SemPc, OutPc
<1>9. Steps(p, "fsync", o, o, node[o])
  BY <1>1, <1>3, <1>4, <1>7, <1>8 DEF Steps
<1>10. LocksRight(p, "fsync", o, node[o])
  BY <1>3, <1>6, <1>8 DEF LocksRight
<1>11. CountsRight(p, "fsync", o, node[o])
  <2>1. CountsKept(p, "fsync", o, node[o])
    BY <1>1, <1>8 DEF CountsKept
  <2> QED
    BY <2>1, <1>9, CallStep
<1>12. VersionRight(node[o])
  BY <1>1, <1>3, <1>5 DEF VersionRight
<1> QED
  BY <1>9, <1>10, <1>11, <1>12, LinkedStep

LEMMA FsyncLockInv == ASSUME SfsInodeAssumption, CacheIInv, NEW p \in Proc, FsyncLock(p) PROVE CacheIInv'
<1> DEFINE o == my[p]
           n == [node[o] EXCEPT !.sem = p, !.dirty = FALSE]
           t == Wbuf[at[p]]
<1>1. /\ at[p] \in {"fsync", "syncall", "rsync"} /\ node[o].sem = None /\ node' = [node EXCEPT ![o] = n]
      /\ fsLock' = fsLock /\ disk' = disk /\ last' = last
      /\ at' = [at EXCEPT ![p] = t] /\ my' = my
  BY DEF FsyncLock, Set, CacheIInv, TypeOK
<1>2. at[p] \notin OutPc /\ at[p] # "reclaim"
  BY <1>1 DEF OutPc
<1>3. o \in Linked /\ o # None /\ node[o] \in Inode /\ node[o].linked /\ node[o].ver = last
  BY <1>2, AtNode
<1>4. n \in Inode /\ n.linked /\ n.ref = node[o].ref /\ n.reclaim = node[o].reclaim /\ n.ver = last /\ n.sem = p
  BY <1>3 DEF Inode
<1>5. \/ at[p] = "fsync" /\ t = "fsync_wbuf"
      \/ at[p] = "syncall" /\ t = "syncall_wbuf"
      \/ at[p] = "rsync" /\ t = "rsync_wbuf"
  BY <1>1 DEF Wbuf
<1> HIDE DEF n, t
<1>6. /\ t \in HeldPc \cup FsPc /\ t \in SemPc /\ t \notin OutPc /\ t # "read"
      /\ (at[p] \in HeldPc <=> t \in HeldPc) /\ (at[p] \in FsPc <=> t \in FsPc)
      /\ t \in {"rsync", "rsync_wbuf"} => at[p] \in {"rsync", "rsync_wbuf"}
  BY <1>5 DEF HeldPc, FsPc, SemPc, OutPc
<1>7. \A q \in Proc : fsLock' = q <=> IF q = p THEN t \in FsPc ELSE fsLock = q
  BY <1>1, <1>6 DEF CacheIInv, FsHeld
<1>8. fsLock' \in Proc \cup {None} /\ disk' \in Nat /\ last' \in Nat /\ p # None
  BY <1>1 DEF CacheIInv, TypeOK, SfsInodeAssumption
<1>9. my' = [my EXCEPT ![p] = o]
  BY <1>1 DEF CacheIInv, TypeOK
<1>10. t # "reclaim"
  BY <1>5
<1>11. Steps(p, t, o, o, n)
  BY <1>1, <1>3, <1>4, <1>6, <1>8, <1>9 DEF Steps
<1>12. LocksRight(p, t, o, n)
  BY <1>1, <1>4, <1>6, <1>7 DEF LocksRight
<1>13. CountsRight(p, t, o, n)
  <2>1. CountsKept(p, t, o, n)
    BY <1>2, <1>4, <1>6, <1>10 DEF CountsKept
  <2> QED
    BY <2>1, <1>11, CallStep
<1>14. VersionRight(n)
  BY <1>1, <1>4, <1>8 DEF VersionRight
<1> QED
  BY <1>11, <1>12, <1>13, <1>14, LinkedStep

LEMMA FsyncCleanInv == ASSUME SfsInodeAssumption, CacheIInv, NEW p \in Proc, FsyncClean(p) PROVE CacheIInv'
<1> DEFINE o == my[p]
           t == IF at[p] = "fsync" THEN "held" ELSE "idle"
           m == IF at[p] = "fsync" THEN o ELSE None
<1>1. /\ at[p] \in {"fsync", "syncall"} /\ node[o].sem = None /\ UNCHANGED <<node, disk, last>>
      /\ fsLock' = IF at[p] = "fsync" THEN fsLock ELSE None
      /\ at' = [at EXCEPT ![p] = t] /\ my' = [my EXCEPT ![p] = m]
  BY DEF FsyncClean, Goto
<1>2. at[p] \notin OutPc /\ at[p] \notin SemPc /\ at[p] # "reclaim"
  BY <1>1 DEF OutPc, SemPc
<1>3. o \in Linked /\ o # None /\ node[o] \in Inode /\ node[o].linked /\ node[o].sem # p /\ node[o].ver = last
  BY <1>2, AtNode
<1>4. node' = [node EXCEPT ![o] = node[o]]
  BY <1>1, <1>3 DEF CacheIInv, TypeOK
<1>5. ~ node[o].dirty => disk = last \/ node[o].sem # None
  BY <1>3 DEF CacheIInv, NoLostUpdate
<1>6. \/ at[p] = "fsync" /\ t = "held" /\ m = o /\ at[p] \notin FsPc /\ at[p] \in HeldPc /\ fsLock' = fsLock
      \/ at[p] = "syncall" /\ t = "idle" /\ m = None /\ at[p] \in FsPc /\ at[p] \notin HeldPc /\ fsLock' = None
  BY <1>1 DEF FsPc, HeldPc
<1> HIDE DEF t, m
<1>7. /\ t \in OutPc \cup HeldPc /\ t \notin FsPc /\ t \notin SemPc /\ t # "reclaim" /\ t # "read" /\ t \notin {"rsync", "rsync_wbuf"}
      /\ (at[p] \in HeldPc <=> t \in HeldPc) /\ m \in {None, o} /\ (m = None <=> t \in OutPc)
  BY <1>3, <1>6 DEF OutPc, HeldPc, FsPc, SemPc
<1>8. \A q \in Proc : fsLock' = q <=> IF q = p THEN t \in FsPc ELSE fsLock = q
  BY <1>6, <1>7 DEF CacheIInv, FsHeld, SfsInodeAssumption
<1>9. fsLock' \in Proc \cup {None} /\ disk' \in Nat /\ last' \in Nat
  BY <1>1 DEF CacheIInv, TypeOK
<1>10. Steps(p, t, o, m, node[o])
  BY <1>1, <1>3, <1>4, <1>7, <1>9 DEF Steps
<1>11. LocksRight(p, t, o, node[o])
  BY <1>3, <1>7, <1>8 DEF LocksRight
<1>12. CountsRight(p, t, o, node[o])
  <2>1. CountsKept(p, t, o, node[o])
    BY <1>2, <1>7 DEF CountsKept
  <2> QED
    BY <2>1, <1>10, CallStep
<1>13. VersionRight(node[o])
  BY <1>1, <1>3, <1>5 DEF VersionRight
<1> QED
  BY <1>10, <1>11, <1>12, <1>13, LinkedStep

LEMMA FsyncDoneInv == ASSUME SfsInodeAssumption, CacheIInv, NEW p \in Proc, FsyncDone(p) PROVE CacheIInv'
<1> DEFINE o == my[p]
           n == [node[o] EXCEPT !.sem = None]
           t == IF at[p] = "fsync_wbuf" THEN "held" ELSE "idle"
           m == IF at[p] = "fsync_wbuf" THEN o ELSE None
<1>1. /\ at[p] \in {"fsync_wbuf", "syncall_wbuf"} /\ node' = [node EXCEPT ![o] = n] /\ disk' = node[o].ver /\ last' = last
      /\ fsLock' = IF at[p] = "fsync_wbuf" THEN fsLock ELSE None
      /\ at' = [at EXCEPT ![p] = t] /\ my' = [my EXCEPT ![p] = m]
  BY DEF FsyncDone, Goto, Set
<1>2. at[p] \notin OutPc /\ at[p] \in SemPc /\ at[p] # "reclaim"
  BY <1>1 DEF OutPc, SemPc
<1>3. o \in Linked /\ o # None /\ node[o] \in Inode /\ node[o].linked /\ node[o].sem = p /\ node[o].ver = last
  BY <1>2, AtNode
<1>4. n \in Inode /\ n.linked /\ n.ref = node[o].ref /\ n.reclaim = node[o].reclaim /\ n.ver = last /\ n.sem = None
  BY <1>3 DEF Inode
<1>5. \/ at[p] = "fsync_wbuf" /\ t = "held" /\ m = o /\ at[p] \notin FsPc /\ at[p] \in HeldPc /\ fsLock' = fsLock
      \/ at[p] = "syncall_wbuf" /\ t = "idle" /\ m = None /\ at[p] \in FsPc /\ at[p] \notin HeldPc /\ fsLock' = None
  BY <1>1 DEF FsPc, HeldPc
<1> HIDE DEF t, m, n
<1>6. /\ t \in OutPc \cup HeldPc /\ t \notin FsPc /\ t \notin SemPc /\ t # "reclaim" /\ t # "read" /\ t \notin {"rsync", "rsync_wbuf"}
      /\ (at[p] \in HeldPc <=> t \in HeldPc) /\ m \in {None, o} /\ (m = None <=> t \in OutPc)
  BY <1>3, <1>5 DEF OutPc, HeldPc, FsPc, SemPc
<1>7. \A q \in Proc : fsLock' = q <=> IF q = p THEN t \in FsPc ELSE fsLock = q
  BY <1>5, <1>6 DEF CacheIInv, FsHeld, SfsInodeAssumption
<1>8. fsLock' \in Proc \cup {None} /\ disk' \in Nat /\ last' \in Nat /\ disk' = last'
  BY <1>1, <1>3 DEF CacheIInv, TypeOK
<1>9. Steps(p, t, o, m, n)
  BY <1>1, <1>3, <1>4, <1>6, <1>8 DEF Steps
<1>10. LocksRight(p, t, o, n)
  BY <1>3, <1>4, <1>6, <1>7 DEF LocksRight
<1>11. CountsRight(p, t, o, n)
  <2>1. CountsKept(p, t, o, n)
    BY <1>2, <1>4, <1>6 DEF CountsKept
  <2> QED
    BY <2>1, <1>9, CallStep
<1>12. VersionRight(n)
  BY <1>1, <1>4, <1>8 DEF VersionRight
<1> QED
  BY <1>9, <1>10, <1>11, <1>12, LinkedStep

LEMMA SyncAllInv == ASSUME SfsInodeAssumption, CacheIInv, NEW p \in Proc, SyncAll(p) PROVE CacheIInv'
<1>1. PICK o \in Linked : node[o].dirty /\ Goto(p, "syncall", o)
  BY DEF SyncAll
<1>2. /\ at[p] = "idle" /\ fsLock = None /\ fsLock' = p /\ UNCHANGED <<node, disk, last>>
      /\ at' = [at EXCEPT ![p] = "syncall"] /\ my' = [my EXCEPT ![p] = o]
  BY <1>1 DEF SyncAll, Goto
<1>3. my[p] = None /\ o # None /\ o \in Obj /\ node[o] \in Inode /\ node[o].linked
  BY <1>2 DEF CacheIInv, Working, OutPc, Linked, TypeOK, SfsInodeAssumption
<1>4. node' = [node EXCEPT ![o] = node[o]]
  BY <1>2, <1>3 DEF CacheIInv, TypeOK
<1>5. node[o].sem # p /\ node[o].ver = last
  BY <1>2, <1>3 DEF CacheIInv, SemHeld, SemPc, NoLostUpdate
<1>6. /\ "syncall" \in FsPc /\ "syncall" \notin OutPc /\ "syncall" \notin HeldPc /\ "syncall" \notin SemPc
      /\ at[p] \notin HeldPc /\ at[p] # "reclaim"
  BY <1>2 DEF OutPc, HeldPc, FsPc, SemPc
<1>7. \A q \in Proc : fsLock' = q <=> IF q = p THEN "syncall" \in FsPc ELSE fsLock = q
  BY <1>2, <1>6 DEF SfsInodeAssumption
<1>8. fsLock' \in Proc \cup {None} /\ disk' \in Nat /\ last' \in Nat
  BY <1>2 DEF CacheIInv, TypeOK
<1>9. Steps(p, "syncall", o, o, node[o])
  BY <1>2, <1>3, <1>4, <1>6, <1>8 DEF Steps
<1>10. LocksRight(p, "syncall", o, node[o])
  BY <1>5, <1>6, <1>7 DEF LocksRight
<1>11. CountsRight(p, "syncall", o, node[o])
  <2>1. CountsKept(p, "syncall", o, node[o])
    BY <1>6 DEF CountsKept
  <2> QED
    BY <2>1, <1>9, CallStep
<1>12. VersionRight(node[o])
  BY <1>1, <1>2, <1>5 DEF VersionRight
<1> QED
  BY <1>9, <1>10, <1>11, <1>12, LinkedStep

LEMMA RefDecInv == ASSUME SfsInodeAssumption, CacheIInv, NEW p \in Proc, RefDec(p) PROVE CacheIInv'
<1> DEFINE o == my[p]
           n == [node[o] EXCEPT !.ref = @ - 1]
           t == IF node[o].ref = 1 THEN "reclaim" ELSE "idle"
           m == IF node[o].ref = 1 THEN o ELSE None
<1>1. /\ at[p] = "held" /\ node' = [node EXCEPT ![o] = n] /\ UNCHANGED <<fsLock, disk, last>>
      /\ at' = [at EXCEPT ![p] = t] /\ my' = [my EXCEPT ![p] = m]
  BY DEF RefDec, Goto, Set
<1>2. at[p] \notin OutPc /\ at[p] \in HeldPc /\ at[p] # "reclaim" /\ at[p] \notin SemPc /\ at[p] \notin FsPc
  BY <1>1 DEF OutPc, SemPc, HeldPc, FsPc
<1>3. /\ o \in Linked /\ o # None /\ node[o] \in Inode /\ node[o].linked /\ node[o].sem # p /\ node[o].ver = last
      /\ node[o].ref \in Nat /\ node[o].ref > 0 /\ node[o].reclaim \in Nat
  BY <1>2, AtNode
<1>4. /\ n \in Inode /\ n.linked /\ n.ref = node[o].ref - 1 /\ n.reclaim = node[o].reclaim /\ n.ver = last /\ n.sem = node[o].sem
      /\ n.dirty = node[o].dirty
  BY <1>3 DEF Inode
<1>5. /\ t \in {"idle", "reclaim"} /\ m \in {None, o} /\ (m = None <=> t = "idle")
      /\ (t = "reclaim" <=> node[o].ref = 1)
  BY <1>3
<1> HIDE DEF t, m, n
<1>6. /\ t \in OutPc \cup {"reclaim"} /\ t \notin FsPc /\ t \notin SemPc /\ t \notin HeldPc /\ t # "read" /\ t \notin {"rsync", "rsync_wbuf"}
      /\ (m = None <=> t \in OutPc)
  BY <1>5 DEF OutPc, HeldPc, FsPc, SemPc
<1>7. \A q \in Proc : fsLock' = q <=> IF q = p THEN t \in FsPc ELSE fsLock = q
  BY <1>1, <1>2, <1>6 DEF CacheIInv, FsHeld
<1>8. fsLock' \in Proc \cup {None} /\ disk' \in Nat /\ last' \in Nat /\ (~ node[o].dirty => disk = last \/ node[o].sem # None)
  BY <1>1, <1>3 DEF CacheIInv, TypeOK, NoLostUpdate
<1>9. n.ref = node[o].ref - Bit(at[p] \in HeldPc) + Bit(t \in HeldPc)
  BY <1>2, <1>3, <1>4, <1>6 DEF Bit
<1>10. n.reclaim = node[o].reclaim - Bit(at[p] = "reclaim") + Bit(t = "reclaim") - Bit(node[o].ref # 0) + Bit(n.ref # 0)
  BY <1>2, <1>3, <1>4, <1>5 DEF Bit
<1>11. ASSUME NEW q \in Proc, at[q] \in {"rsync", "rsync_wbuf"} PROVE FALSE
  <2>1. my[q] \in Linked
    BY <1>11, AtNode DEF OutPc
  <2>2. my[q] = o
    BY <2>1, <1>3 DEF CacheIInv, Unique
  <2> QED
    BY <2>2, <1>3, <1>11 DEF CacheIInv, Dying
<1>12. Steps(p, t, o, m, n)
  BY <1>1, <1>3, <1>4, <1>5, <1>6, <1>8 DEF Steps
<1>13. LocksRight(p, t, o, n)
  BY <1>3, <1>4, <1>6, <1>7 DEF LocksRight
<1>14. CountsRight(p, t, o, n)
  BY <1>6, <1>9, <1>10, <1>11 DEF CountsRight
<1>15. VersionRight(n)
  BY <1>1, <1>4, <1>8 DEF VersionRight
<1> QED
  BY <1>12, <1>13, <1>14, <1>15, LinkedStep

(* sfs_reclaim frees the structure: nobody else works on it.               *)
LEMMA FreeStep ==
    ASSUME SfsInodeAssumption, CacheIInv, NEW p \in Proc, at[p] \notin OutPc,
           node[my[p]].ref = 0, \A q \in Reclaimers(my[p]) : q = p, fsLock \in {None, p},
           at' = [at EXCEPT ![p] = "idle"], my' = [my EXCEPT ![p] = None], node' = [node EXCEPT ![my[p]] = Freed],
           fsLock' = None, disk' = last, last' = last
    PROVE  CacheIInv'
<1> DEFINE o == my[p]
<1>1. TypeOK /\ o \in Linked /\ o \in Obj /\ None \notin Obj /\ None \notin Proc
  BY AtNode DEF CacheIInv, SfsInodeAssumption
<1>2. \A a \in Linked : a = o
  BY <1>1 DEF CacheIInv, Unique
<1>3. ASSUME NEW q \in Proc, q # p PROVE my[q] = None /\ at[q] \in OutPc /\ at[q] \notin FsPc
  <2>1. at[q] \notin FsPc
    BY <1>1, <1>3 DEF CacheIInv, FsHeld
  <2>2. ASSUME at[q] \notin OutPc PROVE FALSE
    <3>1. my[q] \in Linked /\ (at[q] \in HeldPc => node[my[q]].ref > 0)
      BY <2>2, AtNode
    <3>2. my[q] = o
      BY <3>1, <1>2
    <3>3. at[q] \in HeldPc \/ at[q] = "reclaim"
      BY <2>1, <2>2, <1>1 DEF TypeOK
    <3>4. at[q] = "reclaim" => q \in Reclaimers(o)
      BY <3>2 DEF Reclaimers
    <3> QED
      BY <3>1, <3>2, <3>3, <3>4, <1>3
  <2> QED
    BY <2>1, <2>2 DEF CacheIInv, Working
<1>4. \A q \in Proc : my'[q] = None /\ at'[q] \in OutPc /\ at'[q] \notin FsPc
  BY <1>1, <1>3 DEF TypeOK, OutPc, FsPc
<1>5. Freed \in Inode /\ ~ Freed.linked /\ Freed.sem = None
  BY DEF Freed, Inode
<1>6. \A a \in Obj : node'[a] = Freed
  BY <1>1, <1>2 DEF CacheIInv, Cleared, TypeOK
<1>7. Linked' = {}
  BY <1>5, <1>6 DEF Linked
<1>8. TypeOK'
  BY <1>1, <1>5 DEF TypeOK, OutPc
<1>9. Working' /\ FsHeld' /\ NoUseAfterFree'
  BY <1>1, <1>4 DEF Working, FsHeld, NoUseAfterFree
<1>10. SemHeld'
  BY <1>1, <1>4, <1>5, <1>6 DEF SemHeld
<1>11. ReadAlone' /\ Unique' /\ Cleared' /\ CountsExact' /\ NoLostUpdate'
  BY <1>6, <1>7 DEF ReadAlone, Unique, Cleared, CountsExact, NoLostUpdate
<1>12. Dying'
  BY <1>4 DEF Dying, OutPc
<1> QED
  BY <1>8, <1>9, <1>10, <1>11, <1>12 DEF CacheIInv

LEMMA ReclaimInv == ASSUME SfsInodeAssumption, CacheIInv, NEW p \in Proc, Reclaim(p) PROVE CacheIInv'
<1> DEFINE o == my[p]
           n == [node[o] EXCEPT !.reclaim = @ - 1]
<1>1. at[p] = "reclaim" /\ fsLock = None /\ disk' = disk /\ last' = last
  BY DEF Reclaim
<1>2. at[p] \notin OutPc /\ at[p] \notin HeldPc /\ at[p] \notin SemPc
  BY <1>1 DEF OutPc, HeldPc, SemPc
<1>3. /\ o \in Linked /\ o # None /\ o \in Obj /\ node[o] \in Inode /\ node[o].linked /\ node[o].sem # p /\ node[o].ver = last
      /\ node[o].ref \in Nat /\ node[o].reclaim \in Nat /\ node[o].reclaim > 0
  BY <1>1, <1>2, AtNode
<1>4. /\ n \in Inode /\ n.linked /\ n.ref = node[o].ref /\ n.reclaim = node[o].reclaim - 1 /\ n.ver = last /\ n.sem = node[o].sem
      /\ n.dirty = node[o].dirty
  BY <1>3 DEF Inode
<1>5. \A q \in Proc : at[q] \notin FsPc
  BY <1>1, FsFree
<1>6. disk' \in Nat /\ last' \in Nat /\ (~ node[o].dirty => disk = last \/ node[o].sem # None)
  BY <1>1, <1>3 DEF CacheIInv, TypeOK, NoLostUpdate
<1>7. /\ Busy(n) <=> n.reclaim # 0 \/ n.ref # 0
      /\ \/ Busy(n) /\ node' = [node EXCEPT ![o] = n] /\ at' = [at EXCEPT ![p] = "idle"] /\ my' = [my EXCEPT ![p] = None] /\ fsLock' = fsLock
         \/ ~ Busy(n) /\ node' = [node EXCEPT ![o] = n] /\ at' = [at EXCEPT ![p] = "rsync"] /\ my' = [my EXCEPT ![p] = o] /\ fsLock' = p
         \/ ~ Busy(n) /\ ~ n.dirty /\ node' = [node EXCEPT ![o] = Freed]
            /\ at' = [at EXCEPT ![p] = "idle"] /\ my' = [my EXCEPT ![p] = None] /\ fsLock' = fsLock
  BY DEF Reclaim, Busy, Set, Goto
<1>8. p # None /\ None \notin Proc
  BY DEF SfsInodeAssumption
<1> HIDE DEF n
<1>9. ASSUME NEW t \in {"idle", "rsync"} PROVE n.ref = node[o].ref - Bit(at[p] \in HeldPc) + Bit(t \in HeldPc)
  BY <1>2, <1>3, <1>4 DEF Bit, HeldPc
<1>10. ASSUME NEW t \in {"idle", "rsync"}
       PROVE  n.reclaim = node[o].reclaim - Bit(at[p] = "reclaim") + Bit(t = "reclaim") - Bit(node[o].ref # 0) + Bit(n.ref # 0)
  BY <1>1, <1>3, <1>4 DEF Bit
<1>11. CASE Busy(n) /\ node' = [node EXCEPT ![o] = n] /\ at' = [at EXCEPT ![p] = "idle"] /\ my' = [my EXCEPT ![p] = None] /\ fsLock' = fsLock
  <2>1. "idle" \in OutPc /\ "idle" \notin FsPc /\ "idle" \notin SemPc
    BY DEF OutPc, FsPc, SemPc
  <2>2. Steps(p, "idle", o, None, n)
    BY <2>1, <1>1, <1>3, <1>4, <1>6, <1>11 DEF Steps
  <2>3. LocksRight(p, "idle", o, n)
    BY <2>1, <1>1, <1>3, <1>4, <1>8, <1>11 DEF LocksRight
  <2>4. CountsRight(p, "idle", o, n)
    BY <1>5, <1>9, <1>10 DEF CountsRight, FsPc
  <2>5. VersionRight(n)
    BY <1>1, <1>4, <1>6 DEF VersionRight
  <2> QED
    BY <2>2, <2>3, <2>4, <2>5, LinkedStep
<1>12. CASE ~ Busy(n) /\ node' = [node EXCEPT ![o] = n] /\ at' = [at EXCEPT ![p] = "rsync"] /\ my' = [my EXCEPT ![p] = o] /\ fsLock' = p
  <2>1. "rsync" \notin OutPc /\ "rsync" \in FsPc /\ "rsync" \notin SemPc
    BY DEF OutPc, FsPc, SemPc
  <2>2. Steps(p, "rsync", o, o, n)
    BY <2>1, <1>3, <1>4, <1>6, <1>12 DEF Steps
  <2>3. LocksRight(p, "rsync", o, n)
    BY <2>1, <1>1, <1>3, <1>4, <1>8, <1>12 DEF LocksRight
  <2>4. CountsRight(p, "rsync", o, n)
    BY <1>5, <1>7, <1>9, <1>10, <1>12 DEF CountsRight, FsPc
  <2>5. VersionRight(n)
    BY <1>1, <1>4, <1>6 DEF VersionRight
  <2> QED
    BY <2>2, <2>3, <2>4, <2>5, LinkedStep
<1>13. CASE ~ Busy(n) /\ ~ n.dirty /\ node' = [node EXCEPT ![o] = Freed]
            /\ at' = [at EXCEPT ![p] = "idle"] /\ my' = [my EXCEPT ![p] = None] /\ fsLock' = fsLock
  <2>1. node[o].ref = 0 /\ node[o].reclaim = 1
    BY <1>3, <1>4, <1>7, <1>13
  <2>2. node[o].reclaim = Cardinality(Reclaimers(o)) + Bit(Holders(o) # {}) /\ node[o].ref = Cardinality(Holders(o))
    BY <1>3 DEF CacheIInv, CountsExact, Bit
  <2>3. /\ IsFiniteSet(Reclaimers(o)) /\ Cardinality(Reclaimers(o)) \in Nat
        /\ Cardinality(Holders(o)) = 0 <=> Holders(o) = {}
    BY CountsFinite
  <2>4. Holders(o) = {} /\ Cardinality(Reclaimers(o)) = 1
    BY <2>1, <2>2, <2>3 DEF Bit
  <2>5. \E r : Reclaimers(o) = {r}
    BY <2>3, <2>4, FS_Singleton
  <2>6. p \in Reclaimers(o)
    BY <1>1 DEF Reclaimers
  <2>7. \A q \in Reclaimers(o) : q = p
    BY <2>5, <2>6
  <2>8. ASSUME NEW q \in Proc, node[o].sem = q PROVE FALSE
    <3>1. my[q] = o /\ at[q] \in SemPc
      BY <2>8, <1>3 DEF CacheIInv, SemHeld
    <3>2. at[q] \in HeldPc
      BY <3>1, <1>5 DEF SemPc, FsPc, HeldPc
    <3>3. q \in Holders(o)
      BY <3>1, <3>2 DEF Holders, HeldPc
    <3> QED
      BY <3>3, <2>4
  <2>9. node[o].sem = None
    BY <2>8, <1>3 DEF Inode
  <2>10. disk' = last
    BY <2>9, <1>1, <1>4, <1>6, <1>13
  <2>11. fsLock \in {None, p} /\ fsLock' = None
    BY <1>1, <1>13
  <2> QED
    BY <2>1, <2>7, <2>10, <2>11, <1>1, <1>2, <1>13, FreeStep
<1> QED
  BY <1>7, <1>11, <1>12, <1>13

LEMMA ReclaimSyncedInv == ASSUME SfsInodeAssumption, CacheIInv, NEW p \in Proc, ReclaimSynced(p) PROVE CacheIInv'
<1> DEFINE o == my[p]
<1>1. /\ at[p] = "rsync_wbuf" /\ disk' = node[o].ver /\ last' = last /\ fsLock' = None
      /\ at' = [at EXCEPT ![p] = "idle"] /\ my' = [my EXCEPT ![p] = None] /\ node' = [node EXCEPT ![o] = Freed]
  BY DEF ReclaimSynced, Goto, Set
<1>2. at[p] \notin OutPc /\ at[p] \in FsPc
  BY <1>1 DEF OutPc, FsPc
<1>3. o \in Linked /\ node[o].ver = last
  BY <1>2, AtNode
<1>4. node[o].ref = 0 /\ node[o].reclaim = 0
  BY <1>1 DEF CacheIInv, Dying
<1>5. node[o].reclaim = Cardinality(Reclaimers(o)) + Bit(Holders(o) # {})
  BY <1>3 DEF CacheIInv, CountsExact, Bit
<1>6. Cardinality(Reclaimers(o)) \in Nat /\ (Cardinality(Reclaimers(o)) = 0 <=> Reclaimers(o) = {})
  BY CountsFinite
<1>7. Reclaimers(o) = {}
  BY <1>4, <1>5, <1>6 DEF Bit
<1>8. fsLock = p
  BY <1>2 DEF CacheIInv, FsHeld
<1> QED
  BY <1>1, <1>2, <1>3, <1>4, <1>7, <1>8, FreeStep

LEMMA LoadDoneInv == ASSUME SfsInodeAssumption, CacheIInv, NEW p \in Proc, LoadDone(p) PROVE CacheIInv'
<1>1. TypeOK /\ at[p] = "read" /\ fsLock' = None /\ disk' = disk /\ last' = last
  BY DEF LoadDone, CacheIInv
<1>2. Linked = {} /\ fsLock = p /\ disk = last /\ None \notin Obj /\ None \notin Proc
  BY <1>1 DEF CacheIInv, ReadAlone, FsHeld, FsPc, NoLostUpdate, SfsInodeAssumption
<1>3. \A q \in Proc : my[q] = None /\ at[q] \in OutPc /\ (q # p => at[q] \notin FsPc)
  BY <1>2 DEF CacheIInv, NoUseAfterFree, Working, FsHeld
<1>4. \A a \in Obj : node[a] = Freed
  BY <1>2 DEF CacheIInv, Cleared
<1>5. Freed \in Inode /\ ~ Freed.linked /\ Freed.sem = None
  BY DEF Freed, Inode
<1>6. ASSUME NEW o \in Obj, at' = [at EXCEPT ![p] = "held"], my' = [my EXCEPT ![p] = o],
             node' = [node EXCEPT ![o] = [Freed EXCEPT !.linked = TRUE, !.ref = 1, !.reclaim = 1, !.ver = disk]]
      PROVE  CacheIInv'
  <2> DEFINE n == [Freed EXCEPT !.linked = TRUE, !.ref = 1, !.reclaim = 1, !.ver = disk]
  <2>1. n \in Inode /\ n.linked /\ n.ref = 1 /\ n.reclaim = 1 /\ n.ver = last' /\ n.sem = None /\ ~ n.dirty
    BY <1>1, <1>2 DEF Freed, Inode, TypeOK
  <2>2. node'[o] = n /\ \A a \in Obj : a # o => node'[a] = Freed
    BY <1>1, <1>4, <1>6 DEF TypeOK
  <2>3. node' \in [Obj -> Inode]
    BY <1>1, <1>6, <2>1 DEF TypeOK
  <2> HIDE DEF n
  <2>4. /\ at'[p] = "held" /\ my'[p] = o
        /\ \A q \in Proc : q # p => at'[q] = at[q] /\ my'[q] = None
    BY <1>1, <1>3, <1>6 DEF TypeOK
  <2>5. Linked' = {o}
    BY <1>5, <2>1, <2>2 DEF Linked
  <2>6. TypeOK'
    BY <1>1, <1>6, <2>3 DEF TypeOK, HeldPc
  <2>7. Working' /\ NoUseAfterFree'
    BY <1>2, <1>3, <2>4, <2>5 DEF Working, NoUseAfterFree, OutPc
  <2>8. FsHeld'
    BY <1>1, <1>2, <1>3, <2>4 DEF FsHeld, FsPc
  <2>9. SemHeld'
    <3>1. \A a \in Obj : node'[a].sem = None
      BY <1>5, <2>1, <2>2
    <3> QED
      BY <3>1, <1>2, <2>4 DEF SemHeld, SemPc
  <2>10. ReadAlone' /\ Dying'
    BY <1>3, <2>4 DEF ReadAlone, Dying, OutPc, FsPc
  <2>11. Unique' /\ Cleared'
    BY <2>2, <2>5 DEF Unique, Cleared
  <2>12. NoLostUpdate'
    BY <1>1, <1>2, <2>1, <2>2, <2>5 DEF NoLostUpdate
  <2>13. CountsExact'
    <3>1. Holders(o)' = {p}
      BY <2>4, <1>2 DEF Holders
    <3>2. Reclaimers(o)' = {}
      BY <2>4, <1>2 DEF Reclaimers
    <3>3. Cardinality(Holders(o)') = 1 /\ Cardinality(Reclaimers(o)') = 0
      BY <3>1, <3>2, FS_Singleton, FS_EmptySet
    <3> QED
      BY <3>1, <3>3, <2>1, <2>2, <2>5 DEF CountsExact
  <2> QED
    BY <2>6, <2>7, <2>8, <2>9, <2>10, <2>11, <2>12, <2>13 DEF CacheIInv
<1>7. ASSUME at' = [at EXCEPT ![p] = "idle"], my' = [my EXCEPT ![p] = None], node' = node
      PROVE  CacheIInv'
  <2>1. \A q \in Proc : my'[q] = None /\ at'[q] \in OutPc /\ at'[q] \notin FsPc
    BY <1>1, <1>3, <1>7 DEF TypeOK, OutPc, FsPc
  <2>2. Linked' = {}
    BY <1>2, <1>7 DEF Linked
  <2>3. TypeOK'
    BY <1>1, <1>7 DEF TypeOK, OutPc
  <2>4. Working' /\ FsHeld' /\ NoUseAfterFree'
    BY <1>1, <1>2, <2>1 DEF Working, FsHeld, NoUseAfterFree
  <2>5. SemHeld'
    BY <1>2, <1>4, <1>5, <1>7, <2>1 DEF SemHeld
  <2>6. ReadAlone' /\ Unique' /\ Cleared' /\ CountsExact' /\ NoLostUpdate'
    BY <1>1, <1>2, <1>4, <1>7, <2>2 DEF ReadAlone, Unique, Cleared, CountsExact, NoLostUpdate
  <2>7. Dying'
    BY <2>1 DEF Dying, OutPc
  <2> QED
    BY <2>3, <2>4, <2>5, <2>6, <2>7 DEF CacheIInv
<1> QED
  BY <1>6, <1>7 DEF LoadDone, Set, Goto

---------------------------------------------------------------------------
LEMMA CacheInit == SfsInodeAssumption /\ InodeInit => CacheIInv
<1> SUFFICES ASSUME SfsInodeAssumption, InodeInit PROVE CacheIInv
  OBVIOUS
<1>1. Freed \in Inode /\ ~ Freed.linked /\ Freed.sem = None
  BY DEF Freed, Inode
<1>2. Linked = {}
  BY <1>1 DEF InodeInit, Linked
<1>3. TypeOK
  BY <1>1 DEF InodeInit, TypeOK, OutPc
<1>4. Working /\ FsHeld /\ SemHeld /\ Dying
  BY <1>1 DEF InodeInit, Working, FsHeld, SemHeld, Dying, OutPc, FsPc, SfsInodeAssumption
<1>5. ReadAlone /\ Unique /\ Cleared /\ NoUseAfterFree /\ CountsExact /\ NoLostUpdate
  BY <1>2 DEF InodeInit, ReadAlone, Unique, Cleared, NoUseAfterFree, CountsExact, NoLostUpdate
<1> QED
  BY <1>3, <1>4, <1>5 DEF CacheIInv

LEMMA CacheNext == SfsInodeAssumption /\ CacheIInv /\ [InodeNext]_inode_vars => CacheIInv'
<1> SUFFICES ASSUME SfsInodeAssumption, CacheIInv, [InodeNext]_inode_vars PROVE CacheIInv'
  OBVIOUS
<1>1. ASSUME NEW p \in Proc, Load(p) \/ LookupNolock(p) \/ LoadDone(p) PROVE CacheIInv'
  BY <1>1, LoadInv, LookupNolockInv, LoadDoneInv
<1>2. ASSUME NEW p \in Proc, Write(p) \/ WriteDone(p) PROVE CacheIInv'
  BY <1>2, WriteInv, WriteDoneInv
<1>3. ASSUME NEW p \in Proc, Fsync(p) \/ FsyncLock(p) \/ FsyncClean(p) \/ FsyncDone(p) \/ SyncAll(p) PROVE CacheIInv'
  BY <1>3, FsyncInv, FsyncLockInv, FsyncCleanInv, FsyncDoneInv, SyncAllInv
<1>4. ASSUME NEW p \in Proc, RefDec(p) \/ Reclaim(p) \/ ReclaimSynced(p) PROVE CacheIInv'
  BY <1>4, RefDecInv, ReclaimInv, ReclaimSyncedInv
<1>5. CASE UNCHANGED inode_vars
  BY <1>5 DEF inode_vars, CacheIInv, TypeOK, Working, FsHeld, SemHeld, ReadAlone, Unique, Cleared, Dying,
              NoUseAfterFree, CountsExact, NoLostUpdate, Linked, Holders, Reclaimers
<1> QED
  BY <1>1, <1>2, <1>3, <1>4, <1>5 DEF InodeNext

(* sfs_inode.c: for any number of processes that open, write, sync and     *)
(* close one file, in every order of their steps, sfs_load_inode never     *)
(* makes a second structure for the inode, sfs_reclaim never frees one     *)
(* that somebody uses, its counts are exact, and what was written last is  *)
(* in memory or on the disk.                                               *)
THEOREM CacheCorrect == ASSUME SfsInodeAssumption PROVE InodeSpec => []CacheInv
<1>1. InodeInit => CacheIInv
  BY CacheInit
<1>2. CacheIInv /\ [InodeNext]_inode_vars => CacheIInv'
  BY CacheNext
<1>3. CacheIInv => CacheInv
  <2> SUFFICES ASSUME CacheIInv PROVE OneNode
    BY DEF CacheIInv, CacheInv
  <2>1. CASE Linked = {}
    BY <2>1, FS_EmptySet DEF OneNode
  <2>2. CASE \E o : Linked = {o}
    BY <2>2, FS_Singleton DEF OneNode
  <2> QED
    BY <2>1, <2>2 DEF CacheIInv, Unique
<1> QED
  BY <1>1, <1>2, <1>3, PTL DEF InodeSpec
============================================================================
