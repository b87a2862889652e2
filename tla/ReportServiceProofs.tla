------------------------ MODULE ReportServiceProofs ------------------------
(***************************************************************************)
(* Theorems about the requests of a server and their memory notes, for any *)
(* number of requests, run modes, TopK, times to live and crashes: what    *)
(* answers promise, where orphaned notes come from, which notes a run may  *)
(* miss and for how long.                                                  *)
(***************************************************************************)
EXTENDS ReportService, FiniteSetTheorems, TLAPS

-----------------------------------------------------------------------------
(* The memory notes *)

\* A lookup that returned S lacks something of T and had room for it.
Misses(S, T) == ~(Cardinality(S) = TopK \/ T \subseteq S)

\* Strengthening: between reading the table and filling the cache, a reader
\* lacks only notes that were committed meanwhile.
FetchedInv ==
  \A r \in Requests : pc[r] = "fetched" =>
    /\ ~Misses(got[r], Table \ overlapped)
    /\ ~Misses(got[r], {n \in Table : notes[n] > lag[r]})

\* The same of the record in the cache, as long as it is served.
RecordInv ==
  left > 0 =>
    /\ ~Misses(record, settled \ overlapped)
    /\ ~Misses(record, {n \in Table : notes[n] > Ttl - left + MaxLag})

DueInv == \A r \in Requests : pc[r] \in {"fetched", "cites"} => ~Misses(got[r], due[r])

MemoryInv ==
  /\ TypeOK
  /\ IsFiniteSet(Table)
  /\ FetchedInv
  /\ RecordInv
  /\ DueInv

\* The steps that leave the table, the record and the histories alone.
MovesOnly(r) ==
  /\ r \in Requests
  /\ \E place \in Places \ {"fetched", "cites"} : Go(r, place)
  /\ got' = got \/ Take(r, {})
  /\ due' = due \/ due' = [due EXCEPT ![r] = {}]
  /\ mode' \in [Requests -> Modes]
  /\ UNCHANGED <<lag, notes, record, left, settled, overlapped>>

LEMMA MovesOnlyMemory == ASSUME MemoryInv, NEW r, MovesOnly(r) PROVE MemoryInv'
<1> USE DEF MemoryInv, MovesOnly
<1>1. PICK place \in Places \ {"fetched", "cites"} : pc' = [pc EXCEPT ![r] = place]
  BY DEF Go
<1>2. Table' = Table
  BY DEF Table
<1>3. got' \in [Requests -> SUBSET Table]
  BY DEF TypeOK, Take
<1>4. due' \in [Requests -> SUBSET settled]
  BY DEF TypeOK
<1>5. pc' \in [Requests -> Places]
  BY <1>1 DEF TypeOK
<1>6. TypeOK'
  BY <1>2, <1>3, <1>4, <1>5 DEF TypeOK
<1>7. \A q \in Requests : pc'[q] \in {"fetched", "cites"} =>
        q # r /\ pc'[q] = pc[q] /\ got'[q] = got[q] /\ due'[q] = due[q]
  BY <1>1 DEF TypeOK, Take
<1>8. FetchedInv'
  BY <1>2, <1>7 DEF FetchedInv
<1>9. DueInv'
  BY <1>7 DEF DueInv
<1>10. RecordInv'
  BY <1>2 DEF RecordInv
<1>11. QED
  BY <1>2, <1>6, <1>8, <1>9, <1>10

LEMMA MovesSteps ==
  ASSUME MemoryInv, NEW r \in Requests, WriteFails(r) \/ EndRun(r) \/ RunRaises(r)
  PROVE  MovesOnly(r)
<1>1. /\ "written" \in Places \ {"fetched", "cites"} /\ "done" \in Places \ {"fetched", "cites"}
      /\ "lookup" \in Places \ {"fetched", "cites"}
  BY DEF Places
<1>2. mode' \in [Requests -> Modes]
  BY DEF MemoryInv, TypeOK, WriteFails, EndRun, RunRaises, Modes
<1>3. CASE WriteFails(r)
  BY <1>1, <1>2, <1>3 DEF WriteFails, MovesOnly
<1>4. CASE EndRun(r)
  BY <1>1, <1>2, <1>4 DEF EndRun, MovesOnly
<1>5. CASE RunRaises(r)
  BY <1>1, <1>2, <1>5 DEF RunRaises, MovesOnly
<1>6. QED
  BY <1>3, <1>4, <1>5

LEMMA LookupMemory == ASSUME MemoryInv, NEW r \in Requests, Lookup(r) PROVE MemoryInv'
<1> USE DEF MemoryInv
<1>1. Table' = Table
  BY DEF Lookup, Table
<1>2. /\ UNCHANGED <<mode, lag, notes, record, left, settled, overlapped>>
      /\ due' = [due EXCEPT ![r] = settled \ overlapped]
  BY DEF Lookup
<1>3. \/ Hits /\ pc' = [pc EXCEPT ![r] = "cites"] /\ got' = [got EXCEPT ![r] = record]
      \/ pc' = [pc EXCEPT ![r] = "fetch"] /\ got' = got
  BY DEF Lookup, Go, Take
<1>4. TypeOK'
  <2>1. pc' \in [Requests -> Places]
    BY <1>3 DEF TypeOK, Places
  <2>2. got' \in [Requests -> SUBSET Table]
    BY <1>3 DEF TypeOK
  <2>3. due' \in [Requests -> SUBSET settled]
    BY <1>2 DEF TypeOK
  <2>4. QED
    BY <1>1, <1>2, <2>1, <2>2, <2>3 DEF TypeOK
<1>5. \A q \in Requests : q # r => pc'[q] = pc[q] /\ got'[q] = got[q] /\ due'[q] = due[q]
  BY <1>2, <1>3 DEF TypeOK
<1>6. pc'[r] # "fetched"
  BY <1>3 DEF TypeOK
<1>7. FetchedInv'
  BY <1>1, <1>2, <1>5, <1>6 DEF FetchedInv
<1>8. RecordInv'
  BY <1>1, <1>2 DEF RecordInv
<1>9. pc'[r] \in {"fetched", "cites"} => ~Misses(got'[r], due'[r])
  <2>1. CASE Hits /\ pc' = [pc EXCEPT ![r] = "cites"] /\ got' = [got EXCEPT ![r] = record]
    <3>1. got'[r] = record /\ due'[r] = settled \ overlapped
      BY <1>2, <2>1 DEF TypeOK
    <3>2. ~Misses(record, settled \ overlapped)
      BY <2>1 DEF RecordInv, Hits
    <3>3. QED
      BY <3>1, <3>2
  <2>2. CASE pc' = [pc EXCEPT ![r] = "fetch"]
    BY <2>2 DEF TypeOK
  <2>3. QED
    BY <1>3, <2>1, <2>2
<1>10. DueInv'
  BY <1>5, <1>9 DEF DueInv
<1>11. QED
  BY <1>1, <1>4, <1>7, <1>8, <1>10

LEMMA FetchMemory == ASSUME MemoryInv, NEW r \in Requests, Fetch(r) PROVE MemoryInv'
<1> USE DEF MemoryInv
<1>1. Table' = Table
  BY DEF Fetch, Table
<1>2. /\ UNCHANGED <<mode, due, notes, record, left, settled, overlapped>>
      /\ pc' = [pc EXCEPT ![r] = "fetched"] /\ lag' = [lag EXCEPT ![r] = 0]
  BY DEF Fetch, Go
<1>3. PICK k \in {TopK, Cardinality(Table)} :
           \E S \in kSubset(k, Table) : got' = [got EXCEPT ![r] = S]
  BY DEF Fetch, Take
<1> PICK S \in kSubset(k, Table) : got' = [got EXCEPT ![r] = S]
  BY <1>3
<1>4. S \in SUBSET Table /\ Cardinality(S) = k
  BY DEF kSubset
<1>5. Cardinality(S) = TopK \/ S = Table
  BY <1>4, FS_Subset
<1>6. TypeOK'
  <2>1. pc' \in [Requests -> Places]
    BY <1>2 DEF TypeOK, Places
  <2>2. got' \in [Requests -> SUBSET Table]
    BY <1>4 DEF TypeOK
  <2>3. lag' \in [Requests -> 0..MaxLag]
    BY <1>2, BoundsAssumption DEF TypeOK
  <2>4. QED
    BY <1>1, <1>2, <2>1, <2>2, <2>3 DEF TypeOK
<1>7. \A q \in Requests : q # r => pc'[q] = pc[q] /\ got'[q] = got[q] /\ lag'[q] = lag[q]
  BY <1>2 DEF TypeOK
<1>8. got'[r] = S
  BY DEF TypeOK
<1>9. \A T \in SUBSET Table : ~Misses(got'[r], T)
  BY <1>5, <1>8 DEF Misses
<1>10. FetchedInv'
  <2>1. /\ ~Misses(got'[r], Table' \ overlapped')
        /\ ~Misses(got'[r], {n \in Table' : notes'[n] > lag'[r]})
    BY <1>1, <1>9
  <2>2. QED
    BY <1>1, <1>2, <1>7, <2>1 DEF FetchedInv
<1>11. DueInv'
  <2>1. due[r] \in SUBSET Table
    BY DEF TypeOK
  <2>2. ~Misses(got'[r], due'[r])
    BY <1>2, <1>9, <2>1
  <2>3. QED
    BY <1>2, <1>7, <2>2 DEF DueInv
<1>12. RecordInv'
  BY <1>1, <1>2 DEF RecordInv
<1>13. QED
  BY <1>1, <1>6, <1>10, <1>11, <1>12

LEMMA MissesLess ==
  ASSUME NEW S, NEW T, NEW U \in SUBSET T, ~Misses(S, T)
  PROVE  ~Misses(S, U)
  BY DEF Misses

LEMMA FillMemory == ASSUME MemoryInv, NEW r \in Requests, Fill(r) PROVE MemoryInv'
<1> USE DEF MemoryInv
<1>1. Table' = Table
  BY DEF Fill, Table
<1>2. /\ UNCHANGED <<mode, got, due, lag, notes, settled, overlapped>>
      /\ pc' = [pc EXCEPT ![r] = "cites"] /\ pc[r] = "fetched"
      /\ record' = got[r] /\ left' = Ttl
  BY DEF Fill, Go
<1>3. TypeOK'
  <2>1. pc' \in [Requests -> Places]
    BY <1>2 DEF TypeOK, Places
  <2>2. left' \in 0..Ttl /\ record' \subseteq Table
    BY <1>2, BoundsAssumption DEF TypeOK
  <2>3. QED
    BY <1>1, <1>2, <2>1, <2>2 DEF TypeOK
<1>4. \A q \in Requests : q # r => pc'[q] = pc[q]
  BY <1>2 DEF TypeOK
<1>5. pc'[r] = "cites"
  BY <1>2 DEF TypeOK
<1>6. FetchedInv'
  BY <1>1, <1>2, <1>4, <1>5 DEF FetchedInv
<1>7. DueInv'
  BY <1>2, <1>4, <1>5 DEF DueInv
<1>8. RecordInv'
  <2>1. ~Misses(got[r], Table \ overlapped) /\ ~Misses(got[r], {n \in Table : notes[n] > lag[r]})
    BY <1>2 DEF FetchedInv
  <2>2. settled \ overlapped \in SUBSET (Table \ overlapped)
    BY DEF TypeOK
  <2>3. {n \in Table : notes[n] > Ttl - Ttl + MaxLag} \in SUBSET {n \in Table : notes[n] > lag[r]}
    <3>1. lag[r] \in 0..MaxLag /\ \A n \in Table : notes[n] \in 0..OldestAge
      BY DEF TypeOK
    <3>2. \A n \in Table : notes[n] > Ttl - Ttl + MaxLag => notes[n] > lag[r]
      BY <3>1, BoundsAssumption DEF OldestAge
    <3>3. QED
      BY <3>2
  <2>4. ~Misses(got[r], settled \ overlapped)
    BY <2>1, <2>2, MissesLess
  <2>5. ~Misses(got[r], {n \in Table : notes[n] > Ttl - Ttl + MaxLag})
    BY <2>1, <2>3, MissesLess
  <2>6. QED
    BY <1>1, <1>2, <2>4, <2>5 DEF RecordInv
<1>9. QED
  BY <1>1, <1>3, <1>6, <1>7, <1>8

LEMMA NoNotesMemory == ASSUME MemoryInv, NEW r \in Requests, NoNotes(r) PROVE MemoryInv'
<1> USE DEF MemoryInv
<1>1. Table' = Table
  BY DEF NoNotes, Table
<1>2. /\ UNCHANGED <<mode, lag, notes, record, left, settled, overlapped>>
      /\ pc' = [pc EXCEPT ![r] = "cites"] /\ got' = [got EXCEPT ![r] = {}]
      /\ due' = [due EXCEPT ![r] = {}]
  BY DEF NoNotes, Go, Take
<1>3. TypeOK'
  <2>1. pc' \in [Requests -> Places]
    BY <1>2 DEF TypeOK, Places
  <2>2. got' \in [Requests -> SUBSET Table]
    BY <1>2 DEF TypeOK
  <2>3. due' \in [Requests -> SUBSET settled]
    BY <1>2 DEF TypeOK
  <2>4. QED
    BY <1>1, <1>2, <2>1, <2>2, <2>3 DEF TypeOK
<1>4. \A q \in Requests : q # r => pc'[q] = pc[q] /\ got'[q] = got[q] /\ due'[q] = due[q]
  BY <1>2 DEF TypeOK
<1>5. pc'[r] = "cites" /\ due'[r] = {}
  BY <1>2 DEF TypeOK
<1>6. FetchedInv'
  BY <1>1, <1>2, <1>4, <1>5 DEF FetchedInv
<1>7. DueInv'
  BY <1>4, <1>5 DEF DueInv, Misses
<1>8. RecordInv'
  BY <1>1, <1>2 DEF RecordInv
<1>9. QED
  BY <1>1, <1>3, <1>6, <1>7, <1>8

LEMMA CommitMemory == ASSUME MemoryInv, NEW r \in Requests, Commit(r) PROVE MemoryInv'
<1> USE DEF MemoryInv
<1> DEFINE note == [by |-> r, mode |-> mode[r]]
<1>1. /\ UNCHANGED <<mode, got, due, lag, record, left, settled>>
      /\ pc' = [pc EXCEPT ![r] = "committed"]
      /\ notes' = [n \in Table \union {note} |-> IF n = note THEN 0 ELSE notes[n]]
      /\ overlapped' = IF \E q \in Requests : pc[q] = "fetched"
                       THEN overlapped \union {note} ELSE overlapped
  BY DEF Commit, Go
<1>2. note \in Note
  BY DEF TypeOK, Note
<1> HIDE DEF note
<1>3. Table' = Table \union {note} /\ IsFiniteSet(Table')
  <2>1. Table' = Table \union {note}
    BY <1>1 DEF Table
  <2>2. QED
    BY <2>1, FS_AddElement
<1>4. \A n \in Table' : notes'[n] = IF n = note THEN 0 ELSE notes[n]
  BY <1>1, <1>3
<1>5. overlapped \subseteq overlapped' /\ overlapped' \subseteq Table'
  BY <1>1, <1>3 DEF TypeOK
<1>6. TypeOK'
  <2>1. pc' \in [Requests -> Places]
    BY <1>1 DEF TypeOK, Places
  <2>2. Table' \subseteq Note /\ \A n \in Table' : notes'[n] \in 0..OldestAge
    <3>1. 0 \in 0..OldestAge
      BY BoundsAssumption DEF OldestAge
    <3>2. QED
      BY <1>2, <1>3, <1>4, <3>1 DEF TypeOK
  <2>3. got' \in [Requests -> SUBSET Table'] /\ record' \subseteq Table' /\ settled' \subseteq Table'
    BY <1>1, <1>3 DEF TypeOK
  <2>4. QED
    BY <1>1, <1>5, <2>1, <2>2, <2>3 DEF TypeOK
<1>7. \A a \in Nat : {n \in Table' : notes'[n] > a} \in SUBSET {n \in Table : notes[n] > a}
  <2> SUFFICES ASSUME NEW a \in Nat, NEW n \in Table', notes'[n] > a
               PROVE  n \in Table /\ notes[n] > a
    OBVIOUS
  <2>1. ~(0 > a)
    OBVIOUS
  <2>2. n # note /\ notes[n] > a
    BY <1>4, <2>1
  <2>3. QED
    BY <1>3, <2>2
<1>8. \A q \in Requests : pc'[q] \in {"fetched", "cites"} => pc'[q] = pc[q]
  BY <1>1 DEF TypeOK
<1>9. FetchedInv'
  <2> SUFFICES ASSUME NEW q \in Requests, pc'[q] = "fetched"
               PROVE  /\ ~Misses(got'[q], Table' \ overlapped')
                      /\ ~Misses(got'[q], {n \in Table' : notes'[n] > lag'[q]})
    BY DEF FetchedInv
  <2>1. pc[q] = "fetched"
    BY <1>8
  <2>2. ~Misses(got[q], Table \ overlapped) /\ ~Misses(got[q], {n \in Table : notes[n] > lag[q]})
    BY <2>1 DEF FetchedInv
  <2>3. Table' \ overlapped' \in SUBSET (Table \ overlapped)
    BY <1>1, <1>3, <2>1
  <2>4. lag[q] \in Nat
    BY BoundsAssumption DEF TypeOK
  <2>5. {n \in Table' : notes'[n] > lag[q]} \in SUBSET {n \in Table : notes[n] > lag[q]}
    BY <1>7, <2>4
  <2>6. ~Misses(got[q], Table' \ overlapped')
    BY <2>2, <2>3, MissesLess
  <2>7. ~Misses(got[q], {n \in Table' : notes'[n] > lag[q]})
    BY <2>2, <2>5, MissesLess
  <2>8. QED
    BY <1>1, <2>6, <2>7
<1>10. RecordInv'
  <2> SUFFICES ASSUME left > 0
               PROVE  /\ ~Misses(record, settled \ overlapped')
                      /\ ~Misses(record, {n \in Table' : notes'[n] > Ttl - left + MaxLag})
    BY <1>1 DEF RecordInv
  <2>1. /\ ~Misses(record, settled \ overlapped)
        /\ ~Misses(record, {n \in Table : notes[n] > Ttl - left + MaxLag})
    BY DEF RecordInv
  <2>2. settled \ overlapped' \in SUBSET (settled \ overlapped)
    BY <1>5
  <2>3. Ttl - left + MaxLag \in Nat
    BY BoundsAssumption DEF TypeOK
  <2>4. {n \in Table' : notes'[n] > Ttl - left + MaxLag}
          \in SUBSET {n \in Table : notes[n] > Ttl - left + MaxLag}
    BY <1>7, <2>3
  <2>5. ~Misses(record, settled \ overlapped')
    BY <2>1, <2>2, MissesLess
  <2>6. ~Misses(record, {n \in Table' : notes'[n] > Ttl - left + MaxLag})
    BY <2>1, <2>4, MissesLess
  <2>7. QED
    BY <2>5, <2>6
<1>11. DueInv'
  BY <1>1, <1>8 DEF DueInv
<1>12. QED
  BY <1>3, <1>6, <1>9, <1>10, <1>11

\* Strengthening: a note is committed before its write returns.
CommittedInv ==
  \A r \in Requests : pc[r] = "committed" => [by |-> r, mode |-> mode[r]] \in Table

LEMMA ClearMemory ==
  ASSUME MemoryInv, CommittedInv, NEW r \in Requests, Clear(r)
  PROVE  MemoryInv'
<1> USE DEF MemoryInv
<1>1. /\ Table' = Table
      /\ UNCHANGED <<mode, got, due, lag, notes, overlapped>>
      /\ pc' = [pc EXCEPT ![r] = "written"] /\ record' = {} /\ left' = 0
  BY DEF Clear, Go, Table
<1>2. settled \subseteq settled' /\ settled' \subseteq Table
  BY DEF Clear, CommittedInv, TypeOK
<1>3. TypeOK'
  <2>1. pc' \in [Requests -> Places]
    BY <1>1 DEF TypeOK, Places
  <2>2. due' \in [Requests -> SUBSET settled']
    BY <1>1, <1>2 DEF TypeOK
  <2>3. left' \in 0..Ttl
    BY <1>1, BoundsAssumption
  <2>4. QED
    BY <1>1, <1>2, <2>1, <2>2, <2>3 DEF TypeOK
<1>4. \A q \in Requests : pc'[q] \in {"fetched", "cites"} => pc'[q] = pc[q]
  BY <1>1 DEF TypeOK
<1>5. FetchedInv'
  BY <1>1, <1>4 DEF FetchedInv
<1>6. DueInv'
  BY <1>1, <1>4 DEF DueInv
<1>7. RecordInv'
  BY <1>1 DEF RecordInv
<1>8. QED
  BY <1>1, <1>3, <1>5, <1>6, <1>7

LEMMA TickMemory == ASSUME MemoryInv, Tick PROVE MemoryInv'
<1> USE DEF MemoryInv
<1>1. /\ UNCHANGED <<pc, mode, got, due, record, settled, overlapped>>
      /\ lag' = [r \in Requests |-> IF pc[r] = "fetched" THEN lag[r] + 1 ELSE 0]
      /\ left' = IF left > 0 THEN left - 1 ELSE 0
      /\ Table' = Table
  BY DEF Tick, Table
<1>2. \A n \in Table : notes'[n] = Older(notes[n])
  BY DEF Tick
<1>3. OldestAge \in Nat /\ \A n \in Table : notes[n] \in 0..OldestAge
  BY BoundsAssumption DEF TypeOK, OldestAge
<1>4. \A n \in Table : notes'[n] \in 0..OldestAge /\ notes'[n] <= notes[n] + 1
  BY <1>2, <1>3 DEF Older
<1>5. \A r \in Requests : pc[r] = "fetched" => lag[r] + 1 \in 0..MaxLag
  BY BoundsAssumption DEF Tick, TypeOK
<1>6. TypeOK'
  <2>1. lag' \in [Requests -> 0..MaxLag]
    BY <1>1, <1>5, BoundsAssumption
  <2>2. left' \in 0..Ttl
    BY <1>1, BoundsAssumption DEF TypeOK
  <2>3. QED
    BY <1>1, <1>4, <2>1, <2>2 DEF TypeOK
<1>7. FetchedInv'
  <2> SUFFICES ASSUME NEW q \in Requests, pc[q] = "fetched"
               PROVE  /\ ~Misses(got[q], Table \ overlapped)
                      /\ ~Misses(got[q], {n \in Table : notes'[n] > lag[q] + 1})
    BY <1>1 DEF FetchedInv
  <2>1. ~Misses(got[q], Table \ overlapped) /\ ~Misses(got[q], {n \in Table : notes[n] > lag[q]})
    BY DEF FetchedInv
  <2>2. lag[q] \in Int
    BY DEF TypeOK
  <2>3. {n \in Table : notes'[n] > lag[q] + 1} \in SUBSET {n \in Table : notes[n] > lag[q]}
    BY <1>3, <1>4, <2>2
  <2>4. ~Misses(got[q], {n \in Table : notes'[n] > lag[q] + 1})
    BY <2>1, <2>3, MissesLess
  <2>5. QED
    BY <2>1, <2>4
<1>8. RecordInv'
  <2> SUFFICES ASSUME left' > 0
               PROVE  /\ ~Misses(record, settled \ overlapped)
                      /\ ~Misses(record, {n \in Table : notes'[n] > Ttl - left' + MaxLag})
    BY <1>1 DEF RecordInv
  <2>1. left > 0 /\ left' = left - 1 /\ left \in Int
    BY <1>1 DEF TypeOK
  <2>2. /\ ~Misses(record, settled \ overlapped)
        /\ ~Misses(record, {n \in Table : notes[n] > Ttl - left + MaxLag})
    BY <2>1 DEF RecordInv
  <2>3. {n \in Table : notes'[n] > Ttl - left' + MaxLag}
          \in SUBSET {n \in Table : notes[n] > Ttl - left + MaxLag}
    BY <1>3, <1>4, <2>1, BoundsAssumption
  <2>4. ~Misses(record, {n \in Table : notes'[n] > Ttl - left' + MaxLag})
    BY <2>2, <2>3, MissesLess
  <2>5. QED
    BY <2>2, <2>4
<1>9. DueInv'
  BY <1>1 DEF DueInv
<1>10. QED
  BY <1>1, <1>6, <1>7, <1>8, <1>9

LEMMA CrashMemory == ASSUME MemoryInv, Crash PROVE MemoryInv'
<1> USE DEF MemoryInv
<1>1. /\ UNCHANGED <<mode, lag, notes, settled, overlapped>>
      /\ pc' = [r \in Requests |-> "done"] /\ got' = [r \in Requests |-> {}]
      /\ due' = [r \in Requests |-> {}] /\ record' = {} /\ left' = 0
      /\ Table' = Table
  BY DEF Crash, Table
<1>2. TypeOK'
  <2>1. left' \in 0..Ttl
    BY <1>1, BoundsAssumption
  <2>2. pc' \in [Requests -> Places]
    BY <1>1 DEF Places
  <2>3. QED
    BY <1>1, <2>1, <2>2 DEF TypeOK
<1>3. FetchedInv' /\ RecordInv' /\ DueInv'
  BY <1>1 DEF FetchedInv, RecordInv, DueInv
<1>4. QED
  BY <1>1, <1>2, <1>3

\* Every step of a request, of time and of the operating system.
MemoryStep == Tick \/ Crash \/ (\E r \in Requests : Step(r)) \/ UNCHANGED vars

LEMMA StutterMemory == ASSUME MemoryInv, UNCHANGED vars PROVE MemoryInv'
  BY DEF MemoryInv, TypeOK, FetchedInv, RecordInv, DueInv, Table, vars

LEMMA NextMemory == ASSUME MemoryInv, CommittedInv, MemoryStep PROVE MemoryInv'
<1>1. ASSUME NEW r \in Requests, Step(r) PROVE MemoryInv'
  <2>1. CASE WriteFails(r) \/ EndRun(r) \/ RunRaises(r)
    BY <2>1, MovesSteps, MovesOnlyMemory
  <2>2. QED
    BY <1>1, <2>1, LookupMemory, FetchMemory, FillMemory, NoNotesMemory, CommitMemory,
       ClearMemory DEF Step
<1>2. QED
  BY <1>1, TickMemory, CrashMemory, StutterMemory DEF MemoryStep

LEMMA NextCommitted == ASSUME MemoryInv, CommittedInv, MemoryStep PROVE CommittedInv'
<1> USE DEF MemoryInv
<1>1. ASSUME NEW r \in Requests, Step(r) PROVE CommittedInv'
  <2>1. Table \subseteq Table'
    BY <1>1 DEF Step, Lookup, Fetch, Fill, NoNotes, Commit, Clear, WriteFails, EndRun,
                RunRaises, Table
  <2>2. \A q \in Requests : q # r => pc'[q] = pc[q] /\ mode'[q] = mode[q]
    BY <1>1 DEF Step, Lookup, Fetch, Fill, NoNotes, Commit, Clear, WriteFails, EndRun,
                RunRaises, Go, TypeOK
  <2>3. CASE Commit(r)
    <3>1. mode' = mode /\ [by |-> r, mode |-> mode[r]] \in Table'
      BY <2>3 DEF Commit, Table
    <3>2. QED
      BY <2>1, <2>2, <3>1 DEF CommittedInv
  <2>4. CASE ~Commit(r)
    <3>1. pc'[r] # "committed"
      BY <1>1, <2>4 DEF Step, Lookup, Fetch, Fill, NoNotes, Clear, WriteFails, EndRun,
                  RunRaises, Go, TypeOK
    <3>2. QED
      BY <2>1, <2>2, <3>1 DEF CommittedInv
  <2>5. QED
    BY <2>3, <2>4
<1>2. CASE Tick
  BY <1>2 DEF Tick, CommittedInv, Table
<1>3. CASE Crash
  BY <1>3 DEF Crash, CommittedInv
<1>4. CASE UNCHANGED vars
  BY <1>4 DEF vars, CommittedInv, Table
<1>5. QED
  BY <1>1, <1>2, <1>3, <1>4 DEF MemoryStep

LEMMA InitMemory == Init => MemoryInv /\ CommittedInv
<1> SUFFICES ASSUME Init PROVE MemoryInv /\ CommittedInv
  OBVIOUS
<1>1. Table = {} /\ IsFiniteSet(Table)
  BY FS_EmptySet DEF Init, Table
<1>2. TypeOK
  BY <1>1, ModesAssumption, BoundsAssumption DEF Init, TypeOK, Places
<1>3. FetchedInv /\ RecordInv /\ DueInv /\ CommittedInv
  BY DEF Init, FetchedInv, RecordInv, DueInv, CommittedInv
<1>4. QED
  BY <1>1, <1>2, <1>3 DEF MemoryInv

-----------------------------------------------------------------------------
(* The service around them *)

ApiTypeOK ==
  /\ asked \in RunModes
  /\ result \in [Requests -> {"pending", "ok", "ok_with_shadow", "raised"}]
  /\ answer \in [Requests -> {"none", "report", "error", "lost"}]
  /\ reports \subseteq Note /\ store \subseteq Note /\ feedback \subseteq Note
  /\ crashes \in 0..MaxCrashes

LEMMA AskedType == asked \in RunModes => asked \in [Requests -> Modes]
  BY ModesAssumption

LEMMA OwnReportType ==
  ASSUME TypeOK, ApiTypeOK, NEW r \in Requests
  PROVE  OwnReport(r) \in Note /\ [by |-> r, mode |-> mode[r]] \in Note
  BY AskedType DEF TypeOK, ApiTypeOK, OwnReport, Note

LEMMA ServiceInMemory == [ServiceNext]_serviceVars => MemoryStep
<1>1. ASSUME NEW r \in Requests, Serve(r) \/ GetReport(r) \/ SubmitFeedback(r)
      PROVE  Step(r) \/ UNCHANGED vars
  BY <1>1 DEF Serve, RunStep, PersistAndEnd, Raise, Respond, GetReport, SubmitFeedback, Step
<1>2. QED
  BY <1>1 DEF ServiceNext, serviceVars, MemoryStep

LEMMA NextApiType ==
  ASSUME TypeOK, ApiTypeOK, [ServiceNext]_serviceVars
  PROVE  ApiTypeOK'
<1>1. CASE UNCHANGED apiVars
  BY <1>1 DEF ApiTypeOK, apiVars
<1>2. CASE Crash
  BY <1>2, CrashesAssumption DEF Crash, ApiTypeOK
<1>3. ASSUME NEW r \in Requests, PersistAndEnd(r) PROVE ApiTypeOK'
  BY <1>3, OwnReportType DEF PersistAndEnd, CommitReport, Finish, ApiTypeOK
<1>4. ASSUME NEW r \in Requests, Raise(r) PROVE ApiTypeOK'
  BY <1>4 DEF Raise, Finish, ApiTypeOK
<1>5. ASSUME NEW r \in Requests, Respond(r) PROVE ApiTypeOK'
  BY <1>5, OwnReportType DEF Respond, ApiTypeOK
<1>6. ASSUME NEW r \in Requests, GetReport(r) \/ SubmitFeedback(r) PROVE ApiTypeOK'
  BY <1>6, OwnReportType DEF GetReport, SubmitFeedback, ApiTypeOK
<1>7. QED
  BY <1>1, <1>2, <1>3, <1>4, <1>5, <1>6 DEF ServiceNext, serviceVars, Serve, RunStep

\* Strengthening: what the result of a request says of its run, its shadow run
\* and its report.
RunInv ==
  \A r \in Requests :
    /\ result[r] = "pending" => mode[r] = asked[r]
    /\ result[r] = "ok" /\ pc[r] # "done" => mode[r] = "SHADOW" /\ asked[r] = "LIVE"
    /\ result[r] \in {"raised", "ok_with_shadow"} => pc[r] = "done"
    /\ answer[r] # "none" => pc[r] = "done"

ReportInv ==
  \A r \in Requests :
    /\ result[r] \in {"ok", "ok_with_shadow"} => OwnReport(r) \in reports
    /\ result[r] \in {"pending", "raised"} => \A n \in reports : n.by # r
    /\ answer[r] = "report" => result[r] \in {"ok", "ok_with_shadow"}
    /\ answer[r] = "error" => result[r] = "raised"

AttachInv == store \subseteq reports /\ feedback \subseteq reports

\* The steps of a run before its end.
EarlyStep(r) ==
  Lookup(r) \/ Fetch(r) \/ Fill(r) \/ NoNotes(r) \/ Commit(r) \/ Clear(r) \/ WriteFails(r)

LEMMA EarlyStepMoves ==
  ASSUME TypeOK, NEW r \in Requests, EarlyStep(r)
  PROVE  /\ mode' = mode /\ pc[r] # "done" /\ pc'[r] # "done"
         /\ \A q \in Requests : q # r => pc'[q] = pc[q]
  BY DEF TypeOK, EarlyStep, Lookup, Fetch, Fill, NoNotes, Commit, Clear, WriteFails, Go

LEMMA EndRunMoves ==
  ASSUME TypeOK, NEW r \in Requests, EndRun(r)
  PROVE  /\ pc[r] = "written" /\ notes' = notes
         /\ \/ pc'[r] = "done" /\ mode' = mode
            \/ mode[r] = "LIVE" /\ mode'[r] = "SHADOW" /\ pc'[r] = "lookup"
         /\ mode[r] # "LIVE" => pc'[r] = "done"
         /\ \A q \in Requests : q # r => pc'[q] = pc[q] /\ mode'[q] = mode[q]
  BY DEF TypeOK, EndRun, Go, ShadowFollows

LEMMA RunRaisesMoves ==
  ASSUME TypeOK, NEW r \in Requests, RunRaises(r)
  PROVE  /\ pc[r] \in {"cites", "written"} /\ notes' = notes /\ mode' = mode
         /\ pc'[r] = "done"
         /\ \A q \in Requests : q # r => pc'[q] = pc[q]
  BY DEF TypeOK, RunRaises, Go

LEMMA NextRun ==
  ASSUME TypeOK, ApiTypeOK, RunInv, [ServiceNext]_serviceVars
  PROVE  RunInv'
<1>1. CASE UNCHANGED <<pc, mode, asked, result, answer>>
  BY <1>1 DEF RunInv
<1>2. ASSUME NEW r \in Requests, RunStep(r) PROVE RunInv'
  <2>1. UNCHANGED <<asked, result, answer>> /\ EarlyStep(r)
    BY <1>2 DEF RunStep, apiVars, EarlyStep
  <2>2. QED
    BY <2>1, EarlyStepMoves DEF RunInv
<1>3. ASSUME NEW r \in Requests, PersistAndEnd(r) PROVE RunInv'
  <2>1. /\ EndRun(r) /\ asked' = asked /\ answer' = answer
        /\ result' = [result EXCEPT ![r] = IF result[r] = "pending" THEN "ok" ELSE "ok_with_shadow"]
    BY <1>3 DEF PersistAndEnd, Finish, OwnRun
  <2>2. \A q \in Requests : q # r => result'[q] = result[q]
    BY <2>1 DEF ApiTypeOK
  <2>3. result[r] \in {"pending", "ok"} /\ answer[r] = "none"
    BY <2>1, EndRunMoves DEF RunInv, ApiTypeOK
  <2>4. CASE result[r] = "pending"
    <3>1. result'[r] = "ok" /\ mode[r] = asked[r]
      BY <2>1, <2>4 DEF ApiTypeOK, RunInv
    <3>2. QED
      BY <2>1, <2>2, <2>3, <3>1, EndRunMoves DEF RunInv
  <2>5. CASE result[r] = "ok"
    <3>1. result'[r] = "ok_with_shadow" /\ mode[r] = "SHADOW"
      BY <2>1, <2>5, EndRunMoves DEF ApiTypeOK, RunInv
    <3>2. QED
      BY <2>1, <2>2, <2>3, <3>1, EndRunMoves DEF RunInv
  <2>6. QED
    BY <2>3, <2>4, <2>5
<1>4. ASSUME NEW r \in Requests, Raise(r) PROVE RunInv'
  <2>1. /\ RunRaises(r) /\ asked' = asked /\ answer' = answer
        /\ result' = [result EXCEPT ![r] = IF result[r] = "pending" THEN "raised" ELSE result[r]]
    BY <1>4 DEF Raise, Finish, OwnRun
  <2>2. \A q \in Requests : q # r => result'[q] = result[q]
    BY <2>1 DEF ApiTypeOK
  <2>3. result'[r] \in {"raised", result[r]} \ {"pending"}
    BY <2>1 DEF ApiTypeOK
  <2>4. QED
    BY <2>1, <2>2, <2>3, RunRaisesMoves DEF RunInv
<1>5. ASSUME NEW r \in Requests, Respond(r) PROVE RunInv'
  <2>1. /\ UNCHANGED <<pc, mode, asked, result>> /\ pc[r] = "done"
        /\ \A q \in Requests : q # r => answer'[q] = answer[q]
    BY <1>5 DEF Respond, vars, ApiTypeOK
  <2>2. QED
    BY <2>1 DEF RunInv
<1>6. CASE Crash
  <2>1. UNCHANGED <<mode, asked, result>> /\ \A q \in Requests : pc'[q] = "done"
    BY <1>6 DEF Crash
  <2>2. QED
    BY <2>1 DEF RunInv
<1>7. QED
  BY <1>1, <1>2, <1>3, <1>4, <1>5, <1>6
     DEF ServiceNext, serviceVars, vars, apiVars, Serve, Tick, GetReport, SubmitFeedback

LEMMA NextReports ==
  ASSUME TypeOK, ApiTypeOK, RunInv, ReportInv, AttachInv, [ServiceNext]_serviceVars
  PROVE  ReportInv' /\ AttachInv'
<1>1. CASE UNCHANGED apiVars
  BY <1>1 DEF ReportInv, AttachInv, apiVars, OwnReport
<1>2. ASSUME NEW r \in Requests, PersistAndEnd(r) PROVE ReportInv' /\ AttachInv'
  <2> DEFINE row == [by |-> r, mode |-> mode[r]]
  <2>1. /\ EndRun(r) /\ UNCHANGED <<asked, answer, store, feedback>>
        /\ result' = [result EXCEPT ![r] = IF result[r] = "pending" THEN "ok" ELSE "ok_with_shadow"]
        /\ reports' = reports \union {row}
    BY <1>2 DEF PersistAndEnd, Finish, OwnRun, CommitReport
  <2>2. /\ \A q \in Requests : q # r => result'[q] = result[q] /\ row.by # q
        /\ result'[r] \in {"ok", "ok_with_shadow"}
    BY <2>1 DEF ApiTypeOK
  <2>3. result[r] \in {"pending", "ok"} /\ answer[r] = "none"
    BY <2>1, EndRunMoves DEF RunInv, ApiTypeOK
  <2>4. OwnReport(r) \in reports'
    <3>1. CASE result[r] = "pending"
      BY <2>1, <3>1 DEF RunInv, OwnReport
    <3>2. CASE result[r] = "ok"
      BY <2>1, <3>2 DEF ReportInv
    <3>3. QED
      BY <2>3, <3>1, <3>2
  <2>5. \A q \in Requests : OwnReport(q)' = OwnReport(q)
    BY <2>1 DEF OwnReport
  <2> HIDE DEF row
  <2>6. ReportInv'
    BY <2>1, <2>2, <2>3, <2>4, <2>5 DEF ReportInv
  <2>7. AttachInv'
    BY <2>1 DEF AttachInv
  <2>8. QED
    BY <2>6, <2>7
<1>3. ASSUME NEW r \in Requests, Raise(r) PROVE ReportInv' /\ AttachInv'
  <2>1. /\ RunRaises(r) /\ UNCHANGED <<asked, answer, reports, store, feedback>>
        /\ result' = [result EXCEPT ![r] = IF result[r] = "pending" THEN "raised" ELSE result[r]]
    BY <1>3 DEF Raise, Finish, OwnRun
  <2>2. \A q \in Requests : q # r => result'[q] = result[q]
    BY <2>1 DEF ApiTypeOK
  <2>3. \/ result[r] = "pending" /\ result'[r] = "raised"
        \/ result'[r] = result[r]
    BY <2>1 DEF ApiTypeOK
  <2>4. QED
    BY <2>1, <2>2, <2>3 DEF ReportInv, AttachInv, OwnReport
<1>4. ASSUME NEW r \in Requests, Respond(r) PROVE ReportInv' /\ AttachInv'
  <2>1. /\ UNCHANGED <<asked, result, reports, feedback>>
        /\ \A q \in Requests : q # r => answer'[q] = answer[q]
        /\ \/ /\ result[r] \in {"ok", "ok_with_shadow"} /\ answer'[r] = "report"
              /\ store' = store \union {OwnReport(r)}
           \/ result[r] = "raised" /\ answer'[r] = "error" /\ store' = store
    BY <1>4 DEF Respond, ApiTypeOK
  <2>2. QED
    BY <2>1 DEF ReportInv, AttachInv, OwnReport
<1>5. ASSUME NEW r \in Requests, GetReport(r) \/ SubmitFeedback(r) PROVE ReportInv' /\ AttachInv'
  <2>1. UNCHANGED <<asked, result, answer, reports>>
    BY <1>5 DEF GetReport, SubmitFeedback
  <2>2. store' \subseteq reports /\ feedback' \subseteq reports
    BY <1>5 DEF GetReport, SubmitFeedback, AttachInv
  <2>3. QED
    BY <2>1, <2>2 DEF ReportInv, AttachInv, OwnReport
<1>6. CASE Crash
  <2>1. UNCHANGED <<asked, result, reports, feedback>> /\ store' = {}
        /\ \A q \in Requests : answer'[q] \in {"lost", answer[q]}
    BY <1>6 DEF Crash
  <2>2. QED
    BY <2>1 DEF ReportInv, AttachInv, OwnReport
<1>7. QED
  BY <1>1, <1>2, <1>3, <1>4, <1>5, <1>6 DEF ServiceNext, serviceVars, Serve, RunStep

-----------------------------------------------------------------------------
(* Orphaned notes *)

Excused(n) ==
  \/ pc[n.by] \in {"committed", "written"} /\ mode[n.by] = n.mode
  \/ n = OwnReport(n.by) /\ (result[n.by] = "raised" \/ answer[n.by] = "lost")
  \/ n # OwnReport(n.by) /\ result[n.by] = "ok" /\ pc[n.by] = "done"

OrphanInv == \A n \in Table \ reports : Excused(n)

\* While a run goes on, the orphans of its request are its own note.
LEMMA OnlyOwnOrphan ==
  ASSUME TypeOK, ApiTypeOK, RunInv, OrphanInv, NEW n \in Table \ reports, pc[n.by] # "done"
  PROVE  pc[n.by] \in {"committed", "written"} /\ n = [by |-> n.by, mode |-> mode[n.by]]
<1>1. n.by \in Requests /\ n = [by |-> n.by, mode |-> n.mode]
  BY DEF TypeOK, Note
<1>2. result[n.by] # "raised" /\ answer[n.by] # "lost"
  BY <1>1 DEF RunInv
<1>3. pc[n.by] \in {"committed", "written"} /\ mode[n.by] = n.mode
  BY <1>2 DEF OrphanInv, Excused
<1>4. QED
  BY <1>1, <1>3

LEMMA EarlyStepOrphans ==
  ASSUME TypeOK, ApiTypeOK, RunInv, OrphanInv,
         NEW r \in Requests, EarlyStep(r), UNCHANGED apiVars
  PROVE  OrphanInv'
<1>1. /\ mode' = mode /\ pc[r] # "done"
      /\ \A q \in Requests : q # r => pc'[q] = pc[q]
  BY EarlyStepMoves
<1>2. UNCHANGED <<asked, result, answer, reports>>
  BY DEF apiVars
<1>3. ASSUME NEW n \in Table \ reports PROVE Excused(n)'
  <2>1. n.by \in Requests
    BY DEF TypeOK, Note
  <2>2. CASE n.by = r
    <3>1. pc[r] \in {"committed", "written"} /\ n.mode = mode[r]
      BY <1>1, <2>2, OnlyOwnOrphan DEF TypeOK, Note
    <3>2. pc'[r] \in {"committed", "written"}
      BY <3>1 DEF TypeOK, EarlyStep, Lookup, Fetch, Fill, NoNotes, Commit, Clear, WriteFails, Go
    <3>3. QED
      BY <1>1, <2>2, <3>1, <3>2 DEF Excused
  <2>3. CASE n.by # r
    BY <1>1, <1>2, <2>1, <2>3 DEF OrphanInv, Excused, OwnReport
  <2>4. QED
    BY <2>2, <2>3
<1>4. CASE Commit(r)
  <2> DEFINE note == [by |-> r, mode |-> mode[r]]
  <2>1. Table' = Table \union {note}
    BY <1>4 DEF Commit, Table
  <2>2. pc'[r] = "committed"
    BY <1>4 DEF Commit, Go, TypeOK
  <2>3. ASSUME NEW n, n = note PROVE Excused(n)'
    BY <1>1, <2>2, <2>3 DEF Excused
  <2>4. ASSUME NEW n \in Table' \ reports' PROVE Excused(n)'
    BY <1>2, <1>3, <2>1, <2>3, <2>4
  <2>5. QED
    BY <2>4 DEF OrphanInv
<1>5. CASE ~Commit(r)
  <2>1. Table' = Table
    BY <1>5 DEF EarlyStep, Lookup, Fetch, Fill, NoNotes, Clear, WriteFails, Table
  <2>2. QED
    BY <1>2, <1>3, <2>1 DEF OrphanInv
<1>6. QED
  BY <1>4, <1>5

LEMMA PersistOrphans ==
  ASSUME TypeOK, ApiTypeOK, RunInv, OrphanInv, NEW r \in Requests, PersistAndEnd(r)
  PROVE  OrphanInv'
<1>1. /\ EndRun(r) /\ UNCHANGED <<asked, answer>>
      /\ reports' = reports \union {[by |-> r, mode |-> mode[r]]}
      /\ \A q \in Requests : q # r => result'[q] = result[q]
  BY DEF PersistAndEnd, Finish, CommitReport, ApiTypeOK
<1>2. Table' = Table /\ pc[r] = "written"
      /\ \A q \in Requests : q # r => pc'[q] = pc[q] /\ mode'[q] = mode[q]
  BY <1>1, EndRunMoves DEF Table
<1>3. ASSUME NEW n \in Table \ reports' PROVE Excused(n)'
  <2>1. n.by \in Requests /\ n \notin reports
    BY <1>1 DEF TypeOK, Note
  <2>2. n.by # r
    BY <1>1, <1>2, <2>1, OnlyOwnOrphan
  <2>3. QED
    BY <1>1, <1>2, <2>1, <2>2 DEF OrphanInv, Excused, OwnReport
<1>4. QED
  BY <1>2, <1>3 DEF OrphanInv

LEMMA RaiseOrphans ==
  ASSUME TypeOK, ApiTypeOK, RunInv, OrphanInv, NEW r \in Requests, Raise(r)
  PROVE  OrphanInv'
<1>1. /\ RunRaises(r) /\ UNCHANGED <<asked, answer, reports>>
      /\ result' = [result EXCEPT ![r] = IF result[r] = "pending" THEN "raised" ELSE result[r]]
  BY DEF Raise, Finish, OwnRun
<1>2. Table' = Table /\ mode' = mode /\ pc[r] # "done" /\ pc'[r] = "done"
      /\ \A q \in Requests : q # r => pc'[q] = pc[q] /\ result'[q] = result[q]
  BY <1>1, RunRaisesMoves DEF Table, ApiTypeOK
<1>3. ASSUME NEW n \in Table \ reports PROVE Excused(n)'
  <2>1. n.by \in Requests
    BY DEF TypeOK, Note
  <2>2. CASE n.by = r
    <3>1. n = [by |-> r, mode |-> mode[r]]
      BY <1>2, <2>2, OnlyOwnOrphan
    <3>2. CASE result[r] = "pending"
      <4>1. result'[r] = "raised" /\ mode[r] = asked[r]
        BY <1>1, <2>1, <2>2, <3>2 DEF ApiTypeOK, RunInv
      <4>2. QED
        BY <1>1, <2>2, <3>1, <4>1 DEF Excused, OwnReport
    <3>3. CASE result[r] = "ok"
      <4>1. result'[r] = "ok" /\ mode[r] = "SHADOW" /\ asked[r] = "LIVE"
        BY <1>1, <1>2, <2>1, <2>2, <3>3 DEF ApiTypeOK, RunInv
      <4>2. n # OwnReport(r)' /\ n.by = r
        BY <1>1, <3>1, <4>1 DEF OwnReport
      <4>3. QED
        BY <1>2, <4>1, <4>2 DEF Excused
    <3>4. QED
      BY <1>2, <2>1, <2>2, <3>2, <3>3 DEF RunInv, ApiTypeOK
  <2>3. CASE n.by # r
    BY <1>1, <1>2, <2>1, <2>3 DEF OrphanInv, Excused, OwnReport
  <2>4. QED
    BY <2>2, <2>3
<1>4. QED
  BY <1>1, <1>2, <1>3 DEF OrphanInv

LEMMA CrashOrphans ==
  ASSUME TypeOK, ApiTypeOK, RunInv, OrphanInv, Crash
  PROVE  OrphanInv'
<1>1. /\ UNCHANGED <<mode, asked, result, reports>> /\ Table' = Table
      /\ \A q \in Requests : pc'[q] = "done"
      /\ \A q \in Requests : answer'[q] = IF answer[q] = "none" THEN "lost" ELSE answer[q]
  BY DEF Crash, Table, InFlight
<1>2. ASSUME NEW n \in Table \ reports PROVE Excused(n)'
  <2>1. n.by \in Requests
    BY DEF TypeOK, Note
  <2>2. CASE pc[n.by] # "done"
    <3>1. n = [by |-> n.by, mode |-> mode[n.by]]
      BY <2>2, OnlyOwnOrphan
    <3>2. answer'[n.by] = "lost"
      BY <1>1, <2>1, <2>2 DEF RunInv
    <3>3. CASE mode[n.by] = asked[n.by]
      BY <1>1, <3>1, <3>2, <3>3 DEF Excused, OwnReport
    <3>4. CASE mode[n.by] # asked[n.by]
      <4>1. result[n.by] = "ok"
        BY <2>1, <2>2, <3>4 DEF RunInv, ApiTypeOK
      <4>2. n # OwnReport(n.by)'
        BY <1>1, <3>1, <3>4 DEF OwnReport
      <4>3. QED
        BY <1>1, <2>1, <4>1, <4>2 DEF Excused
    <3>5. QED
      BY <3>3, <3>4
  <2>3. CASE pc[n.by] = "done"
    BY <1>1, <2>1, <2>3 DEF OrphanInv, Excused, OwnReport
  <2>4. QED
    BY <2>2, <2>3
<1>3. QED
  BY <1>1, <1>2 DEF OrphanInv

LEMMA NextOrphans ==
  ASSUME TypeOK, ApiTypeOK, RunInv, OrphanInv, [ServiceNext]_serviceVars
  PROVE  OrphanInv'
<1>1. CASE UNCHANGED <<pc, mode, asked, result, answer, reports>> /\ Table' = Table
  BY <1>1 DEF OrphanInv, Excused, OwnReport
<1>2. ASSUME NEW r \in Requests, RunStep(r) PROVE OrphanInv'
  BY <1>2, EarlyStepOrphans DEF RunStep, EarlyStep
<1>3. ASSUME NEW r \in Requests, Respond(r) PROVE OrphanInv'
  <2>1. /\ UNCHANGED <<pc, mode, asked, result, reports>> /\ Table' = Table
        /\ \A q \in Requests : answer[q] = "lost" => answer'[q] = "lost"
    BY <1>3 DEF Respond, vars, Table, ApiTypeOK, InFlight
  <2>2. \A n \in Table : n.by \in Requests
    BY DEF TypeOK, Note
  <2>3. QED
    BY <2>1, <2>2 DEF OrphanInv, Excused, OwnReport
<1>4. CASE UNCHANGED serviceVars
  BY <1>1, <1>4 DEF serviceVars, vars, apiVars, Table
<1>5. CASE Tick /\ UNCHANGED apiVars
  BY <1>1, <1>5 DEF Tick, apiVars, Table
<1>6. ASSUME NEW r \in Requests, GetReport(r) \/ SubmitFeedback(r) PROVE OrphanInv'
  BY <1>1, <1>6 DEF GetReport, SubmitFeedback, vars, Table
<1>7. QED
  BY <1>2, <1>3, <1>4, <1>5, <1>6, CrashOrphans, PersistOrphans, RaiseOrphans
     DEF ServiceNext, Serve

-----------------------------------------------------------------------------
(* The theorems *)

IInv ==
  /\ MemoryInv /\ CommittedInv
  /\ ApiTypeOK /\ RunInv /\ ReportInv /\ AttachInv /\ OrphanInv

LEMMA InitService == ServiceInit => IInv
<1> SUFFICES ASSUME ServiceInit PROVE IInv
  OBVIOUS
<1>1. MemoryInv /\ CommittedInv
  BY InitMemory DEF ServiceInit
<1>2. mode \in RunModes /\ Table = {}
  BY DEF ServiceInit, Init, Table
<1>3. ApiTypeOK
  BY <1>2, CrashesAssumption DEF ServiceInit, ApiTypeOK
<1>4. RunInv /\ ReportInv /\ AttachInv /\ OrphanInv
  BY <1>2 DEF ServiceInit, RunInv, ReportInv, AttachInv, OrphanInv
<1>5. QED
  BY <1>1, <1>3, <1>4 DEF IInv

LEMMA Inductive == ServiceSpec => []IInv
<1>1. IInv /\ [ServiceNext]_serviceVars => IInv'
  <2> SUFFICES ASSUME IInv, [ServiceNext]_serviceVars PROVE IInv'
    OBVIOUS
  <2>1. MemoryStep
    BY ServiceInMemory
  <2>2. MemoryInv' /\ CommittedInv'
    BY <2>1, NextMemory, NextCommitted DEF IInv
  <2>3. QED
    BY <2>2, NextApiType, NextRun, NextReports, NextOrphans DEF IInv, MemoryInv
<1>2. QED
  BY <1>1, InitService, PTL DEF ServiceSpec

\* Every variable of the service has its type, through any crashes.
THEOREM ServiceTypeCorrect == ServiceSpec => []ServiceTypeOK
<1>1. IInv => ServiceTypeOK
  BY DEF IInv, MemoryInv, ApiTypeOK, ServiceTypeOK
<1>2. QED
  BY <1>1, Inductive, PTL

\* A client that got a report finds it in the database ever after; one that got
\* an error left none there.
THEOREM TruthfulAnswers == ServiceSpec => []AnswersAreTruthful
<1>1. IInv => AnswersAreTruthful
  BY DEF IInv, ReportInv, AnswersAreTruthful
<1>2. QED
  BY <1>1, Inductive, PTL

\* Feedback is about reports of the database.
THEOREM AttachedFeedback == ServiceSpec => []FeedbackIsAttached
<1>1. IInv => FeedbackIsAttached
  BY DEF IInv, AttachInv, FeedbackIsAttached
<1>2. QED
  BY <1>1, Inductive, PTL

\* A note without its report comes from a run that is not over, that raised, or
\* that a crash cut off.
THEOREM ExcusedOrphans == ServiceSpec => []OrphansComeFromFailures
<1>1. IInv => OrphansComeFromFailures
  BY DEF IInv, OrphanInv, Excused, OrphansComeFromFailures
<1>2. QED
  BY <1>1, Inductive, PTL

\* A run that has fewer than TopK notes misses only such as were committed while
\* some reader was between the table and the cache.
THEOREM HiddenByOverlap == ServiceSpec => []OnlyOverlapHidesNotes
<1>1. IInv => OnlyOverlapHidesNotes
  BY DEF IInv, MemoryInv, DueInv, Misses, OnlyOverlapHidesNotes, Full
<1>2. QED
  BY <1>1, Inductive, PTL

\* And no such note is missed once it is older than a TTL and a lag.
THEOREM BoundedStaleness == ServiceSpec => StalenessIsBounded
<1> DEFINE Old == {n \in Table : notes[n] > Ttl + MaxLag}
<1>1. ASSUME IInv, NEW r \in Requests, Hits, Lookup(r)
      PROVE  Cardinality(got'[r]) = TopK \/ Old \subseteq got'[r]
  <2>1. pc' = [pc EXCEPT ![r] = "cites"] /\ got' = [got EXCEPT ![r] = record]
    BY <1>1 DEF Lookup, Go, Take
  <2>2. got'[r] = record
    BY <1>1, <2>1 DEF IInv, MemoryInv, TypeOK
  <2>3. ~Misses(record, {n \in Table : notes[n] > Ttl - left + MaxLag})
    BY <1>1 DEF IInv, MemoryInv, RecordInv, Hits
  <2>4. Old \in SUBSET {n \in Table : notes[n] > Ttl - left + MaxLag}
    <3>1. left \in Nat /\ \A n \in Table : notes[n] \in Int
      BY <1>1, BoundsAssumption DEF IInv, MemoryInv, TypeOK, OldestAge
    <3>2. QED
      BY <3>1, BoundsAssumption
  <2>5. QED
    BY <2>2, <2>3, <2>4, MissesLess DEF Misses
<1>2. ASSUME IInv, NEW r \in Requests, Fill(r)
      PROVE  Cardinality(got'[r]) = TopK \/ Old \subseteq got'[r]
  <2>1. got' = got /\ pc[r] = "fetched"
    BY <1>2 DEF Fill
  <2>2. ~Misses(got[r], {n \in Table : notes[n] > lag[r]})
    BY <1>2, <2>1 DEF IInv, MemoryInv, FetchedInv
  <2>3. Old \in SUBSET {n \in Table : notes[n] > lag[r]}
    <3>1. lag[r] \in 0..MaxLag /\ \A n \in Table : notes[n] \in Int
      BY <1>2, BoundsAssumption DEF IInv, MemoryInv, TypeOK, OldestAge
    <3>2. QED
      BY <3>1, BoundsAssumption
  <2>4. QED
    BY <2>1, <2>2, <2>3, MissesLess DEF Misses
<1>3. IInv => [\A r \in Requests :
                 (Hits /\ Lookup(r)) \/ Fill(r) =>
                   \/ Cardinality(got'[r]) = TopK
                   \/ {n \in Table : notes[n] > Ttl + MaxLag} \subseteq got'[r]]_vars
  BY <1>1, <1>2
<1>4. QED
  BY <1>3, Inductive, PTL DEF StalenessIsBounded
=============================================================================
