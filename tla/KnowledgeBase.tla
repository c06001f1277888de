------------------------------ MODULE KnowledgeBase ------------------------------
(***************************************************************************)
(* Documents of a knowledge base: a file or an address is accepted at      *)
(* once, and its text is cut into chunks, embedded and stored behind the   *)
(* request's back, while documents and the base itself may be deleted and  *)
(* the process may stop.                                                   *)
(*                                                                         *)
(* A text is a sequence of paragraphs, a paragraph a sequence of words and *)
(* full stops; the length of each is one.                                  *)
(***************************************************************************)
EXTENDS Integers, Sequences, SequencesExt, FiniteSets

CONSTANTS Docs,            \* documents uploaded
          Deletes, Drops,  \* requests that delete a document, the base
          Texts,           \* texts a document may have
          MaxChunk, Overlap,
          Casts, MaxFaults \* bounds

VARIABLES base,            \* whether the base's row is there
          counts,          \* its documentsCount and chunksCount
          rows,            \* knowledgeDocuments: [doc -> status, chunksCount]
          chunks,          \* knowledgeChunks: [doc -> chunks stored]
          pc, text, held,  \* held: the chunks of a document in work, counts read
          crossed, faults  \* history: counts overlapped or failed; bound

vars == <<base, counts, rows, chunks, pc, text, held, crossed, faults>>

-----------------------------------------------------------------------------
(* ChunkingService                                                         *)

\* The sentences a text is made of: words with the stops that follow them.  A tail
\* without a stop is no sentence, unless the text has none.
Sentences(t) ==
  LET ends == {n \in DOMAIN t : t[n] = "." /\ (n = Len(t) \/ t[n + 1] # ".")}
      After(e) == {n \in ends : n < e}
      From(e) == IF After(e) = {} THEN 1 ELSE 1 + CHOOSE n \in After(e) : \A k \in After(e) : k <= n
      cut == [n \in 1..Cardinality(ends) |->
                LET e == CHOOSE e \in ends : Cardinality(After(e)) = n - 1
                IN  SubSeq(t, From(e), e)]
  IN  IF ends = {} THEN <<t>> ELSE cut

LastOf(t) == SubSeq(t, Len(t) + 1 - (IF Overlap < Len(t) THEN Overlap ELSE Len(t)), Len(t))

splitLongText(t) ==
  LET end == FoldLeft(LAMBDA acc, s :
               IF Len(acc.current) + Len(s) > MaxChunk /\ acc.current # <<>>
               THEN [done |-> Append(acc.done, acc.current), current |-> LastOf(acc.current) \o s]
               ELSE [acc EXCEPT !.current = @ \o s],
               [done |-> <<>>, current |-> <<>>], Sentences(t))
  IN  IF end.current = <<>> THEN end.done ELSE Append(end.done, end.current)

\* Paragraphs are put together up to the size; each chunk but the first starts with
\* the end of the one before it.
\* Mutant: a chunk that is full is not kept.
chunkLossy(paragraphs) ==
  LET end == FoldLeft(LAMBDA acc, part :
               LET flush == acc.current # <<>> /\ Len(acc.current) + Len(part) + 1 > MaxChunk
                   joined == IF flush THEN LastOf(acc.current) \o <<"/">> \o part
                             ELSE IF acc.current = <<>> THEN part ELSE acc.current \o <<"/">> \o part
               IN  IF Len(joined) > MaxChunk
                   THEN [done |-> acc.done \o splitLongText(joined), current |-> <<>>]
                   ELSE [done |-> acc.done, current |-> joined],
               [done |-> <<>>, current |-> <<>>], paragraphs)
  IN  IF end.current = <<>> THEN end.done ELSE Append(end.done, end.current)

chunkText(paragraphs) ==
  LET end == FoldLeft(LAMBDA acc, part :
               LET flush == acc.current # <<>> /\ Len(acc.current) + Len(part) + 1 > MaxChunk
                   kept  == IF flush THEN Append(acc.done, acc.current) ELSE acc.done
                   joined == IF flush THEN LastOf(acc.current) \o <<"/">> \o part
                             ELSE IF acc.current = <<>> THEN part ELSE acc.current \o <<"/">> \o part
               IN  IF Len(joined) > MaxChunk
                   THEN [done |-> kept \o splitLongText(joined), current |-> <<>>]
                   ELSE [done |-> kept, current |-> joined],
               [done |-> <<>>, current |-> <<>>], paragraphs)
  IN  IF end.current = <<>> THEN end.done ELSE Append(end.done, end.current)

-----------------------------------------------------------------------------
Absent == [status |-> "absent", count |-> 0]
Requests == Deletes \cup Drops
Processes == Docs \cup Requests

Goto(p, label) == pc' = [pc EXCEPT ![p] = label]
Counting(p) == pc[p] \in {"count", "counted", "put"}
Fault == faults < MaxFaults /\ faults' = faults + 1
Stored == {d \in Docs : rows[d] # Absent}
AllChunks == LET n[S \in SUBSET Docs] ==
                   IF S = {} THEN 0
                   ELSE LET d == CHOOSE d \in S : TRUE IN Len(chunks[d]) + n[S \ {d}]
             IN  n[Docs]

Init == /\ base = TRUE /\ counts = <<0, 0>>
        /\ rows = [d \in Docs |-> Absent] /\ chunks = [d \in Docs |-> <<>>]
        /\ \E cast \in Casts : pc = [p \in Processes |-> IF p \in cast THEN "idle" ELSE "done"]
        /\ text \in [Docs -> Texts]
        /\ held = [p \in Processes |-> <<>>]
        /\ crossed = FALSE /\ faults = 0

-----------------------------------------------------------------------------
(* A document                                                              *)

\* uploadFile, addUrl: the row is the answer, the rest goes on by itself.
Upload(d) ==
  /\ d \in Docs /\ pc[d] = "idle" /\ base
  /\ rows' = [rows EXCEPT ![d] = [status |-> "processing", count |-> 0]]
  /\ Goto(d, "extract")
  /\ UNCHANGED <<base, counts, chunks, text, held, crossed, faults>>

\* parseFile or parseUrl, and chunkText: no text is an error.
Extract(d) ==
  /\ d \in Docs /\ pc[d] = "extract"
  /\ \/ /\ held' = [held EXCEPT ![d] = chunkText(text[d])]
        /\ Goto(d, IF held'[d] = <<>> THEN "fail" ELSE "embed")
        /\ UNCHANGED <<crossed, faults>>
     \/ Fault /\ Goto(d, "fail") /\ UNCHANGED <<held, crossed>>
  /\ UNCHANGED <<base, counts, rows, chunks, text>>

\* embedBatch: no service or an answer of another length is an error.
Embed(d) ==
  /\ d \in Docs /\ pc[d] = "embed"
  /\ \/ Goto(d, "store") /\ UNCHANGED faults
     \/ Fault /\ Goto(d, "fail")
  /\ UNCHANGED <<base, counts, rows, chunks, text, held, crossed>>

\* The chunks and the status, in one transaction; a document that was deleted has
\* nothing a chunk could belong to.
\* Mutant: the chunks stay when the status cannot be written.
StoreApart(d) ==
  /\ d \in Docs /\ pc[d] = "store"
  /\ \/ /\ rows[d] # Absent
        /\ chunks' = [chunks EXCEPT ![d] = held[d]]
        /\ rows' = [rows EXCEPT ![d] = [status |-> "ready", count |-> Len(held[d])]]
        /\ Goto(d, "count") /\ UNCHANGED <<crossed, faults>>
     \/ rows[d] = Absent /\ Goto(d, "fail") /\ UNCHANGED <<rows, chunks, crossed, faults>>
     \/ /\ rows[d] # Absent /\ Fault /\ chunks' = [chunks EXCEPT ![d] = held[d]]
        /\ Goto(d, "fail") /\ UNCHANGED <<rows, crossed>>
  /\ UNCHANGED <<base, counts, text, held>>

Store(d) ==
  /\ d \in Docs /\ pc[d] = "store"
  /\ \/ /\ rows[d] # Absent
        /\ chunks' = [chunks EXCEPT ![d] = held[d]]
        /\ rows' = [rows EXCEPT ![d] = [status |-> "ready", count |-> Len(held[d])]]
        /\ Goto(d, "count") /\ UNCHANGED <<crossed, faults>>
     \/ rows[d] = Absent /\ Goto(d, "fail") /\ UNCHANGED <<rows, chunks, crossed, faults>>
     \/ Fault /\ Goto(d, "fail") /\ UNCHANGED <<rows, chunks, crossed>>
  /\ UNCHANGED <<base, counts, text, held>>

\* The error is written to the row, if it is there.
Fail(d) ==
  /\ d \in Docs /\ pc[d] = "fail"
  /\ rows' = IF rows[d] = Absent THEN rows ELSE [rows EXCEPT ![d].status = "error"]
  /\ Goto(d, "done")
  /\ UNCHANGED <<base, counts, chunks, text, held, crossed, faults>>

-----------------------------------------------------------------------------
(* Deletions and the counts of the base                                    *)

\* deleteDocument; the chunks go with the row.
Delete(x) ==
  /\ x \in Deletes /\ pc[x] = "idle"
  /\ \E d \in Stored :
       /\ rows' = [rows EXCEPT ![d] = Absent] /\ chunks' = [chunks EXCEPT ![d] = <<>>]
  /\ crossed' = (crossed \/ \E q \in Processes : Counting(q))
  /\ Goto(x, "count")
  /\ UNCHANGED <<base, counts, text, held, faults>>

\* deleteKnowledgeBase; the documents and the chunks go with the row.
Drop(x) ==
  /\ x \in Drops /\ pc[x] = "idle"
  /\ base' = FALSE
  /\ rows' = [d \in Docs |-> Absent] /\ chunks' = [d \in Docs |-> <<>>]
  /\ Goto(x, "done")
  /\ UNCHANGED <<counts, text, held, crossed, faults>>

\* updateKbCounts: two counts are taken, then both are written.
CountDocs(p) ==
  /\ pc[p] = "count"
  /\ held' = [held EXCEPT ![p] = <<Cardinality(Stored)>>]
  /\ Goto(p, "counted")
  /\ crossed' = (crossed \/ \E q \in Processes \ {p} : Counting(q))
  /\ UNCHANGED <<base, counts, rows, chunks, text, faults>>

CountChunks(p) ==
  /\ pc[p] = "counted"
  /\ \/ held' = [held EXCEPT ![p] = Append(@, AllChunks)] /\ Goto(p, "put")
        /\ UNCHANGED <<crossed, faults>>
     \/ Fault /\ crossed' = TRUE /\ Goto(p, "done") /\ UNCHANGED held
  /\ UNCHANGED <<base, counts, rows, chunks, text>>

Put(p) ==
  /\ pc[p] = "put"
  /\ counts' = IF base THEN held[p] ELSE counts
  /\ Goto(p, "done")
  /\ UNCHANGED <<base, rows, chunks, text, held, crossed, faults>>

\* The process stops: nothing takes up the work again.
Crash ==
  /\ Fault
  /\ pc' = [p \in Processes |-> IF pc[p] = "idle" THEN "idle" ELSE "done"]
  /\ crossed' = TRUE
  /\ UNCHANGED <<base, counts, rows, chunks, text, held>>

Next == \/ Crash
        \/ \E p \in Processes :
             \/ Upload(p) \/ Extract(p) \/ Embed(p) \/ Store(p) \/ Fail(p) \/ Delete(p) \/ Drop(p)
             \/ CountDocs(p) \/ CountChunks(p) \/ Put(p)

Spec == Init /\ [][Next]_vars

-----------------------------------------------------------------------------
TypeOK == /\ \A d \in Docs : rows[d].status \in {"absent", "processing", "ready", "error"}
          /\ counts \in Nat \X Nat
          /\ faults \in 0..MaxFaults

Words(t) == {n \in DOMAIN t : t[n] \notin {".", "/"}}
Ended(paragraphs) == \A n \in DOMAIN paragraphs : Last(paragraphs[n]) = "."

\* What a search can find belongs to a document that is ready, whatever fails or is
\* deleted meanwhile, and a ready document can be found by every word of its text when
\* its paragraphs end their sentences.
FoundIfReady ==
  \A d \in Docs :
    /\ chunks[d] # <<>> <=> rows[d].status = "ready"
    /\ rows[d].count = Len(chunks[d])
    /\ rows[d].status = "ready" /\ Ended(text[d]) =>
         \A p \in DOMAIN text[d] : \A n \in Words(text[d][p]) :
            \E k \in DOMAIN chunks[d] : text[d][p][n] \in ToSet(chunks[d][k])

\* When no two counts overlapped and none failed, the base counts as many chunks as its
\* documents have (of the documents it may miss those uploaded since).
CountsKept ==
  base /\ ~crossed /\ (\A p \in Processes : ~Counting(p)) => counts[2] = AllChunks
================================================================================
