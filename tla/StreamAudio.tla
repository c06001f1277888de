---------------------------- MODULE StreamAudio ----------------------------
(***************************************************************************)
(* StreamAudioService: the assistant's voice on its way to the telephone.  *)
(*                                                                         *)
(* Audio arrives in buffers that are queued per session; a processor, an   *)
(* asynchronous loop, takes one buffer after the other and sends it packet *)
(* by packet from a timer.  A caller who starts to speak interrupts it.    *)
(* Each action is what runs between two awaits: the mutex of the service   *)
(* never has to wait, because the code under it does not await anything.   *)
(*                                                                         *)
(* One session; the position of a packet in sent is its RTP sequence       *)
(* number, up to the random start and the wrap at 2^16.                    *)
(***************************************************************************)
EXTENDS Integers, Sequences

CONSTANTS Buffers,      \* bound: buffers that arrive
          Packets,      \* packets of 160 bytes in a buffer
          Starts,       \* bound: times the session is added
          Interrupts    \* bound: times it is interrupted

StreamConstants ==
    /\ Buffers \in Nat /\ Starts \in Nat /\ Interrupts \in Nat
    /\ Packets \in Nat \ {0}

VARIABLES present,   \* streams has the session
          starts,    \* its StreamState objects made so far; the last is the current
          queue,     \* bufferQueue
          busy,      \* isProcessing
          ctl,       \* the current AbortController, numbered
          aborted,   \* controllers that have been aborted
          procs,     \* running processQueue loops, with the controller, the
                     \* StreamState and the buffer each has in hand
          arrived,   \* buffers that have arrived
          sent,      \* <<buffer, packet>> in the order sent
          cut        \* buffers that had arrived at the last interrupt or removal

vars == <<present, starts, queue, busy, ctl, aborted, procs, arrived, sent, cut>>

-----------------------------------------------------------------------------
\* A StreamState is made once; a session that is there keeps its own.
AddStream ==
    /\ ~present
    /\ starts < Starts
    /\ present' = TRUE
    /\ starts' = starts + 1
    /\ queue' = <<>>
    /\ busy' = FALSE
    /\ ctl' = ctl + 1
    /\ UNCHANGED <<aborted, procs, arrived, sent, cut>>

RemoveStream ==
    /\ present
    /\ present' = FALSE
    /\ aborted' = aborted \cup {ctl}
    /\ cut' = 1..arrived
    /\ UNCHANGED <<starts, queue, busy, ctl, procs, arrived, sent>>

MayInterrupt == ctl - starts < Interrupts

\* Mutant: isProcessing is left as it is.
InterruptStreamBusy ==
    /\ present
    /\ MayInterrupt
    /\ aborted' = aborted \cup {ctl}
    /\ queue' = <<>>
    /\ ctl' = ctl + 1
    /\ cut' = 1..arrived
    /\ UNCHANGED <<present, starts, busy, procs, arrived, sent>>

\* Mutant: the queue is not emptied.
InterruptStreamQueued ==
    /\ present
    /\ MayInterrupt
    /\ aborted' = aborted \cup {ctl}
    /\ ctl' = ctl + 1
    /\ busy' = FALSE
    /\ cut' = 1..arrived
    /\ UNCHANGED <<present, starts, queue, procs, arrived, sent>>

\* The loop that runs notices at its next timer tick; until then the next
\* buffer may already start another one.
InterruptStream ==
    /\ present
    /\ MayInterrupt
    /\ aborted' = aborted \cup {ctl}
    /\ queue' = <<>>
    /\ ctl' = ctl + 1
    /\ busy' = FALSE
    /\ cut' = 1..arrived
    /\ UNCHANGED <<present, starts, procs, arrived, sent>>

\* streamAudio queues the buffer.  A processor it starts takes it and sends its
\* first packet at once.  Without the session the buffer is dropped.
StreamAudio ==
    LET b == arrived + 1 IN
    /\ b <= Buffers
    /\ arrived' = b
    /\ \/ /\ ~present
          /\ cut' = cut \cup {b}
          /\ UNCHANGED <<queue, busy, procs, sent>>
       \/ /\ present /\ busy
          /\ queue' = Append(queue, b)
          /\ UNCHANGED <<busy, procs, sent, cut>>
       \/ /\ present /\ ~busy
          /\ busy' = TRUE
          /\ LET q == Append(queue, b) IN
             /\ queue' = Tail(q)
             /\ procs' = procs \cup
                   {[ctl |-> ctl, start |-> starts, buffer |-> Head(q), packet |-> 1]}
             /\ sent' = Append(sent, <<Head(q), 1>>)
          /\ UNCHANGED cut
    /\ UNCHANGED <<present, starts, ctl, aborted>>

\* A loop that ends clears isProcessing of its StreamState, also when another
\* loop has been started for it meanwhile.
Finish(p) ==
    /\ procs' = procs \ {p}
    /\ busy' = IF p.start = starts THEN FALSE ELSE busy
    /\ UNCHANGED <<queue, sent>>

\* A packet goes out only while the session is in the map; the loop runs on.
Send(p, next) ==
    /\ procs' = (procs \ {p}) \cup {next}
    /\ sent' = Append(sent, <<next.buffer, next.packet>>)
    /\ UNCHANGED busy

\* Mutant: one packet too many, past the end of the buffer.
TickPastEnd(p) ==
    /\ \/ /\ p.ctl \notin aborted
          /\ p.packet <= Packets
          /\ Send(p, [p EXCEPT !.packet = @ + 1])
          /\ UNCHANGED queue
       \/ /\ p.ctl \in aborted \/ (p.packet > Packets /\ queue = <<>>)
          /\ Finish(p)
    /\ UNCHANGED <<present, starts, ctl, aborted, arrived, cut>>

\* sendNextPacket from its timer, and the turn of the loop that follows when
\* the buffer is through or the controller aborted.
Tick(p) ==
    /\ \/ /\ p.ctl \notin aborted
          /\ p.packet < Packets
          /\ Send(p, [p EXCEPT !.packet = @ + 1])
          /\ UNCHANGED queue
       \/ /\ p.ctl \notin aborted
          /\ p.packet = Packets
          /\ queue # <<>>
          /\ Send(p, [p EXCEPT !.buffer = Head(queue), !.packet = 1])
          /\ queue' = Tail(queue)
       \/ /\ p.ctl \in aborted \/ (p.packet = Packets /\ queue = <<>>)
          /\ Finish(p)
    /\ UNCHANGED <<present, starts, ctl, aborted, arrived, cut>>

-----------------------------------------------------------------------------
Init ==
    /\ present = FALSE
    /\ starts = 0
    /\ queue = <<>>
    /\ busy = FALSE
    /\ ctl = 0
    /\ aborted = {}
    /\ procs = {}
    /\ arrived = 0
    /\ sent = <<>>
    /\ cut = {}

Next ==
    \/ AddStream \/ RemoveStream \/ InterruptStream \/ StreamAudio
    \/ \E p \in procs : Tick(p)

Spec == Init /\ [][Next]_vars

-----------------------------------------------------------------------------
Processor == [ctl : Nat, start : Nat, buffer : Nat, packet : 1..Packets]

\* Shapes, and the numbering of controllers and StreamStates.
Flags == present \in BOOLEAN /\ busy \in BOOLEAN

Ranges ==
    /\ starts \in Nat /\ ctl \in Nat /\ arrived \in Nat
    /\ queue \in Seq(Nat)
    /\ aborted \subseteq Nat
    /\ procs \subseteq Processor
    /\ sent \in Seq(Nat \X Nat)
    /\ cut \subseteq Nat

TypeOK == Flags /\ Ranges

\* Audio that waits is being worked on: whenever buffers are queued, a loop that
\* has not been aborted runs, however interrupts and ends of loops fall together
\* (the reset of isProcessing in interruptStream is there for this).
AudioFlows == present /\ queue # <<>> => \E p \in procs : p.ctl = ctl /\ p.start = starts

\* After an interrupt or a removal not one more packet of what had arrived before
\* goes out: the caller who speaks is not talked over.
NothingCut == \A i \in Len(sent) + 1 .. Len(sent') : sent'[i][1] \notin cut
InterruptSilences == [][NothingCut]_vars

-----------------------------------------------------------------------------
Current(p) == p.ctl = ctl /\ p.start = starts

\* A session that is there has a controller nobody has aborted, and while it is busy or
\* has something queued, a loop of its own.
LoopInv ==
    /\ aborted \subseteq 0..ctl
    /\ present => ctl \notin aborted
    /\ present /\ (busy \/ queue # <<>>) => \E p \in procs : Current(p)

\* What may still be sent has arrived after the last interrupt or removal.
SilenceInv ==
    /\ cut \subseteq 1..arrived
    /\ \A p \in procs : p.ctl \notin aborted => present /\ p.ctl = ctl /\ p.buffer \notin cut
    /\ present => \A i \in 1..Len(queue) : queue[i] \notin cut

IInv == TypeOK /\ LoopInv /\ SilenceInv
=============================================================================
