-------------------------------- MODULE Dialogs --------------------------------
(***************************************************************************)
(* Who said what in a recording: whether the file has two channels worth   *)
(* separating, the split, the transcription of the whole or of each        *)
(* channel, and the turns of the dialog put together from both.            *)
(*                                                                         *)
(* A recording is its utterances in the order they begin, each on one      *)
(* channel and standing for its words.  Times are quarters of a second.    *)
(* Both sides speak equally loudly, so how loud a channel is over a time   *)
(* is how much of that time it speaks.                                     *)
(***************************************************************************)
EXTENDS Integers, Sequences, SequencesExt, FiniteSets, FiniteSetsExt, Folds

CONSTANTS Sounds,     \* bound: sequences of [side, start, end]
          Files,      \* bound: [wav, channels, same, long], how the sound is stored
          Settings,   \* bound: [mode, map], OPERATOR_STEREO_MODE and _CHANNEL_MAP
          Gap         \* DEFAULT_COALESCE_GAP_SEC, in quarters

VARIABLES sound, file, setting,
          roles,      \* who speaks on which channel
          tools,      \* which of ffmpeg, ffprobe can be run
          probe,      \* isStereoCandidate
          heard,      \* the transcripts: [side -> [timed, segments]]
          turns, source,
          step

vars == <<sound, file, setting, roles, tools, probe, heard, turns, source, step>>

-----------------------------------------------------------------------------
Sides  == {"left", "right"}
Other(role) == IF role = "operator" THEN "customer" ELSE "operator"
Silent == [timed |-> FALSE, segments |-> <<>>]

\* parseStereoDiarizeMode
Mode(raw) == IF raw \in {"off", "dual-stt"} THEN raw ELSE "energy"

\* parseStereoChannelMap: the last pair of a side counts, one side gives the
\* other, two equal sides are not a map.
MapOf(pairs) ==
  LET said == [s \in Sides |-> FoldLeft(LAMBDA r, p : IF p[1] = s THEN p[2] ELSE r, "none", pairs)]
      l == said["left"]
      r == said["right"]
      Pair(a, b) == [s \in Sides |-> IF s = "left" THEN a ELSE b]
  IN  CASE l # "none" /\ r # "none" /\ l # r -> Pair(l, r)
        [] l # "none" /\ r = "none"          -> Pair(l, Other(l))
        [] l = "none" /\ r # "none"          -> Pair(Other(r), r)
        [] OTHER                             -> Pair("operator", "customer")

-----------------------------------------------------------------------------
(* The probe.                                                              *)

\* detectFakeStereoWav: channels that hardly differ; unknown for a very short file.
FakeStereo(f) == f.same /\ f.long

\* probeWithFfprobe counts the channels and compares nothing.
ByTool(f) == f.channels = 2

\* probeAudio
Candidate(f, t) == IF f.wav THEN f.channels = 2 /\ ~FakeStereo(f)
                   ELSE "ffprobe" \in t /\ ByTool(f)

Probe == /\ step = "probe"
         /\ probe' = Candidate(file, tools)
         /\ step' = "transcribe"
         /\ UNCHANGED <<sound, file, setting, roles, tools, heard, turns, source>>

\* splitStereoChannels: ffmpeg, or the samples of a wav file taken apart.
CanSplit == "ffmpeg" \in tools \/ file.wav

\* A channel of a recording whose channels are the same carries everything.
Speaks(side, i) == file.same \/ sound[i].side = side

\* What a provider makes of the utterances it hears, with their times or without.
Segment(i) == [words |-> <<i>>, start |-> sound[i].start, end |-> sound[i].end]
Transcript(heardOnes, timed) ==
  [timed |-> timed,
   segments |-> [k \in 1..Len(heardOnes) |-> Segment(heardOnes[k])]]
On(side) == SelectSeq([i \in 1..Len(sound) |-> i], LAMBDA i : Speaks(side, i))
All == [i \in 1..Len(sound) |-> i]
Words(t) == [k \in 1..Len(t.segments) |-> t.segments[k].words[1]]

-----------------------------------------------------------------------------
(* The turns.                                                              *)

\* normalizeSegments: without times the channel is one segment from its start.
Segments(t) ==
  IF t.timed \/ t.segments = <<>> THEN t.segments
  ELSE <<[words |-> Words(t), start |-> 0, end |-> Last(t.segments).end]>>

\* coalesceAdjacentTurns: a turn joins the previous one of the same speaker after
\* a short pause, and the joined turn ends where the second one does.
\* Mutant: whoever speaks after a short pause joins the turn.
JoinAny(out, turn) ==
  IF out # <<>> /\ turn.start - Last(out).end <= Gap
  THEN [out EXCEPT ![Len(out)].words = @ \o turn.words, ![Len(out)].end = turn.end]
  ELSE Append(out, turn)

Join(out, turn) ==
  IF out # <<>> /\ Last(out).speaker = turn.speaker /\ turn.start - Last(out).end <= Gap
  THEN [out EXCEPT ![Len(out)].words = @ \o turn.words, ![Len(out)].end = turn.end]
  ELSE Append(out, turn)

Coalesce(ts) == FoldLeft(Join, <<>>, ts)

Turn(role, s) == [speaker |-> role, words |-> s.words, start |-> s.start, end |-> s.end]

\* mergeChannelTranscripts: left before right, then by start and end when there
\* are times at all.
Merge(l, r) ==
  LET Turns(side, t) == LET ss == Segments(t)
                        IN  [k \in 1..Len(ss) |-> Turn(roles[side], ss[k])]
      all == Turns("left", l) \o Turns("right", r)
      timed == \E k \in 1..Len(all) : all[k].start > 0 \/ all[k].end > 0
      Earlier(i, j) == \/ all[i].start < all[j].start
                       \/ all[i].start = all[j].start /\ all[i].end < all[j].end
                       \/ all[i].start = all[j].start /\ all[i].end = all[j].end /\ i < j
      Nth(k) == CHOOSE i \in 1..Len(all) : Cardinality({j \in 1..Len(all) : Earlier(j, i)}) = k - 1
  IN  Coalesce(IF timed THEN [k \in 1..Len(all) |-> all[Nth(k)]] ELSE all)

\* isTimestampMergeReliable: more than the two channels one after the other.
Reliable(ts, l, r) ==
  /\ l.timed \/ r.timed
  /\ \/ Len(ts) >= 3 \/ Len(ts) = 1
     \/ Len(ts) = 2 /\ \E k \in 1..2 : ts[k].words \notin {Words(l), Words(r)}

\* pcm16MonoRms: how much of the time from a to b the channel is heard.
Loudness(side, a, b) ==
  MapThenSumSet(LAMBDA i : Max({0, Min({sound[i].end, b}) - Max({sound[i].start, a})}),
                {i \in 1..Len(sound) : Speaks(side, i)})

\* labelSegmentsByChannelEnergy: the louder side speaks, the left one when equal.
LouderSide(s) == IF Loudness("left", s.start, s.end) >= Loudness("right", s.start, s.end)
                 THEN "left" ELSE "right"

Label(t) == Coalesce([k \in 1..Len(t.segments) |->
                        Turn(roles[LouderSide(t.segments[k])], t.segments[k])])

-----------------------------------------------------------------------------
(* transcribePossiblyStereo, and what is stored after the model's answer.  *)

Hear(left, right, dialog, from) ==
  /\ heard' = [s \in Sides |-> IF s = "left" THEN left ELSE right]
  /\ turns' = dialog /\ source' = from
  /\ step' = "store"
  /\ UNCHANGED <<sound, file, setting, roles, tools, probe>>

\* One transcription of the mix, its segments given to the louder side.
Energy ==
  /\ step = "transcribe" /\ probe /\ Mode(setting.mode) = "energy" /\ CanSplit
  /\ \E timed \in BOOLEAN :
        LET t == Transcript(All, timed)
            ts == IF timed THEN Label(t) ELSE <<>>
        IN  Hear(t, Silent, ts, IF ts # <<>> THEN "channel_energy" ELSE "none")

\* A transcription of each channel.
DualStt ==
  /\ step = "transcribe" /\ probe /\ Mode(setting.mode) = "dual-stt" /\ CanSplit
  /\ \E tl, tr \in BOOLEAN :
        LET l == Transcript(On("left"), tl)
            r == Transcript(On("right"), tr)
            ts == Merge(l, r)
        IN  Hear(l, r, IF Reliable(ts, l, r) THEN ts ELSE <<>>, "channel")

\* One transcription: mono, a mode that is off, or a split or request that failed.
Mono ==
  /\ step = "transcribe"
  /\ \E timed \in BOOLEAN : Hear(Transcript(All, timed), Silent, <<>>, "none")

\* resolveDiarizationSource: the turns made from the channels are kept over those
\* of the model, which may be missing.
Store ==
  /\ step = "store"
  /\ \E answered \in BOOLEAN :
       source' = CASE turns # <<>> -> source
                   [] turns = <<>> /\ source = "channel" /\ answered -> "channel_llm"
                   [] turns = <<>> /\ source # "channel" /\ answered -> "llm"
                   [] OTHER -> "none"
  /\ step' = "done"
  /\ UNCHANGED <<sound, file, setting, roles, tools, probe, heard, turns>>

NoFile    == [wav |-> FALSE, channels |-> 1, same |-> TRUE, long |-> FALSE]
NoSetting == [mode |-> "none", map |-> <<>>]

Init == /\ sound = <<>> /\ file = NoFile /\ setting = NoSetting
        /\ roles = MapOf(<<>>) /\ tools = {} /\ probe = FALSE
        /\ heard = [s \in Sides |-> Silent]
        /\ turns = <<>> /\ source = "none"
        /\ step = "idle"

\* A recording comes to an installation as it is set up.
Receive == /\ step = "idle"
           /\ sound' \in Sounds /\ file' \in Files /\ setting' \in Settings
           /\ roles' = MapOf(setting'.map)
           /\ tools' \in SUBSET {"ffmpeg", "ffprobe"}
           /\ step' = "probe"
           /\ UNCHANGED <<probe, heard, turns, source>>

Next == Receive \/ Probe \/ Energy \/ DualStt \/ Mono \/ Store

Spec == Init /\ [][Next]_vars

-----------------------------------------------------------------------------
TypeOK == /\ step \in {"idle", "probe", "transcribe", "store", "done"}
          /\ source \in {"none", "channel", "channel_energy", "channel_llm", "llm"}
          /\ \A k \in 1..Len(turns) : turns[k].speaker \in {"operator", "customer"}

\* Somebody on the other channel speaks at some time of utterance i.
TalkedOver(i) == \E t \in sound[i].start..(sound[i].end - 1), j \in 1..Len(sound) :
                    sound[j].side # sound[i].side /\ sound[j].start <= t /\ t < sound[j].end

\* A dialog made from the channels holds every word that was heard once; a word
\* nobody talked over stands under the speaker of its channel, each speaker's
\* words stand in the order they were said, and turns joined from timed segments
\* begin one after the other.  A wav file with one voice on both channels gives
\* no such dialog.
Holding(i) == {k \in 1..Len(turns) : i \in Range(turns[k].words)}
SpeakersKept ==
  turns # <<>> =>
    /\ roles["left"] # roles["right"]
    /\ file.wav /\ file.long => ~file.same
    /\ \A k \in 2..Len(turns) : turns[k - 1].start <= turns[k].start
    /\ file.same \/
         /\ \A k \in 1..Len(turns) : \A n \in 2..Len(turns[k].words) :
                 turns[k].words[n - 1] < turns[k].words[n]
         /\ \A i \in 1..Len(sound) : \E k \in 1..Len(turns) :
              /\ Holding(i) = {k}
              /\ source = "channel" \/ ~TalkedOver(i) =>
                   turns[k].speaker = roles[sound[i].side]
         /\ \A i, j \in 1..Len(sound) : sound[i].side = sound[j].side /\ i < j =>
              \A k \in Holding(i), n \in Holding(j) : k <= n
================================================================================
