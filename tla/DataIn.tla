------------------------------- MODULE DataIn -------------------------------
(***************************************************************************)
(* Reassembly of one incoming stream: lsquic_stream_frame_in() and         *)
(* lsquic_stream_readf() over the two containers of received data.  The    *)
(* nocopy container keeps the STREAM frames themselves, in a list ordered  *)
(* by offset; when two frames overlap, or the list becomes inefficient,    *)
(* its contents move to the hash container, which copies bytes into        *)
(* blocks of DB_DATA_SIZE bytes with a bit per byte, and the hash gives    *)
(* way to a new list when it is empty.  The third container only refuses   *)
(* data: it takes the place of one that could not be built.                *)
(*                                                                         *)
(* The peer is honest: every frame carries bytes of one stream and the FIN *)
(* bit is on frames that end at its final size.  Frames are lost, reordered*)
(* and repeated at will.  Flow control is StreamFlow's subject.            *)
(***************************************************************************)
EXTENDS Integers, Sequences, FiniteSets, FiniteSetsExt, SequencesExt

CONSTANTS
    MaxOff,     \* bound: the largest final size of the stream
    DataSize,   \* DB_DATA_SIZE, the bytes of a block of the hash
    Events      \* what may happen besides: a subset of AllEvents

(* "resegment": the peer cuts the stream anew when it retransmits;         *)
(* "fin_moves": it then also moves a FIN sent by itself to a data frame;   *)
(* "inefficient": check_efficiency() finds the list inefficient;           *)
(* "empty": the peer sends frames with neither data nor FIN.               *)
AllEvents == {"resegment", "fin_moves", "inefficient", "empty"}

DataInAssumption ==
    /\ MaxOff \in Nat
    /\ DataSize \in Nat \ {0}
    /\ Events \subseteq AllEvents

VARIABLES
    final,      \* final size of the peer's stream
    peer,       \* the frames the peer may send
    di,         \* stream->data_in
    strm        \* the stream's fields that reading and inserting use

vars == <<final, peer, di, strm>>

Frame(off, end, fin) == [off |-> off, size |-> end - off, fin |-> fin]
End(f) == f.off + f.size

(* Every frame of a stream of n bytes. *)
AllFrames(n) ==
    {Frame(off, end, fin) :
        off \in 0 .. n, end \in 0 .. n, fin \in BOOLEAN}

FramesOf(n) ==
    {f \in AllFrames(n) :
        /\ f.size >= 0
        /\ f.fin => End(f) = n
        /\ f.size = 0 => f.fin \/ "empty" \in Events}

(* The frames of a stream cut once and for all at the offsets `cuts', with *)
(* the FIN bit on the last of them or in a frame of its own.               *)
Segments(n, cuts, alone) ==
    LET bounds == cuts \cup {0, n}
    IN  {f \in AllFrames(n) :
            \/ /\ f.off \in bounds /\ End(f) \in bounds /\ f.size > 0
               /\ ~\E c \in bounds : f.off < c /\ c < End(f)
               /\ f.fin = (End(f) = n /\ ~alone)
            \/ f.off = n /\ f.size = 0 /\ f.fin /\ (alone \/ n = 0)}

Segmentations(n) ==
    IF {"resegment", "fin_moves"} \subseteq Events
    THEN {FramesOf(n)}
    ELSE IF "resegment" \in Events
    THEN {{f \in FramesOf(n) : f.fin /\ n > 0 => (f.size = 0) = alone} :
            alone \in BOOLEAN}
    ELSE {Segments(n, cuts, alone) :
            cuts \in SUBSET (1 .. n - 1), alone \in BOOLEAN}

(***************************************************************************)
(* The containers.  `frames' is the list of the nocopy one, `bytes' and    *)
(* `blocks' the contents of the hash; `fin' and `fin_off' are each one's   *)
(* own record of the FIN, `reached' is NCDI_FIN_REACHED.                   *)
(***************************************************************************)
NocopyNew ==
    [impl |-> "nocopy", frames |-> <<>>, bytes |-> {}, blocks |-> {},
     fin |-> FALSE, fin_off |-> 0, reached |-> FALSE]

HashNew == [NocopyNew EXCEPT !.impl = "hash"]

ErrorNew == [NocopyNew EXCEPT !.impl = "error"]

Key(off) == off - (off % DataSize)

(* Mutant: a frame at a known offset is taken for a duplicate. *)
NocopyVerdict_bug(d, f, read_offset) ==
    IF read_offset > End(f) \/ (\E g \in Range(d.frames) : g.off = f.off)
    THEN "DUP" ELSE IF read_offset > f.off THEN "OVERLAP" ELSE "OK"

(* What insert_frame() answers, before it changes anything. *)
NocopyVerdict(d, f, read_offset) ==
    LET end   == End(f)
        n     == Cardinality({i \in DOMAIN d.frames : d.frames[i].off <= f.off})
        prev  == d.frames[n]
        next  == d.frames[n + 1]
        hasPrev == n > 0
        hasNext == n < Len(d.frames)
        refused ==
            \/ read_offset > end /\ f.fin
            \/ /\ read_offset <= end /\ d.fin
               /\ (f.fin /\ end # d.fin_off) \/ end > d.fin_off
        behind ==
            \/ read_offset > end
            \/ read_offset = end /\ (d.fin \/ ~f.fin)
        same == hasPrev /\ prev.off = f.off /\ prev.size = f.size
        clash ==
            \/ hasPrev /\ End(prev) > f.off
            \/ hasNext /\ (end > next.off \/ read_offset > f.off)
        finIsNew == f.fin /\ ~(d.reached /\ read_offset = d.fin_off)
    IN  IF refused THEN "ERR"
        ELSE IF behind THEN "DUP"
        ELSE IF d.frames = <<>> THEN
            IF read_offset = end
            THEN IF ~finIsNew THEN "DUP" ELSE IF f.size > 0 THEN "OVERLAP" ELSE "OK"
            ELSE IF read_offset > f.off THEN "OVERLAP" ELSE "OK"
        ELSE IF same THEN IF ~prev.fin /\ f.fin THEN "OVERLAP" ELSE "DUP"
        ELSE IF clash THEN "OVERLAP"
        ELSE "OK"

(* The list after an insertion that succeeds. *)
NocopyAdd(d, f) ==
    LET n == Cardinality({i \in DOMAIN d.frames : d.frames[i].off <= f.off})
        g == [off |-> f.off, size |-> f.size, fin |-> f.fin, read_off |-> 0]
    IN  [d EXCEPT !.frames = InsertAt(@, n + 1, g),
                  !.fin = @ \/ f.fin,
                  !.fin_off = IF f.fin THEN End(f) ELSE @]

(* Mutant: data up to the final size is taken to be beyond it. *)

(* lsquic_data_in_hash_insert_data_frame(): the answer and the new hash.   *)
(* The bytes are written before a FIN is found to be misplaced.            *)
HashInsert(d, f, read_offset) ==
    LET end     == End(f)
        start   == Max({f.off, read_offset})
        written == start .. end - 1
        last    == IF start < end THEN Key(end - 1) ELSE Key(start)
        blocks  == d.blocks \cup {Key(start), last} \cup {Key(b) : b \in written}
        new     == [d EXCEPT !.bytes = @ \cup written, !.blocks = blocks]
        beyond  == \/ \E b \in new.bytes : Key(b) = last /\ b >= end
                   \/ last + DataSize \in blocks
    IN  IF end < read_offset
        THEN [ins |-> IF f.fin THEN "ERR" ELSE "DUP", di |-> d]
        ELSE IF d.fin /\ ((f.fin /\ end # d.fin_off) \/ end > d.fin_off)
        THEN [ins |-> "ERR", di |-> d]
        ELSE IF f.fin /\ beyond
        THEN [ins |-> "ERR", di |-> new]
        ELSE [ins |-> "OK",
              di |-> IF f.fin THEN [new EXCEPT !.fin = TRUE, !.fin_off = end]
                     ELSE new]

(* nocopy_di_switch_impl(): the frames go to a new hash one by one; when   *)
(* one of them is refused, the caller installs the error container.        *)
NocopySwitch(d, read_offset) ==
    FoldLeft(LAMBDA h, f :
                IF h.impl = "error" THEN h
                ELSE LET r == HashInsert(h, f, read_offset)
                     IN  IF r.ins = "ERR" THEN ErrorNew ELSE r.di,
             HashNew, d.frames)

(* di_insert_frame() as lsquic_stream_frame_in() uses it: an overlap moves *)
(* the list to the hash and the frame is inserted there.                   *)
Insert(d, f, read_offset) ==
    CASE d.impl = "error" -> [ins |-> "ERR", di |-> d]
      [] d.impl = "hash" -> HashInsert(d, f, read_offset)
      [] d.impl = "nocopy" ->
            LET v == NocopyVerdict(d, f, read_offset)
                h == NocopySwitch(d, read_offset)
            IN  IF v = "OK" THEN [ins |-> v, di |-> NocopyAdd(d, f)]
                ELSE IF v # "OVERLAP" THEN [ins |-> v, di |-> d]
                ELSE IF h.impl = "error" THEN [ins |-> "ERR", di |-> h]
                ELSE HashInsert(h, f, read_offset)

NoFrame == [none |-> TRUE]

(* Length of the run of received bytes from `off' on, inside its block. *)
Avail(d, off) ==
    Cardinality({b \in d.bytes :
        /\ Key(b) = Key(off) /\ off <= b
        /\ off .. b \subseteq d.bytes})

(* Mutant: a FIN with no data after the last read byte is not looked for. *)

(* setup_data_frame(): df_read_off and df_size are relative to the block,  *)
(* and df_fin compares their sum with the stream's final offset.           *)
HashFrame(d, read_offset) ==
    LET offset == read_offset % DataSize
        size   == offset + Avail(d, read_offset)
        block  == Key(read_offset) \in d.blocks
        atFin  == d.fin /\ read_offset = d.fin_off
    IN  IF block /\ read_offset \in d.bytes
        THEN [off |-> Key(read_offset), read_off |-> offset, size |-> size,
              fin |-> d.fin /\ offset + size = d.fin_off, block |-> TRUE]
        ELSE IF atFin
        THEN [off |-> Key(read_offset), fin |-> TRUE, block |-> block,
              read_off |-> IF block THEN offset ELSE 0,
              size |-> IF block THEN offset ELSE 0]
        ELSE NoFrame

(* di_get_frame() *)
GetFrame(d, read_offset) ==
    CASE d.impl = "error" -> NoFrame
      [] d.impl = "nocopy" ->
            IF d.frames # <<>>
               /\ Head(d.frames).off + Head(d.frames).read_off = read_offset
            THEN Head(d.frames)
            ELSE NoFrame
      [] d.impl = "hash" -> HashFrame(d, read_offset)

(* di_frame_done() for a frame read to its end, and maybe_switch_data_in() *)
(* after it: an emptied hash that has seen no FIN is replaced by a list.   *)
FrameDone(d, f) ==
    IF d.impl = "nocopy"
    THEN [d EXCEPT !.frames = Tail(@), !.reached = @ \/ f.fin]
    ELSE LET drop   == /\ f.block
                       /\ \/ f.read_off = DataSize
                          \/ ~\E b \in d.bytes : Key(b) = f.off /\ b >= f.off + f.read_off
             blocks == IF drop THEN d.blocks \ {f.off} ELSE d.blocks
         IN  IF drop /\ blocks = {} /\ ~d.fin
             THEN NocopyNew
             ELSE [d EXCEPT !.blocks = blocks,
                            !.bytes = {b \in @ : Key(b) \in blocks}]

(* One turn of the loop of read_data_frames() with room for r.left bytes. *)
ReadFrame(r) ==
    LET f      == GetFrame(r.di, r.read_offset)
        toread == f.size - f.read_off
        nread  == Min({toread, r.left})
        g      == [f EXCEPT !.read_off = @ + nread]
    IN  IF r.stop \/ f = NoFrame
        THEN [r EXCEPT !.stop = TRUE]
        ELSE [di |-> IF g.read_off = g.size THEN FrameDone(r.di, g)
                     ELSE IF r.di.impl = "nocopy" THEN [r.di EXCEPT !.frames[1] = g]
                     ELSE r.di,
              read_offset |-> r.read_offset + nread,
              left |-> r.left - nread,
              fin |-> g.read_off = g.size /\ g.fin,
              stop |-> IF g.read_off = g.size THEN g.fin ELSE nread < toread]

(* The loop ends after at most one turn for each frame and byte there is. *)
ReadDataFrames(d, read_offset, room) ==
    FoldLeft(LAMBDA r, i : ReadFrame(r),
             [di |-> d, read_offset |-> read_offset, left |-> room,
              fin |-> FALSE, stop |-> FALSE],
             [i \in 1 .. 2 * MaxOff + 2 |-> i])

-----------------------------------------------------------------------------
Init ==
    /\ final \in 0 .. MaxOff
    /\ peer \in Segmentations(final)
    /\ di = NocopyNew
    /\ strm = [read_offset |-> 0, fin_recvd |-> FALSE, fin_off |-> 0,
               fin_reached |-> FALSE, aborted |-> FALSE,
               cached |-> FALSE, last_frame_off |-> 0, has_frame |-> FALSE]

(* lsquic_stream_frame_in(): a frame the peer sent arrives.  `alert' is    *)
(* the outcome of check_efficiency() when the list has taken the frame.    *)
(* An error makes process_stream_frame() abort the connection.             *)
frame_in(f) ==
    LET mismatch == f.fin /\ strm.fin_recvd /\ strm.fin_off # End(f)
        r == IF mismatch THEN [ins |-> "ERR", di |-> di]
             ELSE Insert(di, f, strm.read_offset)
    IN  /\ ~strm.aborted
        /\ \/ /\ r.ins = "OK"
              /\ \E alert \in {FALSE} \cup {"inefficient" \in Events} :
                    di' = IF alert /\ r.di.impl = "nocopy"
                          THEN NocopySwitch(r.di, strm.read_offset)
                          ELSE r.di
              /\ strm' = [strm EXCEPT
                            !.fin_recvd = @ \/ f.fin,
                            !.fin_off = IF f.fin THEN End(f) ELSE @,
                            !.aborted = di'.impl = "error",
                            !.cached = FALSE]
           \/ /\ r.ins # "OK"
              /\ di' = r.di
              /\ strm' = [strm EXCEPT !.aborted = r.ins = "ERR"]
        /\ UNCHANGED <<final, peer>>

(* lsquic_stream_readf() with a buffer of `room' bytes. *)
readf(room) ==
    LET r == ReadDataFrames(di, strm.read_offset, room)
    IN  /\ ~strm.aborted
        /\ ~strm.fin_reached
        /\ di' = r.di
        /\ strm' = [strm EXCEPT !.read_offset = r.read_offset,
                                !.fin_reached = r.fin]
        /\ UNCHANGED <<final, peer>>

(* Mutant: the cached answer is used whatever the read offset. *)

(* stream_has_frame_at_read_offset() may use the cached answer. *)
CacheHit == strm.cached /\ strm.last_frame_off = strm.read_offset

(* lsquic_stream_readable() asks the container once for each read offset   *)
(* and keeps the answer until a frame is inserted.                         *)
readable ==
    /\ ~strm.aborted
    /\ ~strm.fin_reached
    /\ ~CacheHit
    /\ strm' = [strm EXCEPT
                    !.cached = TRUE,
                    !.last_frame_off = strm.read_offset,
                    !.has_frame = GetFrame(di, strm.read_offset) # NoFrame]
    /\ UNCHANGED <<final, peer, di>>

Next ==
    \/ \E f \in peer : frame_in(f)
    \/ \E room \in 0 .. MaxOff : readf(room)
    \/ readable

Spec == Init /\ [][Next]_vars

-----------------------------------------------------------------------------
(* Offsets of the bytes that have been read or are held by the container. *)
Held ==
    (0 .. strm.read_offset - 1) \cup di.bytes
        \cup UNION {d.off .. End(d) - 1 : d \in Range(di.frames)}

(* Whatever the order, segmentation and repetition of the frames, and      *)
(* whichever container holds them, the stream behaves as a byte stream: a  *)
(* frame dismissed as a duplicate brings nothing new, moving between the   *)
(* containers loses nothing, and a read returns the next received bytes.   *)
(* (A FIN that the hash reports before the last byte is the subject of     *)
(* FinAfterAllData, and counts as no end of the stream here.)              *)
Stream ==
    INSTANCE ByteStream WITH
        got <- Held,
        fin <- strm.fin_recvd,
        pos <- strm.read_offset,
        eof <- strm.fin_reached /\ ~(di.impl = "hash" /\ strm.read_offset < final)

ByteStreamStep == [Stream!Next]_<<final, Held, strm.fin_recvd, strm.read_offset,
                                  strm.fin_reached>>
ImplementsByteStream == Stream!Spec

(* A byte at the read offset, or the FIN once all is read, is found by     *)
(* di_get_frame(): nothing that has arrived gets stuck in a container.     *)
ReceivedIsReadable ==
    ~strm.aborted /\ ~strm.fin_reached
        /\ (strm.read_offset \in Held \/ (strm.fin_recvd /\ strm.read_offset = final))
    => GetFrame(di, strm.read_offset) # NoFrame

(* No order of the frames of an honest peer makes frame_in() fail, which   *)
(* would abort the connection ("cannot insert stream frame").              *)
NeverAborted == ~strm.aborted

(* The cached answer of lsquic_stream_readable() is never stale when used. *)
CacheIsRight ==
    CacheHit /\ ~strm.aborted /\ ~strm.fin_reached
    => strm.has_frame = (GetFrame(di, strm.read_offset) # NoFrame)

(* STREAM_FIN_REACHED means "User read data up to FIN" (lsquic_stream.h):  *)
(* the reader is told of the end of the stream after its last byte.        *)
FinAfterAllData == strm.fin_reached => strm.read_offset = final
=============================================================================
