--------------------------- MODULE BufferedReader ---------------------------
(***************************************************************************)
(* filereader/file_reader.go below the level of FileReader: the open file  *)
(* with its offset, the bufio.Reader in front of it, and the position that *)
(* GetPosition computes from the two after every line and every reopen.    *)
(*                                                                         *)
(* FileReader takes a line in one step.  Here ReadString works through     *)
(* reads of any length and full buffers, while the node appends between    *)
(* them, and what it returns is made of the bytes it was handed.  Bytes in *)
(* memory are the interval of the file they were read from.                *)
(***************************************************************************)
EXTENDS FileReader

CONSTANT BufSize        \* the buffer of bufio.NewReader, 4096 bytes

ASSUME BufferAssumption == BufSize \in Nat \ {0}

VARIABLES
    offset,         \* the offset of the open file: where read(2) goes on
    buffer,         \* bytes read and not yet consumed
    fragments       \* full buffers that ReadString has taken out for its line

cursor   == <<offset, buffer, fragments>>
allVars  == <<vars, cursor>>

Length(b) == b.to - b.from

NoBytes == [from |-> 0, to |-> 0]

\* The bytes of b behind those of a.
Join(a, b) == IF Length(a) = 0 THEN b
              ELSE IF Length(b) = 0 THEN a ELSE [from |-> a.from, to |-> b.to]

\* Mutant: what is still in the buffer is not subtracted.
PositionOfFile(o, b) == o

\* GetPosition: file.Seek(0, io.SeekCurrent) minus reader.Buffered().
GetPosition(o, b) == o - Length(b)

-----------------------------------------------------------------------------

\* Mutant: NewFileReader without its seek.
OpenedWithoutSeek(p) ==
    /\ Opened(p)
    /\ offset = 0
    /\ buffer = NoBytes
    /\ fragments = NoBytes

\* NewFileReader: the file stands at p, the buffer is empty.
BufferedOpened(p) ==
    /\ Opened(p)
    /\ offset = p
    /\ buffer = NoBytes
    /\ fragments = NoBytes

\* The newlines ReadString finds in the buffer.
Ends == {n \in newlines : buffer.from < n /\ n <= buffer.to}

\* ReadString is at work and has found no newline yet.
Searching ==
    /\ pc = "reading"
    /\ fileSize # 0
    /\ Ends = {}

\* read(2) gives any number of bytes that the buffer has room for.
Fill ==
    /\ Searching
    /\ \E k \in 1 .. BufSize - Length(buffer) :
         /\ offset + k <= size
         /\ offset' = offset + k
         /\ buffer' = Join(buffer, [from |-> offset, to |-> offset + k])
    /\ UNCHANGED <<reader, fragments>>

\* Mutant: ReadSlice in place of ReadString, a full buffer ends the line.
BufferIsLine ==
    /\ Searching
    /\ Length(buffer) >= BufSize
    /\ buffer' = NoBytes
    /\ position' = GetPosition(offset, NoBytes)
    /\ sent' = Append(sent, buffer)
    /\ UNCHANGED <<offset, fragments, fileSize, pc, result>>

\* A full buffer without a newline is put aside, and the next one begun.
BufferFull ==
    /\ Searching
    /\ Length(buffer) >= BufSize
    /\ fragments' = Join(fragments, buffer)
    /\ buffer' = NoBytes
    /\ UNCHANGED <<reader, offset>>

\* Mutant: an empty line is taken for the end of the file.
BlankIsEOF ==
    /\ pc = "reading"
    /\ fileSize # 0
    /\ \E n \in Ends :
         LET line == Join(fragments, [from |-> buffer.from, to |-> n])
         IN  /\ \A m \in Ends : n <= m
             /\ buffer' = [buffer EXCEPT !.from = n]
             /\ position' = GetPosition(offset, buffer')
             /\ IF Length(line) = 1
                THEN AtEOF(position') /\ UNCHANGED sent
                ELSE sent' = Append(sent, line) /\ UNCHANGED <<pc, result>>
    /\ fragments' = NoBytes
    /\ UNCHANGED <<offset, fileSize>>

\* ReadString finds a newline.  ReadLine takes a position that has not moved for
\* the end of the file; else sendFunc gets the line unless it is blank.
LineRead ==
    /\ pc = "reading"
    /\ fileSize # 0
    /\ \E n \in Ends :
         LET line == Join(fragments, [from |-> buffer.from, to |-> n])
         IN  /\ \A m \in Ends : n <= m
             /\ buffer' = [buffer EXCEPT !.from = n]
             /\ position' = GetPosition(offset, buffer')
             /\ IF position' = position
                THEN AtEOF(position') /\ UNCHANGED sent
                ELSE /\ sent' = IF Length(line) = 1 THEN sent ELSE Append(sent, line)
                     /\ UNCHANGED <<pc, result>>
    /\ fragments' = NoBytes
    /\ UNCHANGED <<offset, fileSize>>

\* read(2) gives no byte: ReadString returns what it has, with the error.
\* Again a position that has not moved is the end of the file, whatever the error.
ReadEnds(isEOF) ==
    /\ Searching
    /\ Length(buffer) < BufSize
    /\ buffer' = NoBytes
    /\ fragments' = NoBytes
    /\ position' = GetPosition(offset, buffer')
    /\ IF position' = position
       THEN AtEOF(position') /\ UNCHANGED sent
       ELSE /\ sent' = Append(sent, Join(fragments, buffer))
            /\ IF isEOF THEN AtEOF(position') ELSE Return(position', "failed")
    /\ UNCHANGED <<offset, fileSize>>

EndOfFile == offset >= size /\ ReadEnds(TRUE)

ReadError == Faulty /\ ReadEnds(FALSE)

\* Mutant: the reopened file is read from its beginning.
ReopenWithoutSeek ==
    /\ Reopen
    /\ offset' = 0
    /\ buffer' = NoBytes
    /\ fragments' = NoBytes

\* Mutant: Reopen does not Stat the file again.
ReopenWithoutStat ==
    /\ pc = "waiting"
    /\ fileSize < size
    /\ pc' = "reading"
    /\ offset' = position
    /\ buffer' = NoBytes
    /\ fragments' = NoBytes
    /\ UNCHANGED <<position, fileSize, result, sent>>

\* Reopen: a new file and a new buffer, set to the position.
BufferedReopen ==
    /\ Reopen
    /\ offset' = position
    /\ buffer' = NoBytes
    /\ fragments' = NoBytes

BufferedStep ==
    \/ Fill \/ BufferFull \/ LineRead \/ EndOfFile \/ ReadError
    \/ BufferedReopen
    \/ (ReadEmpty \/ Timeout \/ WaitFails) /\ UNCHANGED cursor

-----------------------------------------------------------------------------

BufferedInit ==
    /\ Init
    /\ BufferedOpened(start)

BufferedNext ==
    \/ NodeAppend /\ UNCHANGED <<reader, cursor>>
    \/ BufferedStep /\ UNCHANGED file

BufferedSpec == BufferedInit /\ [][BufferedNext]_allVars

\* As in FileReader, a goroutine that never blocks.
BufferedFairSpec == BufferedSpec /\ WF_allVars(BufferedStep /\ UNCHANGED file)

-----------------------------------------------------------------------------

\* FileReader's types, and those of the cursor: the buffer holds at most
\* BufSize bytes, the file is never read beyond its end.
BufferedTypeOK ==
    /\ TypeOK
    /\ offset \in 0 .. size
    /\ buffer \in Piece /\ Length(buffer) \in 0 .. BufSize
    /\ fragments \in Piece /\ Length(fragments) \in Nat

\* File offset, buffer and fragments together behave like FileReader's one
\* position: each string returned is the line from there, whatever the lengths
\* of the reads, however many buffers a line fills, and over any reopen.
ImplementsFileReader == Spec

=============================================================================
