----------------------------- MODULE ByteBuffer -----------------------------
(* The byte buffer under all packets and hashes: a vector with a read and a  *)
(* write position, used in the three ways the program uses it: filled and    *)
(* read, filled and then rewritten at its end (the proof in the mining       *)
(* loop), and kept for one datagram after the other by the socket. Bytes     *)
(* behind the write position are whatever earlier uses have left there.      *)
EXTENDS Naturals, Sequences, SequencesExt

CONSTANTS Strings,    \* texts that are written: a reader stops at what is not ASCII
          Words,      \* values of a type of two bytes, little endian
          BufferSize, \* bytes the buffer of the network interface starts with
          MaxItems,   \* bound: items written and not yet read
          MaxSize     \* bound: bytes in the vector (MAX_SIZE)

NUL == 0
Ascii == 1..127         \* isascii(c), the zero aside

ASSUME ByteBufferAssumption ==
  /\ Strings \subseteq Seq(Ascii) /\ Words \subseteq Nat \X Nat
  /\ BufferSize \in Nat /\ MaxSize \in Nat /\ MaxItems \in Nat \ {0}

VARIABLES data, rpos, wpos,   \* data_, rpos_, wpos_
          state,              \* "running", or "aborted" by an assertion
          unread              \* history: the items written and not yet read

vars == <<data, rpos, wpos, state, unread>>

(* What is written: a text, or a number of fixed size. *)
Item == [kind : {"string"}, bytes : Strings] \cup [kind : {"word"}, bytes : Words]

(* operator<<: a number is its bytes, a text its characters and a zero. *)
Encode(item) == IF item.kind = "string" THEN Append(item.bytes, NUL) ELSE item.bytes

EncodeAll(items) == FlattenSeq([i \in DOMAIN items |-> Encode(items[i])])

(* length(), what is left to read. *)
Length == IF rpos >= wpos THEN 0 ELSE wpos - rpos

(* append(src, cnt) at a write position: the vector grows if it must. *)
Write(bytes, at) ==
  LET size == IF Len(data) < at + Len(bytes) THEN at + Len(bytes) ELSE Len(data)
  IN  [i \in 1..size |-> IF i \in (at + 1)..(at + Len(bytes)) THEN bytes[i - at]
                         ELSE IF i <= Len(data) THEN data[i] ELSE NUL]

-----------------------------------------------------------------------------

(* A new buffer, or the one of the network interface. *)
Init ==
  /\ data \in {<<>>, [i \in 1..BufferSize |-> NUL]}
  /\ rpos = 0 /\ wpos = 0
  /\ state = "running"
  /\ unread = <<>>

(* stream << item *)
AppendItem(item) ==
  /\ Len(unread) < MaxItems /\ wpos + Len(Encode(item)) <= MaxSize
  /\ data' = Write(Encode(item), wpos)
  /\ wpos' = wpos + Len(Encode(item))
  /\ unread' = Append(unread, item)
  /\ UNCHANGED <<rpos, state>>

(* Mutant: the old end is not taken back. *)
RewriteLast_NoRewind(item) ==
  /\ unread # <<>> /\ Last(unread).kind = "word" /\ item.kind = "word"
  /\ data' = Write(Encode(item), wpos)
  /\ wpos' = wpos + Len(Encode(item))
  /\ unread' = Append(Front(unread), item)
  /\ UNCHANGED <<rpos, state>>

(* The mining loop: wpos(woffset), then stream << proof. *)
RewriteLast(item) ==
  LET at == wpos - Len(Encode(item)) IN
  /\ unread # <<>> /\ Last(unread).kind = "word" /\ item.kind = "word"
  /\ data' = Write(Encode(item), at)
  /\ wpos' = at + Len(Encode(item))
  /\ unread' = Append(Front(unread), item)
  /\ UNCHANGED <<rpos, state>>

Clear(clearData) ==
  /\ data' = IF clearData THEN <<>> ELSE data
  /\ rpos' = 0 /\ wpos' = 0
  /\ unread' = <<>>
  /\ UNCHANGED state

(* handleReceiveFrom: the socket has put the bytes of a datagram at the      *)
(* start of the buffer, as many as it holds, and the positions are set. The  *)
(* assertion before ends the program if they fill the buffer.                *)
Receive(items) ==
  LET bytes == EncodeAll(items) IN
  /\ bytes # <<>> /\ data # <<>>
  /\ IF Len(bytes) < Len(data)
     THEN /\ data' = Write(bytes, 0)
          /\ rpos' = 0 /\ wpos' = Len(bytes)
          /\ unread' = items
          /\ UNCHANGED state
     ELSE /\ state' = "aborted"
          /\ UNCHANGED <<data, rpos, wpos, unread>>

(* Readers ask for the type that was written, or for more than there is. *)
MayRead(kind) == unread # <<>> => Head(unread).kind = kind

WordSize == 2

(* Mutant: the test is against the size of the vector. *)
WordRead_BySize ==
  IF rpos + WordSize > Len(data) THEN <<>> ELSE SubSeq(data, rpos + 1, rpos + WordSize)

(* What read<T>() returns: nothing, if it throws. *)
WordRead == IF WordSize > Length THEN <<>> ELSE SubSeq(data, rpos + 1, rpos + WordSize)

(* stream >> number; an exception leaves the position where it was. *)
ReadWord ==
  /\ MayRead("word")
  /\ rpos' = rpos + Len(WordRead)
  /\ unread' = IF unread = <<>> THEN <<>> ELSE Tail(unread)
  /\ UNCHANGED <<data, wpos, state>>

(* The loop of operator>>(std::string&): characters are taken up to a zero,  *)
(* to one that is not ASCII or to the end of what is there.                  *)
StringLength == Min({n \in 0..Length : n = Length \/ data[rpos + n + 1] \notin Ascii})

StringRead == SubSeq(data, rpos + 1, rpos + StringLength)

(* The character that ends the loop, if there is one, is taken too. *)
StringEnd == rpos + (IF StringLength < Length THEN StringLength + 1 ELSE StringLength)

(* stream >> text, and read_skip<char*>(), which reads and forgets it. *)
ReadString ==
  /\ MayRead("string")
  /\ rpos' = StringEnd
  /\ unread' = IF unread = <<>> THEN <<>> ELSE Tail(unread)
  /\ UNCHANGED <<data, wpos, state>>

Packets == UNION {[1..n -> Item] : n \in 1..MaxItems}

Next ==
  /\ state = "running"
  /\ \/ \E item \in Item : AppendItem(item)
     \/ \E item \in Item : RewriteLast(item)
     \/ \E clearData \in BOOLEAN : Clear(clearData)
     \/ \E items \in Packets : Receive(items)
     \/ ReadWord
     \/ ReadString

Spec == Init /\ [][Next]_vars

-----------------------------------------------------------------------------

(* Between the positions there are exactly the items not yet read, whatever  *)
(* earlier packets have left behind wpos; this is what is hashed and sent    *)
(* (data() and length(), with rpos at 0), also after the proof has been      *)
(* rewritten. Neither position passes the end of the vector, where           *)
(* &data_[pos] would be undefined.                                           *)
ContentIsUnread ==
  /\ rpos <= wpos /\ wpos <= Len(data)
  /\ SubSeq(data, rpos + 1, wpos) = EncodeAll(unread)

(* A read gives the item whose turn it is, and nothing of an older packet    *)
(* when there is none: the read throws, or gives an empty text, and does not *)
(* move. A reader of the first item must not run into the second.            *)
ReadsInOrder ==
  /\ MayRead("word") => WordRead = IF unread = <<>> THEN <<>> ELSE Head(unread).bytes
  /\ MayRead("string") => StringRead = IF unread = <<>> THEN <<>> ELSE Head(unread).bytes
=============================================================================
