------------------------------ MODULE RawEvent ------------------------------
(***************************************************************************)
(* The raw event builders of src/retis/src/benchmark/helpers.rs:           *)
(* build_raw_section, called once by each section builder, and the end of  *)
(* build_raw_event, which records the length as u16, pads the buffer with  *)
(* zeroes to BPF_RAW_EVENT_DATA_SIZE (Capacity) and converts it to the     *)
(* fixed array of RawEvent, returned as bytes by as_u8_vec.               *)
(*                                                                         *)
(* The section builders (RawCommonEvent::build_raw ...) are outside src/:  *)
(* what each appends is an input, a sequence of [owner, data_type, data]   *)
(* with data a sequence of bytes.  The buffer is kept byte by byte; a u16  *)
(* is two bytes in the little-endian order of the targets retis runs on.   *)
(***************************************************************************)
EXTENDS Naturals, Sequences, SequencesExt

CONSTANTS
    Capacity,   \* BPF_RAW_EVENT_DATA_SIZE
    Inputs      \* the section sequences the builders may append

\* RawEvent is {size: u16, data: [u8; Capacity]} (spec section 4.4); with an
\* even capacity the record has no tail padding, so as_u8_vec copies only
\* initialised bytes.
ASSUME Capacity % 2 = 0

U16 == 65536
HeaderLen == 4
LE16(x) == <<x % 256, (x \div 256) % 256>>

VARIABLES
    sections,   \* what the builders append, in call order
    k,          \* the next builder to call
    event,      \* the Vec<u8> being built
    phase,      \* "build", "done" or "panic"
    raw         \* the bytes build_raw_event returns

vars == <<sections, k, event, phase, raw>>

-----------------------------------------------------------------------------
Init ==
    /\ sections \in Inputs
    /\ k = 1
    /\ event = <<>>
    /\ phase = "build"
    /\ raw = <<>>

\* A header whose size counts the header itself.
SectionBytesWithHeaderLen(s) ==
    <<s.owner, s.data_type>> \o LE16((Len(s.data) + HeaderLen) % U16) \o s.data

\* build_raw_section: the header {owner, data_type, size: data.len() as
\* u16}, as its bytes, then the data, appended to the event.
SectionBytes(s) == <<s.owner, s.data_type>> \o LE16(Len(s.data) % U16) \o s.data

BuildRawSection ==
    /\ phase = "build" /\ k <= Len(sections)
    /\ event' = event \o SectionBytes(sections[k])
    /\ k' = k + 1
    /\ UNCHANGED <<sections, phase, raw>>

\* vec![0; BPF_RAW_EVENT_DATA_SIZE - event.len()]; the usize subtraction
\* fails (a panic, or in release a wrapped length no allocation can meet)
\* when the sections outgrow the capacity.
PadLen(len) == Capacity - len

(***************************************************************************)
(* The end of build_raw_event: size = event.len() as u16, the padding,    *)
(* then try_into() the [u8; BPF_RAW_EVENT_DATA_SIZE] array, whose expect  *)
(* panics unless the length is exactly the capacity, and as_u8_vec of the *)
(* RawEvent: the size's two bytes, then the data.                         *)
(***************************************************************************)
BuildRawEvent ==
    /\ phase = "build" /\ k > Len(sections)
    /\ LET pad == PadLen(Len(event))
           padded == event \o [i \in 1..pad |-> 0]
       IN IF pad < 0 \/ Len(padded) # Capacity
          THEN phase' = "panic" /\ UNCHANGED raw
          ELSE /\ phase' = "done"
               /\ raw' = LE16(Len(event) % U16) \o padded
    /\ UNCHANGED <<sections, k, event>>

Next == BuildRawSection \/ BuildRawEvent

Spec == Init /\ [][Next]_vars

-----------------------------------------------------------------------------
(***************************************************************************)
(* The reader's side of the framing (spec sections 3 and 4.4): sections    *)
(* follow each other from the start of data up to `size`, each a 4-byte   *)
(* header {owner, data_type, size} and `size` bytes.                       *)
(***************************************************************************)
RECURSIVE Parse(_, _, _)
Parse(data, pos, end) ==
    IF pos > end THEN <<>>
    ELSE IF pos + HeaderLen - 1 > end THEN <<[owner |-> "truncated"]>>
    ELSE LET len == data[pos + 2] + 256 * data[pos + 3]
             from == pos + HeaderLen
         IN IF from + len - 1 > end THEN <<[owner |-> "truncated"]>>
            ELSE <<[owner |-> data[pos], data_type |-> data[pos + 1],
                    data |-> SubSeq(data, from, from + len - 1)]>>
                 \o Parse(data, from + len, end)

-----------------------------------------------------------------------------
(* Properties *)

\* The bytes of a finished raw event read back, the size from their first
\* two and then header by header up to that size, as exactly the sections
\* the builders appended, in order, with only zero bytes after them.
EventDecodes ==
    phase = "done" =>
        LET size == raw[1] + 256 * raw[2]
            data == SubSeq(raw, 3, Len(raw))
        IN /\ Len(data) = Capacity
           /\ Parse(data, 1, size) = sections
           /\ \A i \in (size + 1)..Capacity : data[i] = 0

=============================================================================
