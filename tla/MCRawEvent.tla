----------------------------- MODULE MCRawEvent -----------------------------
(***************************************************************************)
(* RawEvent with a 16-byte event and up to three sections of up to four    *)
(* data bytes: sections that fill the event exactly (two of 4 + 4 bytes),  *)
(* that leave room, that overflow it by a little or by a lot, and empty    *)
(* sections and data bytes equal to the zero padding.                      *)
(***************************************************************************)
EXTENDS RawEvent

Section(owner, data) == [owner |-> owner, data_type |-> 1, data |-> data]
MCSections == {Section(o, d) : o \in {1, 2}, d \in {<<>>, <<0>>, <<9, 0, 9>>, <<9, 9, 9, 9>>}}
MCInputs == BoundedSeq(MCSections, 3)

=============================================================================
