------------------------------ MODULE PkBitfield ------------------------------
(***************************************************************************)
(* The filter bitfield codec that packagekit-glib2 exports (pk-bitfield,  *)
(* pk-enum), as pk_test_bitfield_func of                                   *)
(* src/lib/packagekit-glib2/pk-test-private.c exercises it.  The codec is  *)
(* not under src/: it is modelled from the spec (sections 3, 4.1 and 8).  *)
(*                                                                         *)
(* An enum value is its index in the family's ordered name table, and a    *)
(* bitfield is the set of values whose bit is set (bit i <=> value i).     *)
(* Text is a sequence of tokens: the ';' (or '&') splitting and joining is *)
(* left out; the tokens, their order and the "none" rule are kept.  The    *)
(* table is the filter members the test uses, in the enum's order.        *)
(***************************************************************************)
EXTENDS Naturals, FiniteSets, Sequences, SequencesExt

VARIABLES
  filter,    \* the PkBitfield of the filter family the caller holds
  printed,   \* the bitfield last passed to pk_filter_bitfield_to_string
  text       \* the text it returned, or <<>> before any call

vars == <<filter, printed, text>>

-----------------------------------------------------------------------------
(* Codec (spec section 4.1).                                               *)

FilterTable == <<"none", "~devel", "gui", "free", "~free", "newest", "~newest">>

\* Enum values of a family, and the value of a name (-1 if unknown).
Values(table) == 0 .. Len(table) - 1
EnumFromString(table, name) == SelectInSeq(table, LAMBDA n : n = name) - 1

\* pk_bitfield_value, _add, _remove, _invert.
BitfieldValue(v) == {v}
BitfieldAdd(bf, v) == bf \cup {v}
BitfieldRemove(bf, v) == bf \ {v}
BitfieldInvert(bf, v) == IF v \in bf THEN bf \ {v} ELSE bf \cup {v}

\* to_text: the names of the set bits in table order, or "none".
BitfieldToString(table, bf) ==
  IF bf = {} THEN <<"none">>
  ELSE SelectSeq(table, LAMBDA n : EnumFromString(table, n) \in bf)

\* from_names fails (InvalidEnumName) unless every token names a member.
BitfieldTextValid(table, txt) == \A i \in 1 .. Len(txt) : EnumFromString(table, txt[i]) >= 0

\* from_names of valid text; "none" is the name of value 0 of the filter
\* family.
BitfieldFromString(table, txt) == {EnumFromString(table, txt[i]) : i \in 1 .. Len(txt)}

-----------------------------------------------------------------------------
(* A caller holding a filter bitfield: it sets, adds, removes and inverts  *)
(* members, prints it and parses the text back, in any order.              *)

Init == filter = {} /\ printed = {} /\ text = <<>>

AssignValue(v)    == filter' = BitfieldValue(v) /\ UNCHANGED <<printed, text>>
AddMember(v)      == filter' = BitfieldAdd(filter, v) /\ UNCHANGED <<printed, text>>
RemoveMember(v)   == filter' = BitfieldRemove(filter, v) /\ UNCHANGED <<printed, text>>
InvertMember(v)   == filter' = BitfieldInvert(filter, v) /\ UNCHANGED <<printed, text>>

FilterToString == text' = BitfieldToString(FilterTable, filter) /\ printed' = filter /\ UNCHANGED filter

FilterFromString ==
  /\ text # <<>> /\ BitfieldTextValid(FilterTable, text)
  /\ filter' = BitfieldFromString(FilterTable, text)
  /\ UNCHANGED <<printed, text>>

Next ==
  \/ \E v \in Values(FilterTable) : AssignValue(v) \/ AddMember(v) \/ RemoveMember(v) \/ InvertMember(v)
  \/ FilterToString \/ FilterFromString

Spec == Init /\ [][Next]_vars

-----------------------------------------------------------------------------
(* Properties.                                                             *)

TypeOK ==
  /\ filter \subseteq Values(FilterTable) /\ printed \subseteq Values(FilterTable)
  /\ text \in Seq(ToSet(FilterTable))

\* Spec section 8: from_names(to_text(b)) = b for every bitfield b,
\* including the empty one; pk_test_bitfield_func asserts that the empty
\* filter prints as "none" and that "none" parses to the NONE bit.
FilterRoundTrip ==
  text # <<>> => BitfieldFromString(FilterTable, text) = printed
=============================================================================
