------------------------------ MODULE Prepared ------------------------------
(***************************************************************************)
(* What a prepared statement and a client exchange, side by side: the      *)
(* descriptor of the columns, the parameters that are bound and the rows   *)
(* that are read.  Each behaviour is about one of these subjects, or about *)
(* none, and leaves the others alone.                                      *)
(***************************************************************************)
EXTENDS Integers, Sequences, FiniteSets

CONSTANTS
  Subjects,
  Base, Space, FalseBytes, TrueBytes, NonFinite, PrefixLimit, \* Rows
  LobBytes, LobFlag, StringMax, Layouts, ServerRows, Capacities, Null, Idle,
  DescriptorSize, LengthAt, ChunkMax, LocatorMax, NativeWidth, \* Binding
  Statements, BoundScalars, BoundStrings, BoundBytes, BoundTimestamps,
  BoundNatives, BoundLocators, Widened, Unconvertible, MaxCalls, MaxRows,
  WireBase, MaxBytes, HeaderBytes, FieldBytes, NameMax, MaxPrecision, \* Snapshot
  Threads, Owner, Addresses, RefMax, Declarations, Missing, Nil

VARIABLES
  subject,
  columns, trim, row, tuple, spans, got,                      \* Rows
  statement, params, batch, meant, meantBatch, sent, calls,   \* Binding
  heap, published, legacy, held, retaining, declared, reading \* Snapshot

rows == <<columns, trim, row, tuple, spans, got>>
binding == <<statement, params, batch, meant, meantBatch, sent, calls>>
snapshot == <<heap, published, legacy, held, retaining, declared, reading>>

vars == <<subject, rows, binding, snapshot>>

-----------------------------------------------------------------------------
W == INSTANCE Rows WITH reply <- got

B == INSTANCE Binding WITH
  Scalars <- BoundScalars, Strings <- BoundStrings, ByteStrings <- BoundBytes,
  Timestamps <- BoundTimestamps, Natives <- BoundNatives, Locators <- BoundLocators

F == INSTANCE Describe WITH Base <- WireBase

Frames == {[declaration |-> d, read |-> F!ReadDeclaration(d)] : d \in Declarations}

DS == INSTANCE Snapshot WITH
  Base <- WireBase, Received <- Frames, columns <- legacy, last <- reading

(* Layouts list columns and rows are bytes, whatever they say.             *)
ASSUME RowsAssumption ==
  /\ Base \in Nat
  /\ \A layout \in Layouts :
       /\ layout \in Seq({layout[c] : c \in DOMAIN layout})
       /\ \A received \in ServerRows[layout] : received.bytes \in Seq(Nat)

(* Each call binds the type it is named for, strings are sequences, a DATE *)
(* has four bytes and another native value at least one; bytes have        *)
(* positive powers.                                                        *)
ASSUME BindingAssumption ==
  /\ Base ^ 2 \in Nat \ {0} /\ DescriptorSize \in Nat
  /\ \A v \in BoundScalars : v.type \in {"INT", "BIGINT", "FLOAT"}
  /\ \A v \in BoundStrings \cup BoundBytes \cup BoundLocators \cup BoundNatives :
       v.data \in Seq({v.data[k] : k \in DOMAIN v.data})
  /\ \A v \in BoundStrings : v.type = "VARCHAR"
  /\ \A v \in BoundBytes : v.type = "BYTE"
  /\ \A v \in BoundNatives :
       /\ DOMAIN v = DOMAIN B!Unbound
       /\ \/ v.type = "DATE" /\ Len(v.data) = 4
          \/ v.type \in {"DECIMAL", "DATETIME", "INTERVAL"} /\ v.data # <<>>
  /\ \A t \in BoundTimestamps : t \in Seq({t[k] : k \in DOMAIN t})
  /\ \A some \in Statements : some.actual \in Seq({some.actual[i] : i \in DOMAIN some.actual})

(* The threads can be listed, no descriptor lies at the null pointer and a *)
(* count holds one reference.                                              *)
ASSUME SnapshotAssumption ==
  /\ IsFiniteSet(Threads) /\ Owner \in Threads
  /\ Nil \notin Addresses
  /\ RefMax \in Nat \ {0}

(* Servers declare sequences of fields whose lengths are numbers.          *)
ASSUME DeclarationAssumption ==
  /\ WireBase \in Nat \ {0}
  /\ \A declaration \in Declarations :
       LET d == declaration.descriptor
       IN /\ d.fields \in Seq({d.fields[i] : i \in DOMAIN d.fields})
          /\ \A i \in DOMAIN d.fields : d.fields[i].encoded_length \in Nat

(* A frame is taken over exactly if it is acceptable, and then it is read  *)
(* as it was written.                                                      *)
FrameRead(frame) ==
  LET declared_ == frame.declaration.descriptor
      read == frame.read.descriptor
  IN /\ (frame.read.status = "OK") = DS!Acceptable(frame.declaration)
     /\ frame.read.status = "OK" =>
          /\ read.fields = declared_.fields /\ read.extended = declared_.extended
          /\ read.header = [declared_.header EXCEPT !.field_count = Len(declared_.fields),
                                                    !.names_length = read.header.names_length]

ASSUME FramesRead == \A frame \in Frames : FrameRead(frame)

-----------------------------------------------------------------------------
(* A subject that a behaviour is not about stays as it is created.         *)
Init ==
  /\ subject \in Subjects
  /\ W!Init /\ (subject # "rows" => ~ trim /\ columns = CHOOSE layout \in Layouts : TRUE)
  /\ B!Init /\ (subject # "binding" => statement = CHOOSE some \in Statements : TRUE)
  /\ DS!Init

Next ==
  \/ subject = "rows" /\ W!Next /\ UNCHANGED <<subject, binding, snapshot>>
  \/ subject = "binding" /\ B!Next /\ UNCHANGED <<subject, rows, snapshot>>
  \/ subject = "snapshot" /\ DS!Next /\ UNCHANGED <<subject, rows, binding>>

Spec == Init /\ [][Next]_vars

-----------------------------------------------------------------------------
(* No getter leaves its column or its row, whatever its bytes (Rows.tla).  *)
ColumnsPlaced == W!ColumnsPlaced

(* A request fits into the buffer that was estimated for it (Binding.tla). *)
MessageFits == B!MessageFits

(* What a server sent is what the getters return, and what was bound is    *)
(* what a server reads (Rows.tla, Binding.tla).                            *)
ValuesTruthful == W!RowTruthful /\ B!BindTruthful

(* A descriptor lives as long as it has holders and says what the server   *)
(* declared (Snapshot.tla).                                                *)
SnapshotTruthful == DS!SnapshotTruthful
=============================================================================
