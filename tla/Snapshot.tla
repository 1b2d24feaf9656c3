------------------------------ MODULE Snapshot ------------------------------
(***************************************************************************)
(* Descriptor snapshots (sqli_descriptor.c): a result publishes the        *)
(* descriptor of its last complete DESCRIBE and keeps one reference; the   *)
(* application takes more, hands them to other threads and releases them   *)
(* in any order while the result is described again or destroyed.          *)
(***************************************************************************)
EXTENDS Integers, Sequences, FiniteSets, FiniteSetsExt

CONSTANTS
  Base, MaxBytes, HeaderBytes, FieldBytes, NameMax, MaxPrecision, Missing,   \* Describe
  Threads, Owner,    \* the thread that uses the result, and those it hands references to
  Addresses, Nil,
  RefMax,            \* SIZE_MAX
  Received           \* what servers send, [descriptor, names, cut], and what
                     \* Describe's ReadDeclaration makes of it: [declaration, read]

VARIABLES
  heap,        \* descriptors in memory: references (0: freed) and contents
  published,   \* result->descriptor
  columns,     \* result->columns
  held,        \* references of each thread to each descriptor
  retaining,   \* the retain a thread is in: descriptor and count it has read
  declared,    \* what the server declared of each descriptor
  last         \* the last DESCRIBE: its status, and whether it was due to be accepted

vars == <<heap, published, columns, held, retaining, declared, last>>

F == INSTANCE Describe

Freed == [references |-> 0, contents |-> Nil]
Live(a) == heap[a].references > 0
Resting == [address |-> Nil, seen |-> 0]
AtRest(t) == retaining[t] = Resting

(* sqli_descriptor_release: the last reference frees the descriptor.       *)
ReleasedIn(memory, a) ==
  IF a = Nil THEN memory
  ELSE IF memory[a].references = 1 THEN [memory EXCEPT ![a] = Freed]
  ELSE [memory EXCEPT ![a].references = @ - 1]

Init ==
  /\ heap = [a \in Addresses |-> Freed]
  /\ published = Nil /\ columns = <<>>
  /\ held = [t \in Threads |-> [a \in Addresses |-> 0]]
  /\ retaining = [t \in Threads |-> Resting]
  /\ declared = [a \in Addresses |-> Nil]
  /\ last = [status |-> "OK", due |-> TRUE]

-----------------------------------------------------------------------------
(* A declaration is accepted if it arrives whole, fits into the memory     *)
(* allowed for it, and its names end where they should.                    *)
Acceptable(declaration) ==
  /\ declaration.cut = 0
  /\ F!Retained(declaration.descriptor, declaration.names) <= MaxBytes
  /\ LET fields == declaration.descriptor.fields
         names == declaration.names
         ends == {k \in DOMAIN names : names[k] = 0}
     IN Cardinality(ends) >= Len(fields) \/ names = <<>> \/ Len(names) \in ends

(* A complete frame replaces what the result had; any other leaves it.     *)
ReplaceDescriptor(a, declaration, descriptor) ==
  /\ heap' = [ReleasedIn(heap, published) EXCEPT ![a] = [references |-> 1, contents |-> descriptor]]
  /\ published' = a
  /\ columns' = F!LegacyColumns(descriptor)
  /\ declared' = [declared EXCEPT ![a] = declaration.descriptor]

ReceiveDescribe ==
  /\ AtRest(Owner)
  /\ \E received \in Received :
       LET declaration == received.declaration
           read == received.read
           memory == {a \in Addresses : ~ Live(a)}
       IN \E status \in {read.status} \cup {"ALLOC_FAIL"} :
            /\ last' = [status |-> status, due |-> Acceptable(declaration)]
            /\ \/ status # "OK" /\ UNCHANGED <<heap, published, columns, declared>>
               \/ status = "OK"
                  /\ \E a \in memory : ReplaceDescriptor(a, declaration, read.descriptor)
  /\ UNCHANGED <<held, retaining>>

(* sqli_result_get_descriptor and sqli_descriptor_retain start alike.      *)
StartRetain(t, a) ==
  /\ AtRest(t) /\ Live(a)
  /\ retaining' = [retaining EXCEPT ![t] = [address |-> a, seen |-> heap[a].references]]
  /\ UNCHANGED <<heap, published, columns, held, declared, last>>

GetDescriptor == published # Nil /\ StartRetain(Owner, published)

Retain(t) == \E a \in Addresses : held[t][a] > 0 /\ StartRetain(t, a)

RetainLimit(t) ==
  /\ ~ AtRest(t) /\ retaining[t].seen = RefMax
  /\ retaining' = [retaining EXCEPT ![t] = Resting]
  /\ UNCHANGED <<heap, published, columns, held, declared, last>>

(* Mutant: the count is stored without a look at what it has become.       *)
ExchangeBlind(t) ==
  LET r == retaining[t]
  IN /\ ~ AtRest(t) /\ r.seen < RefMax
     /\ heap' = [heap EXCEPT ![r.address].references = r.seen + 1]
     /\ held' = [held EXCEPT ![t][r.address] = @ + 1]
     /\ retaining' = [retaining EXCEPT ![t] = Resting]
     /\ UNCHANGED <<published, columns, declared, last>>

(* The compare-and-exchange counts, or reads the count anew.               *)
Exchange(t) ==
  LET r == retaining[t]
  IN /\ ~ AtRest(t) /\ r.seen < RefMax
     /\ IF heap[r.address].references = r.seen
        THEN /\ heap' = [heap EXCEPT ![r.address].references = @ + 1]
             /\ held' = [held EXCEPT ![t][r.address] = @ + 1]
             /\ retaining' = [retaining EXCEPT ![t] = Resting]
        ELSE /\ retaining' = [retaining EXCEPT ![t].seen = heap[r.address].references]
             /\ UNCHANGED <<heap, held>>
     /\ UNCHANGED <<published, columns, declared, last>>

Release(t) ==
  /\ AtRest(t)
  /\ \E a \in Addresses :
       /\ held[t][a] > 0
       /\ heap' = ReleasedIn(heap, a)
       /\ held' = [held EXCEPT ![t][a] = @ - 1]
  /\ UNCHANGED <<published, columns, retaining, declared, last>>

(* The application passes a reference to another thread.                   *)
HandOver(t, u) ==
  /\ t # u /\ AtRest(t)
  /\ \E a \in Addresses :
       /\ held[t][a] > 0
       /\ held' = [held EXCEPT ![t][a] = @ - 1, ![u][a] = @ + 1]
  /\ UNCHANGED <<heap, published, columns, retaining, declared, last>>

(* sqli_result_cleanup                                                     *)
Cleanup ==
  /\ AtRest(Owner) /\ published # Nil
  /\ heap' = ReleasedIn(heap, published)
  /\ published' = Nil /\ columns' = <<>>
  /\ UNCHANGED <<held, retaining, declared, last>>

Next ==
  \/ ReceiveDescribe \/ GetDescriptor \/ Cleanup
  \/ \E t \in Threads : Retain(t) \/ RetainLimit(t) \/ Exchange(t) \/ Release(t)
  \/ \E t, u \in Threads : HandOver(t, u)

Spec == Init /\ [][Next]_vars

-----------------------------------------------------------------------------
(* What the getters should say of a field as the server declared it.       *)
FieldTruthful(f, extended, column) ==
  LET type == F!GetType(f, extended)
  IN /\ type # Missing => column.type = type
     /\ f.name # Missing => F!Cut(f.name) = column.name
     /\ F!GetScale(f, extended) # Missing =>
          F!GetScale(f, extended) <= F!GetPrecision(f, extended)

HoldersOf(a) ==
  FoldSet(LAMBDA t, n : n + held[t][a], IF published = a THEN 1 ELSE 0, Threads)

(* A descriptor has as many references as holders and lives as long as     *)
(* one of them; it says what the server declared, and so do the columns of *)
(* the result that published it; a frame is taken over exactly if it is    *)
(* acceptable.                                                             *)
SnapshotTruthful ==
  /\ \A a \in Addresses :
       /\ heap[a].references = HoldersOf(a)
       /\ Live(a) =>
            /\ heap[a].contents.fields = declared[a].fields
            /\ heap[a].contents.header =
                 [declared[a].header EXCEPT !.field_count = Len(declared[a].fields),
                                            !.names_length = heap[a].contents.header.names_length]
  /\ published # Nil =>
       /\ Len(columns) = Len(declared[published].fields)
       /\ \A i \in DOMAIN columns :
            FieldTruthful(declared[published].fields[i], declared[published].extended, columns[i])
  /\ last.status # "ALLOC_FAIL" => (last.status = "OK") = last.due
=============================================================================
