------------------------------ MODULE Sqlhosts ------------------------------
(***************************************************************************)
(* The sqlhosts file (sqli_sqlhosts.c): read line by line into entries,    *)
(* among which a server is then looked up.  A line is a sequence of        *)
(* characters without its newline; " " stands for all white space.         *)
(***************************************************************************)
EXTENDS Integers, SequencesExt

CONSTANTS
  LineMax,     \* what fgets takes of a line (1023)
  NameMax,     \* what the buffers of names, hosts and options hold (255)
  WordMax,     \* the same for protocols and services (63)
  HostsMax,    \* MAX_ENTRIES (256)
  Files,       \* contents of the file: sequences of lines
  Names,       \* servers that are looked up
  Garbage,     \* what an uninitialized buffer holds
  Nil

VARIABLES
  file,        \* the lines of the file, or Nil: there is none
  unread,      \* those that are left
  options,     \* the buffer of the options, the same in every turn
  entries,     \* arr[0 .. n - 1]
  status       \* what sqli_parse_sqlhosts returned, Nil while it reads

vars == <<file, unread, options, entries, status>>

Trim(s) ==
  LET inked == {i \in DOMAIN s : s[i] # " "}
  IN IF inked = {} THEN <<>> ELSE SubSeq(s, Min(inked), Max(inked))

(* sscanf("%255s %63s %255s %63s %255[^\n]").                              *)
Scan(s) ==
  LET Skip(t) == SubSeq(t, Min({i \in DOMAIN t : t[i] # " "} \cup {Len(t) + 1}), Len(t))
      Word(t, width) ==
        SubSeq(t, 1, Min({i - 1 : i \in {j \in DOMAIN t : t[j] = " "}} \cup {width, Len(t)}))
      width == <<NameMax, WordMax, NameMax, WordMax>>
      rest[k \in 1 .. 5] ==
        IF k = 1 THEN Skip(s)
        ELSE Skip(SubSeq(rest[k - 1], Len(Word(rest[k - 1], width[k - 1])) + 1, Len(rest[k - 1])))
  IN [words |-> [k \in 1 .. 4 |-> Word(rest[k], width[k])],
      options |-> SubSeq(rest[5], 1, Min({NameMax, Len(rest[5])}))]

Entry(words, rest) ==
  [server_name |-> words[1], protocol |-> words[2], hostname |-> words[3],
   service |-> words[4], options |-> rest]

Passed(s) == s = <<>> \/ s[1] \in {"#", "@"} \/ <<>> \in Range(Scan(s).words)

-----------------------------------------------------------------------------
(* No file is an empty one; one that may not be opened is an error, and so *)
(* is a lack of memory.                                                    *)
Init ==
  /\ file \in Files \cup {Nil}
  /\ unread = IF file = Nil THEN <<>> ELSE file
  /\ options = Garbage
  /\ entries = <<>>
  /\ status = Nil

Fail ==
  /\ status = Nil /\ file # Nil /\ unread = file /\ entries = <<>>
  /\ status' \in {"IO_ERROR", "ALLOC_FAIL"}
  /\ UNCHANGED <<file, unread, options, entries>>

(* What does not fit fgets is read as a line of its own.  Without options  *)
(* the line leaves their buffer alone, whose value is indeterminate.       *)
ReadLine ==
  LET line == unread[1]
      s == Trim(SubSeq(line, 1, Min({LineMax, Len(line)})))
      read == Scan(s)
  IN /\ status = Nil /\ unread # <<>> /\ Len(entries) < HostsMax
     /\ unread' = IF Len(line) < LineMax THEN Tail(unread)
                  ELSE <<SubSeq(line, LineMax + 1, Len(line))>> \o Tail(unread)
     /\ IF Passed(s) THEN UNCHANGED <<options, entries>>
        ELSE /\ options' \in IF read.options # <<>> THEN {Trim(read.options)} ELSE {options, Garbage}
             /\ entries' = Append(entries, Entry(read.words, options'))
     /\ UNCHANGED <<file, status>>

Finish ==
  /\ status = Nil /\ (unread = <<>> \/ Len(entries) = HostsMax)
  /\ status' = "OK"
  /\ UNCHANGED <<file, unread, options, entries>>

(* The caller frees the entries and reads the file once more.              *)
Again ==
  /\ status # Nil
  /\ unread' = IF file = Nil THEN <<>> ELSE file
  /\ options' = Garbage /\ entries' = <<>> /\ status' = Nil
  /\ UNCHANGED file

Next == Fail \/ ReadLine \/ Finish \/ Again

Spec == Init /\ [][Next]_vars

-----------------------------------------------------------------------------
(* Names are looked up without regard to case; the first match counts.     *)
Lower == ("A" :> "a") @@ ("B" :> "b")

Folded(name) == [i \in DOMAIN name |-> IF name[i] \in DOMAIN Lower THEN Lower[name[i]] ELSE name[i]]

FindEntry(name) ==
  LET found == {i \in DOMAIN entries : Folded(entries[i].server_name) = Folded(name)}
  IN IF found = {} THEN Nil ELSE entries[Min(found)]

-----------------------------------------------------------------------------
(* What a line says: its words, and the text behind the fourth.            *)
Begins(line) == {i \in DOMAIN line : line[i] # " " /\ (i = 1 \/ line[i - 1] = " ")}

WordAt(line, i) ==
  SubSeq(line, i, Min({j - 1 : j \in {k \in i .. Len(line) : line[k] = " "}} \cup {Len(line)}))

Says(line) ==
  LET begin == SetToSortSeq(Begins(line), <)
  IN Entry([k \in 1 .. 4 |-> WordAt(line, begin[k])],
           IF Len(begin) = 4 THEN <<>> ELSE Trim(SubSeq(line, begin[5], Len(line))))

Declares(line) ==
  /\ Cardinality(Begins(line)) >= 4
  /\ line[Min(Begins(line))] \notin {"#", "@"}

(* Lines that fit fgets and whose fields fit their buffers.                *)
Fits(line) ==
  /\ Len(line) < LineMax
  /\ Declares(line) =>
       LET said == Says(line)
       IN /\ \A field \in {"server_name", "hostname", "options"} : Len(said[field]) <= NameMax
          /\ \A field \in {"protocol", "service"} : Len(said[field]) <= WordMax

Same(entry, said) ==
  /\ \A field \in {"server_name", "protocol", "hostname", "service"} : entry[field] = said[field]
  /\ said.options # <<>> => entry.options = said.options

(* A server that is looked up has the protocol, host, service and options  *)
(* of the first line that names it, among as many lines as there is room   *)
(* for, and no other server is found (sqli_parse_sqlhosts,                 *)
(* sqli_find_sqlhosts_entry).  Options that a line does not give are not   *)
(* empty: they are those of an earlier line, or garbage.                   *)
HostsTruthful ==
  status = "OK" /\ (file # Nil => \A i \in DOMAIN file : Fits(file[i])) =>
    LET lines == IF file = Nil THEN <<>> ELSE SelectSeq(file, Declares)
        kept == SubSeq(lines, 1, Min({HostsMax, Len(lines)}))
    IN \A name \in Names :
         LET said == {i \in DOMAIN kept : Folded(Says(kept[i]).server_name) = Folded(name)}
         IN IF said = {} THEN FindEntry(name) = Nil
            ELSE FindEntry(name) # Nil /\ Same(FindEntry(name), Says(kept[Min(said)]))
=============================================================================
