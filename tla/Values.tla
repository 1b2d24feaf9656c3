------------------------------- MODULE Values -------------------------------
(***************************************************************************)
(* The values of the library side by side: what a prepared statement and a *)
(* client exchange (Prepared.tla), native values, replies and addresses.   *)
(* Each behaviour is about one subject and leaves the others alone.        *)
(***************************************************************************)
EXTENDS Prepared

CONSTANTS
  LimbDigits, MaxDigits, ScaleMax, PlainExponent, I64Max,     \* Decimal
  MaxGroups, ExponentBias,                                    \* DecimalCodec
  DecimalTargets, DecimalCoefficients, DecimalComparands,     \* Decimals
  DecimalSources, DecimalTexts, DecimalColumns, DecimalReceived,
  TemporalGiven, TemporalTexts,                               \* Temporals
  TemporalQualifiers, TemporalReceived,
  CalendarStarts, Walk, DaySeconds, SecondParts,              \* Calendar
  TupleMax, ArenaMin, MessageMax, ExtraMax, TurnMax,          \* Reception
  BufferSizes, Replies,
  ComponentMax, KeyMax, PortMax, QueryMax, SocketMax, EntryMax, \* ConnectUri
  Destinations, Logins, Environments,
  LineMax, HostNameMax, WordMax, HostsMax, Files, HostNames, Garbage \* Sqlhosts

VARIABLES
  value, reply,                                               \* Decimals
  interval, moment, answer,                                   \* Temporals
  date, time, number, walked,                                 \* Calendar
  said, capacity, incoming, reader, result, arena, tuples, blob, \* Reception
  destination, login, environment, passed,                    \* ConnectUri
  hostsFile, linesLeft, optionBuffer, hostEntries, parsing    \* Sqlhosts

decimals == <<value, reply>>
temporals == <<interval, moment, answer>>
calendar == <<date, time, number, walked>>
reception == <<said, capacity, incoming, reader, result, arena, tuples, blob>>
address == <<destination, login, environment, passed>>
hosts == <<hostsFile, linesLeft, optionBuffer, hostEntries, parsing>>

otherVars == <<decimals, temporals, calendar, reception, address, hosts>>

-----------------------------------------------------------------------------
D == INSTANCE Decimals WITH
  Targets <- DecimalTargets, Coefficients <- DecimalCoefficients,
  Comparands <- DecimalComparands, Sources <- DecimalSources, Texts <- DecimalTexts,
  Columns <- DecimalColumns, Received <- DecimalReceived

T == INSTANCE Temporals WITH
  Given <- TemporalGiven, Texts <- TemporalTexts,
  Qualifiers <- TemporalQualifiers, Received <- TemporalReceived

C == INSTANCE Calendar WITH Starts <- CalendarStarts

RC == INSTANCE Reception WITH
  Base <- WireBase, reply <- said, wire <- incoming, rows <- tuples

A == INSTANCE ConnectUri

H == INSTANCE Sqlhosts WITH
  NameMax <- HostNameMax, Names <- HostNames, file <- hostsFile, unread <- linesLeft,
  options <- optionBuffer, entries <- hostEntries, status <- parsing

-----------------------------------------------------------------------------
(* A subject that a behaviour is not about stays as it is created.         *)
ValuesInit ==
  /\ Init
  /\ D!Init
  /\ T!Init /\ (subject # "temporals" => ~ interval)
  /\ C!Init /\ (subject # "calendar" => date = (CHOOSE start \in CalendarStarts : TRUE).date /\ time = [second |-> 0, part |-> 0])
  /\ IF subject = "replies" THEN RC!Init
     ELSE /\ RC!Waiting(CHOOSE some \in Replies : TRUE, CHOOSE size \in BufferSizes : TRUE)
          /\ incoming = <<>>
  /\ IF subject = "address" THEN A!Init
     ELSE /\ destination = CHOOSE some \in Destinations : TRUE
          /\ login = CHOOSE some \in Logins : TRUE
          /\ environment = CHOOSE some \in Environments : TRUE
          /\ passed = Idle
  /\ IF subject = "hosts" THEN H!Init
     ELSE /\ hostsFile = Nil /\ linesLeft = <<>> /\ optionBuffer = Garbage
          /\ hostEntries = <<>> /\ parsing = Nil

ValuesNext ==
  \/ Next /\ UNCHANGED otherVars
  \/ subject = "decimals" /\ D!Next
     /\ UNCHANGED <<vars, temporals, calendar, reception, address, hosts>>
  \/ subject = "temporals" /\ T!Next
     /\ UNCHANGED <<vars, decimals, calendar, reception, address, hosts>>
  \/ subject = "calendar" /\ C!Next
     /\ UNCHANGED <<vars, decimals, temporals, reception, address, hosts>>
  \/ subject = "replies" /\ RC!Next
     /\ UNCHANGED <<vars, decimals, temporals, calendar, address, hosts>>
  \/ subject = "address" /\ A!Next
     /\ UNCHANGED <<vars, decimals, temporals, calendar, reception, hosts>>
  \/ subject = "hosts" /\ H!Next
     /\ UNCHANGED <<vars, decimals, temporals, calendar, reception, address>>

ValuesSpec == ValuesInit /\ [][ValuesNext]_<<vars, otherVars>>

-----------------------------------------------------------------------------
(* Native values are exact: no digit of a number and no field of a DATETIME *)
(* or INTERVAL is lost on the way through limbs, texts and columns          *)
(* (Decimals.tla, Temporals.tla), and the calendars of the library agree    *)
(* day by day (Calendar.tla).                                               *)
NativeExact == D!DecimalExact /\ T!TemporalExact /\ []C!CalendarCounts

(* A result is what the server said (Reception.tla).                       *)
ReplyTruthful == subject = "replies" => RC!ReplyTruthful

(* A server is reached where the caller, or the file, says it is           *)
(* (ConnectUri.tla, Sqlhosts.tla).                                         *)
AddressTruthful ==
  /\ subject = "address" => A!AddressTruthful
  /\ subject = "hosts" => H!HostsTruthful
=============================================================================
