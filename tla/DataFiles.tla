----------------------------- MODULE DataFiles ------------------------------
(***************************************************************************)
(* How services keep their databases: the main loop of main.c, which saves *)
(* them one after the other, the signals that interrupt it, the commands   *)
(* that end it, and the files of datafiles.c: a database is written to a   *)
(* new file while the old one waits under the name .save.                  *)
(*                                                                         *)
(* What a database holds is a set of changes.  A file on disk is "full",   *)
(* "part" (cut off somewhere), "held" (all of it was written, the end is   *)
(* still in the buffer of stdio) or "none".  A failure of the system or of *)
(* a call happens at most once.  The options -skeleton and NoBackupOkay    *)
(* are off.                                                                *)
(***************************************************************************)
EXTENDS Integers, Sequences

CONSTANTS
  DBs,       \* bound: the databases that are in use
  Changes,   \* what a command or an expiry may write into a database
  Written,   \* bound: <<d, c>> if change c happens to database d
  FaultSets  \* bound: the sets of failures that may happen in one run

(* How the routine that saves a database departs from the others: tested   *)
(* if it looks whether open_db failed, blind if it has writes whose        *)
(* failure it does not see (SAFE tests for a negative result, write_buffer *)
(* returns 0 or 1).                                                        *)
save_ns_dbase   == [tested |-> TRUE,  blind |-> TRUE]
save_cs_dbase   == [tested |-> TRUE,  blind |-> TRUE]
save_cr_dbase   == [tested |-> TRUE,  blind |-> TRUE]
save_os_dbase   == [tested |-> TRUE,  blind |-> FALSE]
save_akill      == [tested |-> FALSE, blind |-> TRUE]
save_news       == [tested |-> TRUE,  blind |-> TRUE]
save_spam       == [tested |-> TRUE,  blind |-> TRUE]
save_ipv        == [tested |-> TRUE,  blind |-> TRUE]
save_jok_dbase  == [tested |-> TRUE,  blind |-> FALSE]
save_aregistra  == [tested |-> FALSE, blind |-> TRUE]
save_alimit     == [tested |-> FALSE, blind |-> TRUE]
save_anick      == [tested |-> FALSE, blind |-> TRUE]
save_achanakick == [tested |-> FALSE, blind |-> TRUE]

(* How the routine that loads it departs from the others: called if init   *)
(* calls it at all, takes if it may take a file that is cut off for whole  *)
(* without -forceload.                                                     *)
load_ns_dbase   == [called |-> TRUE,  takes |-> TRUE]
load_cs_dbase   == [called |-> TRUE,  takes |-> FALSE]
load_cr_dbase   == [called |-> TRUE,  takes |-> FALSE]
load_os_dbase   == [called |-> TRUE,  takes |-> FALSE]
load_akill      == [called |-> TRUE,  takes |-> TRUE]
load_news       == [called |-> TRUE,  takes |-> FALSE]
load_spam       == [called |-> TRUE,  takes |-> TRUE]
load_ipv        == [called |-> TRUE,  takes |-> FALSE]
load_jok_dbase  == [called |-> TRUE,  takes |-> FALSE]
load_aregistra  == [called |-> FALSE, takes |-> TRUE]
load_alimit     == [called |-> FALSE, takes |-> TRUE]
load_anick      == [called |-> FALSE, takes |-> TRUE]
load_achanakick == [called |-> TRUE,  takes |-> TRUE]

Saver == [nick      |-> save_ns_dbase,  chan       |-> save_cs_dbase,
          creg      |-> save_cr_dbase,  oper       |-> save_os_dbase,
          akill     |-> save_akill,     news       |-> save_news,
          spam      |-> save_spam,      ipv        |-> save_ipv,
          joku      |-> save_jok_dbase, aregistra  |-> save_aregistra,
          alimit    |-> save_alimit,    anick      |-> save_anick,
          achanakick |-> save_achanakick]

Loader == [nick      |-> load_ns_dbase,  chan       |-> load_cs_dbase,
           creg      |-> load_cr_dbase,  oper       |-> load_os_dbase,
           akill     |-> load_akill,     news       |-> load_news,
           spam      |-> load_spam,      ipv        |-> load_ipv,
           joku      |-> load_jok_dbase, aregistra  |-> load_aregistra,
           alimit    |-> load_alimit,    anick      |-> load_anick,
           achanakick |-> load_achanakick]

(* The order in which the main loop saves them.                            *)
SaveOrder == <<"nick", "chan", "creg", "oper", "akill", "news", "spam",
               "ipv", "joku", "aregistra", "alimit", "anick", "achanakick">>
Order == SelectSeq(SaveOrder, LAMBDA d : d \in DBs)

FaultKinds ==
  { "rename",    \* the old file cannot be renamed to .save
    "create",    \* the new file cannot be created
    "write",     \* a write fails, and SAFE sees it
    "back",      \* .save cannot be renamed back
    "copy",      \* nor can it be copied back by hand
    "blind",     \* a write fails, and SAFE does not see it
    "flush",     \* the last write fails, in fclose
    "crash",     \* services are killed
    "signal",    \* a signal interrupts the writing of a file
    "late" }     \* either comes after .save was removed, before fclose

ASSUME DBsAssumption   == DBs \subseteq DOMAIN Saver /\ DBs # {}
ASSUME OrderAssumption ==
  /\ Order \in Seq(DBs)
  /\ Len(Order) > 0
  /\ \A d \in DBs : \E i \in 1..Len(Order) : Order[i] = d
  /\ \A i, j \in 1..Len(Order) : Order[i] = Order[j] => i = j
ASSUME WrittenAssumption == Written \subseteq DBs \X Changes
ASSUME FaultAssumption == FaultSets \subseteq SUBSET FaultKinds

VARIABLES
  mem,           \* what the running services know
  file,          \* the files
  save,          \* the files .save
  save_data,     \* 1: save; -2: save and restart
  delayed_quit,  \* leave the loop after saving
  quitting,      \* leave the loop
  readonly,
  ignored,       \* the signals set to SIG_IGN
  stage,         \* where the process is
  k,             \* the database that is being saved, as an index of Order; or 1
  best,          \* history: what a completed save has stored
  short,         \* history: the databases that lost some of that in loading
  faults,        \* history: the failures so far
  ended          \* history: "ordered" if the loop was left as it was told to

orders == <<save_data, delayed_quit, quitting>>
disk   == <<file, save>>
past   == <<best, short, ended>>
vars   == <<mem, disk, orders, readonly, ignored, stage, k, past, faults>>

Absent == [has |-> {}, part |-> "none"]
Copies == [has : SUBSET Changes, part : {"none", "part", "held", "full"}]
db     == Order[k]

(* A failure happens.                                                      *)
Fail(f) == /\ f \cap faults = {}
           /\ \E s \in FaultSets : faults \cup f \subseteq s
           /\ faults' = faults \cup f
NoFail  == faults' = faults
-----------------------------------------------------------------------------
(* Leaving main.  exit flushes the streams that a signal left open; execve *)
(* drops them, as a kill does.                                             *)
As(f, part) == [has |-> f.has, part |-> part]
Flushed(f)  == IF f.part = "held" THEN As(f, "full") ELSE f
Dropped(f)  == IF f.part = "held" THEN As(f, "part") ELSE f
AtExit(f)   == IF save_data = -2 THEN Dropped(f) ELSE Flushed(f)

Leave(how) ==
  /\ stage' = "down"
  /\ ended' = how
  /\ file'  = [d \in DBs |-> AtExit(file[d])]
  /\ save'  = [d \in DBs |-> AtExit(save[d])]

(* After saving, or without it: quit if told so, or read from the server.  *)
Continue(how) ==
  IF delayed_quit THEN Leave(how)
                  ELSE stage' = "read" /\ UNCHANGED <<disk, ended>>

(* The top of the loop: expire, which changes the databases, and begin to  *)
(* save, when told to or when UpdateTimeout has passed; a read-only        *)
(* process does neither.                                                   *)
Change == \E w \in Written : mem' = [mem EXCEPT ![w[1]] = @ \cup {w[2]}]

TopQuits == /\ quitting
            /\ Leave("cut")
            /\ UNCHANGED <<mem, k>>

TopSaves == /\ ~quitting /\ ~readonly
            /\ UNCHANGED mem \/ Change
            /\ stage' = "unlink" /\ k' = 1
            /\ UNCHANGED <<disk, ended>>

(* Mutant of TopRests: the order to quit is looked at only after a save.   *)
TopRestsOn == /\ ~quitting /\ (readonly \/ save_data = 0)
              /\ UNCHANGED mem \/ (~readonly /\ Change)
              /\ stage' = "read"
              /\ UNCHANGED <<k, disk, ended>>
TopRests == /\ ~quitting /\ (readonly \/ save_data = 0)
            /\ UNCHANGED mem \/ (~readonly /\ Change)
            /\ Continue(IF readonly THEN "cut" ELSE "ordered")
            /\ UNCHANGED k

Top == /\ stage = "top"
       /\ TopQuits \/ TopSaves \/ TopRests
       /\ NoFail
       /\ UNCHANGED <<orders, readonly, ignored, best, short>>

(* The end of a round of saving.                                           *)
EndRound ==
  /\ stage = "saved"
  /\ \/ save_data < 0 /\ Leave("ordered") /\ UNCHANGED save_data
     \/ save_data >= 0 /\ Continue("ordered") /\ save_data' = 0
  /\ NoFail
  /\ UNCHANGED <<mem, delayed_quit, quitting, readonly, ignored, k, best, short>>
-----------------------------------------------------------------------------
(* The file of one database.  When it is done, or given up, the next one.  *)
NextFile == IF k < Len(Order) THEN stage' = "unlink" /\ k' = k + 1
                              ELSE stage' = "saved" /\ k' = 1

(* open_db failed: most routines return, some write through NULL, and the  *)
(* handler of that signal ends the loop.                                   *)
GiveUp == IF Saver[db].tested
            THEN NextFile /\ UNCHANGED orders
            ELSE /\ stage' = "top" /\ k' = 1
                 /\ quitting' = TRUE
                 /\ UNCHANGED <<save_data, delayed_quit>>

(* open_db_write: remove .save, rename the file to .save, create the file. *)
Unlink ==
  /\ stage = "unlink"
  /\ save' = [save EXCEPT ![db] = Absent]
  /\ stage' = "rename"
  /\ NoFail
  /\ UNCHANGED <<mem, file, orders, readonly, ignored, k, past>>

Rename ==
  /\ stage = "rename"
  /\ \/ /\ save'  = [save EXCEPT ![db] = file[db]]
        /\ file'  = [file EXCEPT ![db] = Absent]
        /\ stage' = "create"
        /\ NoFail
        /\ UNCHANGED <<orders, k>>
     \/ /\ file[db].part # "none"      \* ENOENT is no failure
        /\ Fail({"rename"})
        /\ GiveUp
        /\ UNCHANGED disk
  /\ UNCHANGED <<mem, readonly, ignored, past>>

(* Renaming .save back, which fails if there is none.                      *)
BackAgain == /\ file' = [file EXCEPT ![db] = save[db]]
             /\ save' = [save EXCEPT ![db] = Absent]

(* Mutant of CreateFails: .save is not renamed back.                       *)
CreateFailsOnly == Fail({"create"}) /\ UNCHANGED disk
CreateFails == \/ Fail({"create"}) /\ BackAgain
               \/ /\ save[db].part # "none"
                  /\ Fail({"create", "back"}) /\ UNCHANGED disk

Create ==
  /\ stage = "create"
  /\ \/ /\ file'  = [file EXCEPT ![db] = [has |-> mem[db], part |-> "part"]]
        /\ stage' = "write"
        /\ NoFail
        /\ UNCHANGED <<save, orders, k>>
     \/ CreateFails /\ GiveUp
  /\ UNCHANGED <<mem, readonly, ignored, past>>

(* restore_db: rename .save back; if that fails, copy it by hand; either   *)
(* way .save goes.                                                         *)
(* Mutant of restore_db: .save is removed first.                           *)
restore_dbLate ==
  \/ Fail({"write"}) /\ UNCHANGED file /\ save' = [save EXCEPT ![db] = Absent]
restore_db ==
  \/ /\ save[db].part # "none" /\ Fail({"write"}) /\ BackAgain
  \/ /\ \/ save[db].part = "none" /\ Fail({"write"})
        \/ save[db].part # "none" /\ Fail({"write", "back", "copy"})
     /\ UNCHANGED file
     /\ save' = [save EXCEPT ![db] = Absent]
  \/ /\ save[db].part # "none" /\ Fail({"write", "back"}) /\ BackAgain

(* The routine writes its database.                                        *)
Write ==
  /\ stage = "write"
  /\ \/ /\ file' = [file EXCEPT ![db] = As(@, "held")]
        /\ stage' = "close"
        /\ NoFail
        /\ UNCHANGED <<save, k>>
     \/ /\ Saver[db].blind /\ Fail({"blind"})
        /\ stage' = "close"
        /\ UNCHANGED <<disk, k>>
     \/ restore_db /\ NextFile
  /\ UNCHANGED <<mem, orders, readonly, ignored, past>>

(* close_db: .save goes first, then fclose writes what stdio still holds.  *)
Close ==
  /\ stage = "close"
  /\ save' = [save EXCEPT ![db] = Absent]
  /\ stage' = "fclose"
  /\ NoFail
  /\ UNCHANGED <<mem, file, orders, readonly, ignored, k, past>>

FClose ==
  /\ stage = "fclose"
  /\ \/ /\ file' = [file EXCEPT ![db] = Flushed(@)]
        /\ best' = IF file[db].part = "held" THEN [best EXCEPT ![db] = mem[db]]
                                             ELSE best
        /\ NoFail
     \/ /\ file' = [file EXCEPT ![db] = Dropped(@)]
        /\ Fail({"flush"})
        /\ UNCHANGED best
  /\ NextFile
  /\ UNCHANGED <<mem, save, orders, readonly, ignored, short, ended>>
-----------------------------------------------------------------------------
(* A line from the server: a command that changes a database, UPDATE,      *)
(* SHUTDOWN, RESTART, QUIT, SET READONLY; or none, or the link is lost.    *)
Command == Change /\ UNCHANGED <<orders, readonly>>

do_update == /\ save_data' = 1
             /\ UNCHANGED <<mem, delayed_quit, quitting, readonly>>

do_shutdown == /\ save_data' = 1 /\ delayed_quit' = TRUE
               /\ UNCHANGED <<mem, quitting, readonly>>

do_restart == /\ save_data' = -2
              /\ UNCHANGED <<mem, delayed_quit, quitting, readonly>>

do_os_quit == /\ quitting' = TRUE
              /\ UNCHANGED <<mem, save_data, delayed_quit, readonly>>

SetReadonly == /\ readonly' = ~readonly
               /\ UNCHANGED <<mem, orders>>

LinkLost == do_os_quit

Process ==
  /\ stage = "read"
  /\ \/ Command \/ do_update \/ do_shutdown \/ do_restart
     \/ do_os_quit \/ SetReadonly \/ LinkLost
     \/ UNCHANGED <<mem, orders, readonly>>
  /\ stage' = "top"
  /\ NoFail
  /\ UNCHANGED <<disk, ignored, k, past>>
-----------------------------------------------------------------------------
(* A signal: the handler jumps to the top of the loop, also out of a file  *)
(* that is being written.                                                  *)
Midway == stage \in {"rename", "create", "write", "close", "fclose"}

SigHup == /\ "HUP" \notin ignored
          /\ save_data' = -2
          /\ ignored' = ignored \cup {"HUP"}
          /\ UNCHANGED <<delayed_quit, quitting>>

(* Mutant of SigTerm: it quits and does not save.                          *)
SigTermQuits == /\ "TERM" \notin ignored
                /\ delayed_quit' = TRUE
                /\ ignored' = {"TERM", "HUP"}
                /\ UNCHANGED <<save_data, quitting>>
SigTerm == /\ "TERM" \notin ignored
           /\ save_data' = 1 /\ delayed_quit' = TRUE
           /\ ignored' = {"TERM", "HUP"}
           /\ UNCHANGED quitting

(* SIGINT, SIGQUIT and the signals of a fault of the program.              *)
SigInt == /\ ~quitting
          /\ quitting' = TRUE
          /\ UNCHANGED <<save_data, delayed_quit, ignored>>

sighandler ==
  /\ stage # "down"
  /\ SigHup \/ SigTerm \/ SigInt
  /\ stage' = "top" /\ k' = 1
  /\ IF Midway THEN Fail({IF stage = "fclose" THEN "late" ELSE "signal"})
               ELSE NoFail
  /\ UNCHANGED <<mem, disk, readonly, past>>

(* Services are killed.                                                    *)
Crash ==
  /\ stage # "down"
  /\ Fail({IF stage = "fclose" THEN "late" ELSE "crash"})
  /\ stage' = "down" /\ k' = 1
  /\ mem' = [d \in DBs |-> {}]
  /\ ended' = "cut"
  /\ file' = [d \in DBs |-> Dropped(file[d])]
  /\ save' = [d \in DBs |-> Dropped(save[d])]
  /\ UNCHANGED <<orders, readonly, ignored, best, short>>
-----------------------------------------------------------------------------
(* What loading finds: of a file that is cut off only a part, unless the   *)
(* loader is fatal; without a file nothing, and no complaint.              *)
CutOff(d)    == Loader[d].called /\ file[d].part = "part"
Load(d, cut) == IF Loader[d].called
                  THEN IF CutOff(d) THEN file[d].has \cap cut ELSE file[d].has
                  ELSE {}

(* init: services start, unless a loader is fatal.                         *)
Start ==
  /\ stage = "down"
  /\ \E forceload \in BOOLEAN, cut \in SUBSET Changes :
       /\ \A d \in DBs : CutOff(d) => forceload \/ Loader[d].takes
       /\ mem' = [d \in DBs |-> Load(d, cut)]
  /\ short' = short \cup {d \in DBs : ~ best[d] \subseteq mem'[d]}
  /\ save_data' = 0 /\ delayed_quit' = FALSE /\ quitting' = FALSE
  /\ readonly' \in BOOLEAN
  /\ ignored' = {}
  /\ stage' = "top" /\ ended' = "cut"
  /\ NoFail
  /\ UNCHANGED <<disk, k, best>>

Init ==
  /\ mem  = [d \in DBs |-> {}]
  /\ file = [d \in DBs |-> Absent] /\ save = file
  /\ save_data = 0 /\ delayed_quit = FALSE /\ quitting = FALSE
  /\ readonly = FALSE /\ ignored = {}
  /\ stage = "down" /\ k = 1
  /\ best = [d \in DBs |-> {}] /\ short = {} /\ faults = {} /\ ended = "cut"

Loop == \/ Top \/ EndRound \/ Unlink \/ Rename \/ Create \/ Write \/ Close
        \/ FClose \/ Process

Next == Loop \/ sighandler \/ Crash \/ Start

Spec == Init /\ [][Next]_vars

(* The loop goes on: reading from the server ends after TimeoutCheck at    *)
(* the latest.                                                             *)
FairSpec == Spec /\ WF_vars(Loop)
-----------------------------------------------------------------------------
(* Every variable keeps its type.                                          *)
TypeOK ==
  /\ mem  \in [DBs -> SUBSET Changes]
  /\ file \in [DBs -> Copies] /\ save \in [DBs -> Copies]
  /\ save_data \in {0, 1, -2}
  /\ delayed_quit \in BOOLEAN /\ quitting \in BOOLEAN /\ readonly \in BOOLEAN
  /\ ignored \subseteq {"HUP", "TERM"}
  /\ stage \in {"down", "top", "unlink", "rename", "create", "write", "close",
                "fclose", "saved", "read"}
  /\ k \in 1..Len(Order)
  /\ best \in [DBs -> SUBSET Changes] /\ short \subseteq DBs
  /\ faults \subseteq FaultKinds /\ ended \in {"ordered", "cut"}

(* One failure that services can notice, or a failed write and a failed    *)
(* rename of .save together.                                               *)
OneFault == /\ \A f, g \in faults : f = g
            /\ faults \cap {"blind", "flush", "late"} = {}
Bearable == OneFault \/ faults = {"write", "back"}

Holds(copy, d) == copy.part = "full" /\ best[d] \subseteq copy.has

(* No single failure, and no signal, loses what a save has stored: it is   *)
(* in the file, in .save or in the memory of services that run - except    *)
(* for a database that was loaded in part before (open_db, restore_db and  *)
(* close_db of datafiles.c, with the signals of main.c).                   *)
SavedKept ==
  Bearable => \A d \in DBs \ short : \/ best[d] = {}
                                     \/ stage # "down" /\ best[d] \subseteq mem[d]
                                     \/ Holds(file[d], d)
                                     \/ Holds(save[d], d)

(* Calls that fail while saving, any number of them, never make the next   *)
(* start load less than was stored (the returns of open_db_write and       *)
(* restore_db), whichever way services ended.                              *)
RestoredWhole ==
  faults \subseteq {"rename", "create", "write"} =>
    \A d \in short : ~ Loader[d].called

(* When services stop or restart because they were told to, by SHUTDOWN,   *)
(* RESTART, SIGTERM or SIGHUP, every file holds what they knew, also if a  *)
(* signal interrupted the writing of a file (sighandler, the breaks of the *)
(* main loop).                                                             *)
ExitSaved ==
  (stage = "down" /\ ended = "ordered" /\ faults \subseteq {"signal", "late"}) =>
    \A d \in DBs : file[d] = [has |-> mem[d], part |-> "full"]

(* Once services are told to save and quit they stop, whatever fails, and  *)
(* in readonly mode too (delayed_quit in main.c).                          *)
StopsWhenTold == delayed_quit ~> stage = "down"
=============================================================================
