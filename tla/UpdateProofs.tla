---------------------------- MODULE UpdateProofs ----------------------------
(* Theorems of Update, for any number of terminals, inodes and releases,   *)
(* on Unix and on Windows.  Two facts carry them: nobody ever writes into  *)
(* the image of a running terminal, and as long as no download was spoilt  *)
(* exe.new belongs to the one terminal that is replacing, and is whole.    *)
EXTENDS Update, TLAPS

(* Two names never point to one inode. *)
NamesDiffer == \A m, n \in Names : dir[m] = dir[n] /\ dir[m] # NoInode => m = n

(* What a terminal runs is complete, nobody writes it or is about to, and  *)
(* Windows keeps a name for it.                                            *)
ImageKept(p) ==
    t[p].pc # "off" =>
        /\ data[t[p].img] # Torn /\ dir["new"] # t[p].img
        /\ \A q \in Terminals : t[q].fd # t[p].img
        /\ windows => t[p].img \in {dir["exe"], dir["old"]}

(* What a terminal has open it is writing, and the steps that are only for *)
(* Windows are only taken there.                                           *)
StepsFit(p) ==
    /\ t[p].pc = "copy" <=> t[p].fd # NoInode
    /\ t[p].pc \in {"copied", "cleared"} => windows

(* Releases come in order: neither a file nor a terminal is ahead of what  *)
(* is published, and the release a terminal fetches is no older than what  *)
(* was installed when it asked.                                            *)
NotAhead ==
    /\ \A i \in Inodes : data[i] # Torn => data[i] <= released
    /\ \A p \in Terminals : t[p].rel <= released
    /\ \A p \in Terminals :
          t[p].pc \in {"ask", "restart"} \cup Replacing => t[p].base = Torn \/ t[p].base <= t[p].rel

(* Unless a download was spoilt, exe.new is what the replacing terminal    *)
(* writes, or has written.                                                 *)
NewIsMine(p) ==
    /\ t[p].pc = "copy" => dir["new"] = t[p].fd
    /\ t[p].pc \in {"copied", "cleared", "rename"} =>
          dir["new"] # NoInode /\ data[dir["new"]] = t[p].rel

Alone ==
    ~spoilt =>
        /\ \A p, q \in Terminals : t[p].pc \in Replacing /\ t[q].pc \in Replacing => p = q
        /\ \A p \in Terminals : NewIsMine(p)

UpdateInv ==
    /\ TypeOK /\ NamesDiffer /\ NotAhead /\ Alone /\ BinaryNeverLost
    /\ \A p \in Terminals : ImageKept(p) /\ StepsFit(p)

-----------------------------------------------------------------------------
Busy == [pc : Running, img : Inodes, rel : Releases \cup {0},
         fd : Inodes \cup {NoInode}, base : Releases \cup {0, Torn}]

LEMMA BusyShape ==
    ASSUME TypeOK, NEW p \in Terminals, t[p].pc # "off"
    PROVE  t[p] \in Busy
BY DEF TypeOK, Off, Busy

(* What terminals are given: every record a step puts in place of t[p]. *)
LEMMA StepType ==
    ASSUME TypeOK, NEW p \in Terminals, NEW rec \in Busy \cup {Off}, Step(p, rec)
    PROVE  /\ t' \in [Terminals -> Busy \cup {Off}]
           /\ t'[p] = rec /\ \A q \in Terminals \ {p} : t'[q] = t[q]
BY DEF TypeOK, Step, Busy

LEMMA InitInv == Init => UpdateInv
<1> SUFFICES ASSUME Init
             PROVE  UpdateInv
  OBVIOUS
<1> USE UpdateAssumption
<1>1. PICK i \in Inodes : dir = [n \in Names |-> IF n = "exe" THEN i ELSE NoInode]
  BY DEF Init
<1>2. dir["exe"] = i /\ dir["new"] = NoInode /\ dir["old"] = NoInode
  BY <1>1 DEF Names
<1>3. 1 \in Releases /\ Torn \notin Releases
  BY DEF Releases
<1>4. TypeOK
  <2>1. data \in [Inodes -> Releases \cup {Torn}] /\ released \in Releases
    BY <1>2, <1>3 DEF Init
  <2>2. dir \in [Names -> Inodes \cup {NoInode}] /\ t \in [Terminals -> {Off}]
    BY <1>1 DEF Init
  <2> QED
    BY <2>1, <2>2 DEF Init, TypeOK
<1>5. NamesDiffer
  BY <1>2 DEF NamesDiffer, Names
<1>6. data[i] = 1 /\ \A j \in Inodes : data[j] \in {1, Torn}
  BY <1>2 DEF Init
<1>7. \A p \in Terminals : t[p] = Off
  BY DEF Init
<1>8. NotAhead
  BY <1>6, <1>7 DEF NotAhead, Off, Replacing, Init
<1>9. Alone /\ \A p \in Terminals : ImageKept(p) /\ StepsFit(p)
  BY <1>7 DEF Alone, NewIsMine, ImageKept, StepsFit, Off, Replacing
<1>10. BinaryNeverLost
  BY <1>2, <1>3, <1>6 DEF BinaryNeverLost, Complete
<1> QED
  BY <1>4, <1>5, <1>8, <1>9, <1>10 DEF UpdateInv

(* A step of a terminal that touches no file. *)
LEMMA NoFileStep ==
    ASSUME UpdateInv, NEW p \in Terminals, NEW rec \in Busy \cup {Off}, Step(p, rec),
           UNCHANGED <<windows, released, dir, data, spoilt>>,
           rec.fd = NoInode, rec.pc \notin Replacing,
           rec.pc # "off" => data[rec.img] # Torn /\ dir["new"] # rec.img
                             /\ (\A q \in Terminals : t[q].fd # rec.img)
                             /\ (windows => rec.img \in {dir["exe"], dir["old"]}),
           rec.rel <= released,
           rec.pc \in {"ask", "restart"} => rec.base = Torn \/ rec.base <= rec.rel
    PROVE  UpdateInv'
<1> USE UpdateAssumption DEF UpdateInv
<1>1. /\ t' \in [Terminals -> Busy \cup {Off}]
      /\ t'[p] = rec /\ \A q \in Terminals \ {p} : t'[q] = t[q]
  BY StepType
<1>2. TypeOK'
  BY <1>1 DEF TypeOK, Busy
<1>3. NamesDiffer' /\ BinaryNeverLost'
  BY DEF NamesDiffer, BinaryNeverLost, Complete
<1>4. NotAhead'
  BY <1>1 DEF NotAhead
<1>5. Alone'
  BY <1>1 DEF Alone, NewIsMine, Replacing
<1>6. ASSUME NEW q \in Terminals  PROVE ImageKept(q)' /\ StepsFit(q)'
  <2>1. \A o \in Terminals : t'[o].fd \in {t[o].fd, NoInode}
    BY <1>1
  <2>2. CASE q = p
    <3>1. rec.pc # "off" => rec.img \in Inodes
      BY DEF Off, Busy
    <3>2. ImageKept(p)'
      BY <1>1, <2>1, <3>1 DEF ImageKept
    <3>3. StepsFit(p)'
      BY <1>1 DEF StepsFit, Replacing
    <3> QED
      BY <2>2, <3>2, <3>3
  <2>3. CASE q # p
    <3>1. t[q].pc # "off" => t[q].img \in Inodes
      BY BusyShape DEF Busy
    <3>2. ImageKept(q)'
      BY <1>1, <2>1, <2>3, <3>1 DEF ImageKept
    <3>3. StepsFit(q)'
      BY <1>1, <2>3 DEF StepsFit
    <3> QED
      BY <3>2, <3>3
  <2> QED
    BY <2>2, <2>3
<1> QED
  BY <1>2, <1>3, <1>4, <1>5, <1>6

LEMMA PublishInv == ASSUME UpdateInv, Publish PROVE UpdateInv'
<1> USE UpdateAssumption DEF UpdateInv, Publish
<1>1. TypeOK'
  BY DEF TypeOK, Releases
<1>2. NotAhead'
  <2>1. released \in Nat /\ \A i \in Inodes : data[i] \in Releases \cup {Torn}
    BY DEF TypeOK, Releases
  <2>2. \A p \in Terminals : t[p].rel \in Nat
    BY DEF TypeOK, Releases, Off
  <2> QED
    BY <2>1, <2>2 DEF NotAhead, Releases
<1>3. NamesDiffer' /\ Alone' /\ BinaryNeverLost'
  BY DEF NamesDiffer, Alone, NewIsMine, BinaryNeverLost, Complete
<1>4. \A p \in Terminals : ImageKept(p)' /\ StepsFit(p)'
  BY DEF ImageKept, StepsFit
<1> QED
  BY <1>1, <1>2, <1>3, <1>4

(* What is installed is never ahead of what is published. *)
LEMMA InstalledFits ==
    ASSUME UpdateInv
    PROVE  Installed \in Releases \cup {Torn} /\ (Installed # Torn => Installed <= released)
<1>1. \A n \in Names : dir[n] # NoInode =>
          data[dir[n]] \in Releases \cup {Torn} /\ (data[dir[n]] # Torn => data[dir[n]] <= released)
  BY DEF UpdateInv, TypeOK, NotAhead
<1> QED
  BY <1>1 DEF Installed, Names

LEMMA PromptInv ==
    ASSUME UpdateInv, NEW p \in Terminals,
           Launch(p) \/ Exit(p) \/ Check(p) \/ GiveUp(p) \/ Restart(p) \/ RestartFails(p)
    PROVE  UpdateInv'
<1> USE UpdateAssumption
<1>0. TypeOK /\ \A q \in Terminals : ImageKept(q) /\ StepsFit(q)
  BY DEF UpdateInv
<1>1. 0 \in Releases \cup {0} /\ 0 \in Releases \cup {0, Torn} /\ 0 <= released
  BY <1>0 DEF TypeOK, Releases
<1> DEFINE Fresh == [Off EXCEPT !.pc = "prompt", !.img = dir["exe"]]
<1>2. ASSUME CanRun, Step(p, Fresh), UNCHANGED <<windows, released, dir, data, spoilt>>
      PROVE  UpdateInv'
  <2>1. /\ dir["exe"] # NoInode /\ data[dir["exe"]] # Torn /\ dir["exe"] \in Inodes
        /\ \A q \in Terminals : t[q].fd # dir["exe"]
    BY <1>0, <1>2 DEF CanRun, Complete, Open, TypeOK, Names
  <2>2. dir["new"] # dir["exe"]
    BY <2>1 DEF UpdateInv, NamesDiffer, Names
  <2>3. Fresh \in Busy
    BY <1>1, <2>1 DEF Busy, Off, Running, Replacing
  <2>4. Fresh.fd = NoInode /\ Fresh.pc = "prompt" /\ Fresh.rel = 0 /\ Fresh.img = dir["exe"]
    BY DEF Off
  <2> HIDE DEF Fresh
  <2> QED
    BY <1>1, <1>2, <2>1, <2>2, <2>3, <2>4, NoFileStep DEF Replacing
<1>3. ASSUME Exit(p)  PROVE UpdateInv'
  <2>1. Off.pc = "off" /\ Off.fd = NoInode /\ Off.rel = 0
    BY DEF Off
  <2> QED
    BY <1>1, <1>3, <2>1, NoFileStep DEF Exit, Replacing
<1>4. ASSUME Check(p)  PROVE UpdateInv'
  <2> DEFINE rec == [t[p] EXCEPT !.pc = "ask", !.rel = released, !.base = Installed]
  <2>1. t[p] \in Busy /\ t[p].pc = "prompt" /\ released \in Releases /\ released \in Nat
    BY <1>0, <1>4, BusyShape DEF Check, TypeOK, Releases
  <2>2. rec \in Busy
    BY <2>1, InstalledFits DEF Busy, Running
  <2>3. /\ rec.pc = "ask" /\ rec.rel = released /\ rec.base = Installed
        /\ rec.img = t[p].img /\ rec.fd = t[p].fd
    BY <2>1 DEF Busy
  <2>4. rec.fd = NoInode
    BY <1>0, <2>1, <2>3 DEF StepsFit
  <2>5. Step(p, rec) /\ UNCHANGED <<windows, released, dir, data, spoilt>>
    BY <1>4 DEF Check
  <2>6. /\ data[t[p].img] # Torn /\ dir["new"] # t[p].img
        /\ \A q \in Terminals : t[q].fd # t[p].img
        /\ windows => t[p].img \in {dir["exe"], dir["old"]}
    BY <1>0, <2>1 DEF ImageKept
  <2> HIDE DEF rec
  <2> QED
    BY <2>1, <2>2, <2>3, <2>4, <2>5, <2>6, InstalledFits, NoFileStep DEF Replacing
<1>5. ASSUME GiveUp(p) \/ RestartFails(p)  PROVE UpdateInv'
  <2>1. t[p] \in Busy /\ t[p].pc # "off"
    BY <1>0, <1>5, BusyShape DEF GiveUp, RestartFails
  <2>2. AtPrompt(p) \in Busy
    BY <1>1, <2>1 DEF Busy, AtPrompt, Running
  <2>3. /\ AtPrompt(p).pc = "prompt" /\ AtPrompt(p).rel = 0
        /\ AtPrompt(p).img = t[p].img /\ AtPrompt(p).fd = NoInode
    BY <2>1 DEF Busy, AtPrompt
  <2>4. Step(p, AtPrompt(p)) /\ UNCHANGED <<windows, released, dir, data, spoilt>>
    BY <1>5 DEF GiveUp, RestartFails
  <2>6. /\ data[t[p].img] # Torn /\ dir["new"] # t[p].img
        /\ \A q \in Terminals : t[q].fd # t[p].img
        /\ windows => t[p].img \in {dir["exe"], dir["old"]}
    BY <1>0, <2>1 DEF ImageKept
  <2> QED
    BY <1>1, <2>2, <2>3, <2>4, <2>6, NoFileStep DEF Replacing
<1>6. CASE Launch(p) \/ Restart(p)
  BY <1>2, <1>6 DEF Launch, Restart
<1> QED
  BY <1>3, <1>4, <1>5, <1>6

-----------------------------------------------------------------------------
(* A step of a running terminal that may touch files: what it has to       *)
(* respect.                                                                *)
LEMMA FileStep ==
    ASSUME UpdateInv, NEW p \in Terminals, NEW rec \in Busy, Step(p, rec), t[p].pc # "off",
           UNCHANGED <<windows, released>>,
           rec.img = t[p].img, rec.rel <= released,
           rec.pc \in {"ask", "restart"} \cup Replacing => rec.base = Torn \/ rec.base <= rec.rel,
           rec.pc = "copy" <=> rec.fd # NoInode,
           \A q \in Terminals : t[q].pc # "off" => rec.fd # t[q].img,
           rec.pc \in {"copied", "cleared"} => windows,
           dir' \in [Names -> Inodes \cup {NoInode}], NamesDiffer',
           data' \in [Inodes -> Releases \cup {Torn}], spoilt' \in BOOLEAN,
           \A i \in Inodes : data'[i] # Torn => data'[i] <= released,
           \A q \in Terminals : t[q].pc # "off" =>
               /\ data'[t[q].img] = data[t[q].img] /\ dir'["new"] # t[q].img
               /\ windows => t[q].img \in {dir'["exe"], dir'["old"]},
           ~windows /\ ~spoilt' => Complete("exe")', Alone'
    PROVE  UpdateInv'
<1> USE UpdateAssumption
<1>0. TypeOK /\ NotAhead /\ \A q \in Terminals : ImageKept(q) /\ StepsFit(q)
  BY DEF UpdateInv
<1>1. /\ t' \in [Terminals -> Busy \cup {Off}]
      /\ t'[p] = rec /\ \A q \in Terminals \ {p} : t'[q] = t[q]
  BY <1>0, StepType
<1>2. TypeOK'
  BY <1>0, <1>1 DEF TypeOK, Busy
<1>3. NotAhead'
  BY <1>0, <1>1 DEF NotAhead
<1>4. rec.pc # "off" /\ \A q \in Terminals : t[q].pc # "off" => t[q].img \in Inodes
  BY <1>0, BusyShape DEF Busy, Running, Replacing
<1>5. ASSUME NEW q \in Terminals, t'[q].pc # "off"
      PROVE  /\ t[q].pc # "off" /\ t'[q].img = t[q].img
             /\ \A o \in Terminals : t'[o].fd # t[q].img
  <2>1. t[q].pc # "off" /\ t'[q].img = t[q].img
    BY <1>1, <1>5
  <2> QED
    BY <1>0, <1>1, <2>1 DEF ImageKept
<1>6. \A q \in Terminals : ImageKept(q)'
  BY <1>0, <1>5 DEF ImageKept
<1>7. \A q \in Terminals : StepsFit(q)'
  BY <1>0, <1>1 DEF StepsFit
<1>8. BinaryNeverLost'
  <2>1. CASE windows
    <3>1. t[p].img \in Inodes /\ NoInode \notin Inodes
      BY <1>4
    <3>2. data'[t[p].img] # Torn /\ t[p].img \in {dir'["exe"], dir'["old"]}
      BY <1>0, <2>1 DEF ImageKept
    <3> QED
      BY <2>1, <3>1, <3>2 DEF BinaryNeverLost, Complete
  <2>2. CASE ~windows
    BY <2>2 DEF BinaryNeverLost
  <2> QED
    BY <2>1, <2>2
<1> QED
  BY <1>2, <1>3, <1>6, <1>7, <1>8 DEF UpdateInv

LEMMA OpenInv == ASSUME UpdateInv, NEW p \in Terminals, NEW i \in Inodes, OpenNew(p, i) PROVE UpdateInv'
<1> USE UpdateAssumption
<1>0. /\ TypeOK /\ NotAhead /\ NamesDiffer /\ BinaryNeverLost
      /\ \A q \in Terminals : ImageKept(q) /\ StepsFit(q)
  BY DEF UpdateInv
<1> DEFINE rec == [t[p] EXCEPT !.pc = "copy", !.fd = i]
<1>1. t[p] \in Busy /\ t[p].pc = "ask" /\ i # NoInode
  BY <1>0, BusyShape DEF OpenNew
<1>2. /\ rec \in Busy /\ rec.pc = "copy" /\ rec.fd = i
      /\ rec.img = t[p].img /\ rec.rel = t[p].rel /\ rec.base = t[p].base
  BY <1>1 DEF Busy, Running, Replacing
<1>3. Step(p, rec) /\ UNCHANGED <<windows, released>>
  BY DEF OpenNew
<1>4. /\ dir' = [dir EXCEPT !["new"] = i] /\ data' = [data EXCEPT ![i] = Torn]
      /\ dir' \in [Names -> Inodes \cup {NoInode}] /\ data' \in [Inodes -> Releases \cup {Torn}]
  BY <1>0 DEF OpenNew, TypeOK
<1>5. dir'["new"] = i /\ dir'["exe"] = dir["exe"] /\ dir'["old"] = dir["old"]
  BY <1>0, <1>4 DEF TypeOK, Names
<1>6. i # dir["exe"] /\ i # dir["old"]
  <2>1. CASE dir["new"] = NoInode
    BY <2>1 DEF OpenNew, Free, Linked, Names
  <2>2. CASE dir["new"] # NoInode
    BY <1>0, <1>1, <2>2 DEF OpenNew, NamesDiffer, Names
  <2> QED
    BY <2>1, <2>2
<1>7. \A q \in Terminals : t[q].pc # "off" => i # t[q].img
  <2>1. CASE dir["new"] = NoInode
    BY <2>1 DEF OpenNew, Free, IsImage
  <2>2. CASE dir["new"] # NoInode
    BY <1>0, <2>2 DEF OpenNew, ImageKept
  <2> QED
    BY <2>1, <2>2
<1>8. NamesDiffer'
  BY <1>0, <1>5, <1>6 DEF NamesDiffer, Names
<1>9. \A j \in Inodes : data'[j] # Torn => data'[j] <= released
  BY <1>0, <1>4 DEF TypeOK, NotAhead
<1>10. \A q \in Terminals : t[q].pc # "off" =>
           /\ data'[t[q].img] = data[t[q].img] /\ dir'["new"] # t[q].img
           /\ windows => t[q].img \in {dir'["exe"], dir'["old"]}
  <2>1. \A q \in Terminals : t[q].pc # "off" => t[q].img \in Inodes
    BY <1>0, BusyShape DEF Busy
  <2> QED
    BY <1>0, <1>4, <1>5, <1>7, <2>1 DEF ImageKept, TypeOK
<1>11. ASSUME ~windows, ~spoilt'  PROVE Complete("exe")'
  <2>1. ~spoilt
    BY <1>11 DEF OpenNew
  <2>2. Complete("exe") /\ dir["exe"] \in Inodes
    BY <1>0, <1>11, <2>1 DEF BinaryNeverLost, Complete, TypeOK, Names
  <2> QED
    BY <1>0, <1>4, <1>5, <1>6, <2>2 DEF Complete, TypeOK
<1>12. Alone'
  <2>1. SUFFICES ASSUME ~spoilt'
                 PROVE  /\ \A q, o \in Terminals :
                               t'[q].pc \in Replacing /\ t'[o].pc \in Replacing => q = o
                        /\ \A q \in Terminals : NewIsMine(q)'
    BY DEF Alone
  <2>2. t'[p] = rec /\ \A q \in Terminals \ {p} : t'[q] = t[q] /\ t[q].pc \notin Replacing
    BY <1>0, <1>1, <1>2, <1>3, <2>1, StepType DEF OpenNew
  <2> HIDE DEF rec
  <2> QED
    BY <1>2, <1>5, <2>2 DEF NewIsMine, Replacing
<1>13. spoilt' \in BOOLEAN
  BY <1>0 DEF OpenNew, TypeOK
<1>14. rec.base = Torn \/ rec.base <= rec.rel
  BY <1>0, <1>1, <1>2 DEF NotAhead
<1>15. rec.rel <= released
  BY <1>0, <1>2 DEF NotAhead
<1> HIDE DEF rec
<1> QED
  BY <1>1, <1>2, <1>3, <1>4, <1>7, <1>8, <1>9, <1>10, <1>11, <1>12, <1>13, <1>14, <1>15, FileStep

(* The end of a download, good or bad: only the terminal's own file        *)
(* changes.                                                                *)
LEMMA CopyKeeps ==
    ASSUME UpdateInv, NEW p \in Terminals, t[p].pc = "copy",
           NEW content \in Releases \cup {Torn}, data' = [data EXCEPT ![t[p].fd] = content],
           dir' \in {dir, Removed("new")}
    PROVE  /\ t[p].fd \in Inodes
           /\ data' \in [Inodes -> Releases \cup {Torn}]
           /\ dir' \in [Names -> Inodes \cup {NoInode}] /\ NamesDiffer'
           /\ dir'["exe"] = dir["exe"] /\ dir'["old"] = dir["old"]
           /\ \A q \in Terminals : t[q].pc # "off" =>
                 /\ data'[t[q].img] = data[t[q].img] /\ dir'["new"] # t[q].img
                 /\ windows => t[q].img \in {dir'["exe"], dir'["old"]}
           /\ ~windows /\ ~spoilt => Complete("exe")'
<1> USE UpdateAssumption
<1>0. /\ TypeOK /\ NamesDiffer /\ BinaryNeverLost /\ Alone
      /\ \A q \in Terminals : ImageKept(q) /\ StepsFit(q)
  BY DEF UpdateInv
<1>1. t[p].fd \in Inodes
  BY <1>0, BusyShape DEF StepsFit, Busy
<1>2. data' \in [Inodes -> Releases \cup {Torn}]
  BY <1>0, <1>1 DEF TypeOK
<1>3. /\ dir' \in [Names -> Inodes \cup {NoInode}]
      /\ dir'["exe"] = dir["exe"] /\ dir'["old"] = dir["old"] /\ dir'["new"] \in {dir["new"], NoInode}
  BY <1>0 DEF TypeOK, Removed, Names
<1>4. NamesDiffer'
  BY <1>0, <1>3 DEF NamesDiffer, Names
<1>5. \A q \in Terminals : t[q].pc # "off" =>
          /\ data'[t[q].img] = data[t[q].img] /\ dir'["new"] # t[q].img
          /\ windows => t[q].img \in {dir'["exe"], dir'["old"]}
  <2>1. \A q \in Terminals : t[q].pc # "off" => t[q].img \in Inodes
    BY <1>0, BusyShape DEF Busy
  <2> QED
    BY <1>0, <1>1, <1>3, <2>1 DEF ImageKept, TypeOK
<1>6. ASSUME ~windows, ~spoilt  PROVE Complete("exe")'
  <2>1. Complete("exe") /\ dir["exe"] \in Inodes
    BY <1>0, <1>6 DEF BinaryNeverLost, Complete, TypeOK, Names
  <2>2. dir["new"] = t[p].fd
    BY <1>0, <1>6 DEF Alone, NewIsMine
  <2>3. dir["exe"] # t[p].fd
    BY <1>0, <2>1, <2>2 DEF NamesDiffer, Names
  <2> QED
    BY <1>0, <1>1, <1>3, <2>1, <2>3 DEF Complete, TypeOK
<1> QED
  BY <1>1, <1>2, <1>3, <1>4, <1>5, <1>6

(* While downloads do not spoilt, a step of the replacing terminal has    *)
(* only that terminal to answer for.                                       *)
LEMMA AloneStep ==
    ASSUME UpdateInv, NEW p \in Terminals, t[p].pc \in Replacing, NEW rec \in Busy, Step(p, rec),
           spoilt => spoilt', rec.pc # "copy",
           ~spoilt' /\ rec.pc \in {"copied", "cleared", "rename"} =>
               dir'["new"] # NoInode /\ data'[dir'["new"]] = rec.rel
    PROVE  Alone'
<1> USE UpdateAssumption
<1>1. SUFFICES ASSUME ~spoilt'
               PROVE  /\ \A q, o \in Terminals :
                             t'[q].pc \in Replacing /\ t'[o].pc \in Replacing => q = o
                      /\ \A q \in Terminals : NewIsMine(q)'
  BY DEF Alone
<1>2. TypeOK /\ t[p].pc # "off"
  BY DEF UpdateInv, Replacing
<1>3. t'[p] = rec /\ \A q \in Terminals \ {p} : t'[q] = t[q] /\ t[q].pc \notin Replacing
  BY <1>1, <1>2, StepType DEF UpdateInv, Alone
<1> QED
  BY <1>1, <1>3 DEF NewIsMine, Replacing

LEMMA CopiedInv ==
    ASSUME UpdateInv, NEW p \in Terminals, NEW c \in Releases \cup {Torn}, Copied(p, c)
    PROVE  UpdateInv'
<1> USE UpdateAssumption
<1>0. /\ TypeOK /\ NotAhead /\ Alone
      /\ \A q \in Terminals : ImageKept(q) /\ StepsFit(q)
  BY DEF UpdateInv
<1> DEFINE rec == [t[p] EXCEPT !.pc = IF windows THEN "copied" ELSE "rename", !.fd = NoInode]
<1>1. t[p] \in Busy /\ t[p].pc = "copy"
  BY <1>0, BusyShape DEF Copied
<1>2. /\ rec \in Busy /\ rec.pc = (IF windows THEN "copied" ELSE "rename") /\ rec.fd = NoInode
      /\ rec.img = t[p].img /\ rec.rel = t[p].rel /\ rec.base = t[p].base
  BY <1>1 DEF Busy, Running, Replacing
<1>3. /\ Step(p, rec) /\ UNCHANGED <<windows, released, dir>>
      /\ data' = [data EXCEPT ![t[p].fd] = c]
      /\ c \in {t[p].rel, Torn} /\ (c = t[p].rel \/ spoilt') /\ (spoilt => spoilt')
  BY DEF Copied
<1>4. /\ t[p].fd \in Inodes
      /\ data' \in [Inodes -> Releases \cup {Torn}]
      /\ dir' \in [Names -> Inodes \cup {NoInode}] /\ NamesDiffer'
      /\ \A q \in Terminals : t[q].pc # "off" =>
            /\ data'[t[q].img] = data[t[q].img] /\ dir'["new"] # t[q].img
            /\ windows => t[q].img \in {dir'["exe"], dir'["old"]}
      /\ ~windows /\ ~spoilt => Complete("exe")'
  BY <1>1, <1>3, CopyKeeps
<1>5. rec.rel <= released /\ (rec.base = Torn \/ rec.base <= rec.rel)
  BY <1>0, <1>1, <1>2 DEF NotAhead, Replacing
<1>6. \A i \in Inodes : data'[i] # Torn => data'[i] <= released
  BY <1>0, <1>2, <1>3, <1>5 DEF TypeOK, NotAhead
<1>7. \A q \in Terminals : t[q].pc # "off" => rec.fd # t[q].img
  BY <1>0, <1>2, BusyShape DEF Busy
<1>8. ~spoilt' => dir'["new"] # NoInode /\ data'[dir'["new"]] = rec.rel
  BY <1>0, <1>1, <1>2, <1>3, <1>4 DEF Alone, NewIsMine, TypeOK
<1> HIDE DEF rec
<1>9. Alone'
  BY <1>1, <1>2, <1>3, <1>8, AloneStep DEF Replacing
<1>10. spoilt' \in BOOLEAN
  BY <1>0 DEF TypeOK, Copied
<1> QED
  BY <1>1, <1>2, <1>3, <1>4, <1>5, <1>6, <1>7, <1>9, <1>10, FileStep

(* A terminal that gives up and is back at its prompt.                     *)
LEMMA BackAtPrompt ==
    ASSUME UpdateInv, NEW p \in Terminals, t[p].pc \in Replacing, Step(p, AtPrompt(p)),
           UNCHANGED <<windows, released, spoilt>>,
           dir' \in [Names -> Inodes \cup {NoInode}], NamesDiffer',
           data' \in [Inodes -> Releases \cup {Torn}],
           \A i \in Inodes : data'[i] # Torn => data'[i] <= released,
           \A q \in Terminals : t[q].pc # "off" =>
               /\ data'[t[q].img] = data[t[q].img] /\ dir'["new"] # t[q].img
               /\ windows => t[q].img \in {dir'["exe"], dir'["old"]},
           ~windows /\ ~spoilt => Complete("exe")'
    PROVE  UpdateInv'
<1> USE UpdateAssumption
<1>0. TypeOK
  BY DEF UpdateInv
<1>1. t[p] \in Busy /\ t[p].pc # "off"
  BY <1>0, BusyShape DEF Replacing
<1>2. 0 \in Releases \cup {0} /\ 0 \in Releases \cup {0, Torn} /\ 0 <= released
  BY <1>0 DEF TypeOK, Releases
<1>3. AtPrompt(p) \in Busy
  BY <1>1, <1>2 DEF Busy, AtPrompt, Running
<1>4. /\ AtPrompt(p).pc = "prompt" /\ AtPrompt(p).rel = 0
      /\ AtPrompt(p).img = t[p].img /\ AtPrompt(p).fd = NoInode
  BY <1>1 DEF Busy, AtPrompt
<1>5. \A q \in Terminals : t[q].pc # "off" => NoInode # t[q].img
  BY <1>0, BusyShape DEF Busy
<1>6. Alone'
  BY <1>3, <1>4, AloneStep
<1>7. spoilt' = spoilt /\ spoilt \in BOOLEAN
  BY <1>0 DEF TypeOK
<1> QED
  BY <1>1, <1>2, <1>3, <1>4, <1>5, <1>6, <1>7, FileStep DEF Replacing

LEMMA CopyFailsInv == ASSUME UpdateInv, NEW p \in Terminals, CopyFails(p) PROVE UpdateInv'
<1> USE UpdateAssumption
<1>1. /\ t[p].pc = "copy" /\ data' = [data EXCEPT ![t[p].fd] = Torn]
      /\ dir' \in {dir, Removed("new")}
      /\ Step(p, AtPrompt(p)) /\ UNCHANGED <<windows, released, spoilt>>
  BY DEF CopyFails, NewRemoved
<1>2. /\ data' \in [Inodes -> Releases \cup {Torn}]
      /\ dir' \in [Names -> Inodes \cup {NoInode}] /\ NamesDiffer'
      /\ \A q \in Terminals : t[q].pc # "off" =>
            /\ data'[t[q].img] = data[t[q].img] /\ dir'["new"] # t[q].img
            /\ windows => t[q].img \in {dir'["exe"], dir'["old"]}
      /\ ~windows /\ ~spoilt => Complete("exe")'
  BY <1>1, CopyKeeps
<1>3. \A i \in Inodes : data'[i] # Torn => data'[i] <= released
  BY <1>1 DEF UpdateInv, TypeOK, NotAhead
<1> QED
  BY <1>1, <1>2, <1>3, BackAtPrompt DEF Replacing

(* Names that go or move, and contents that stay.                          *)
LEMMA NamesKeep ==
    ASSUME UpdateInv, UNCHANGED <<windows, data>>,
           dir' \in [Names -> Inodes \cup {NoInode}],
           dir'["new"] \in {dir["new"], NoInode},
           {dir["exe"], dir["old"]} \subseteq {dir'["exe"], dir'["old"]} \cup {NoInode}
    PROVE  /\ data' \in [Inodes -> Releases \cup {Torn}]
           /\ \A i \in Inodes : data'[i] # Torn => data'[i] <= released
           /\ \A q \in Terminals : t[q].pc # "off" =>
                 /\ data'[t[q].img] = data[t[q].img] /\ dir'["new"] # t[q].img
                 /\ windows => t[q].img \in {dir'["exe"], dir'["old"]}
<1> USE UpdateAssumption
<1>0. TypeOK /\ NotAhead /\ \A q \in Terminals : ImageKept(q)
  BY DEF UpdateInv
<1>1. \A q \in Terminals : t[q].pc # "off" => t[q].img \in Inodes
  BY <1>0, BusyShape DEF Busy
<1>2. \A q \in Terminals : t[q].pc # "off" => dir'["new"] # t[q].img
  BY <1>0, <1>1 DEF ImageKept
<1>3. \A q \in Terminals : t[q].pc # "off" /\ windows => t[q].img \in {dir'["exe"], dir'["old"]}
  BY <1>0, <1>1 DEF ImageKept
<1>4. data' \in [Inodes -> Releases \cup {Torn}] /\ \A i \in Inodes : data'[i] # Torn => data'[i] <= released
  BY <1>0 DEF TypeOK, NotAhead
<1> QED
  BY <1>2, <1>3, <1>4

LEMMA RenameFailsInv == ASSUME UpdateInv, NEW p \in Terminals, RenameFails(p) PROVE UpdateInv'
<1> USE UpdateAssumption
<1>1. /\ t[p].pc \in {"cleared", "rename"} /\ dir' \in {dir, Removed("new")}
      /\ Step(p, AtPrompt(p)) /\ UNCHANGED <<windows, released, data, spoilt>>
  BY DEF RenameFails, NewRemoved
<1>2. TypeOK /\ NamesDiffer /\ BinaryNeverLost
  BY DEF UpdateInv
<1>3. /\ dir' \in [Names -> Inodes \cup {NoInode}]
      /\ dir'["exe"] = dir["exe"] /\ dir'["old"] = dir["old"] /\ dir'["new"] \in {dir["new"], NoInode}
  BY <1>1, <1>2 DEF TypeOK, Removed, Names
<1>4. NamesDiffer'
  BY <1>2, <1>3 DEF NamesDiffer, Names
<1>5. ~windows /\ ~spoilt => Complete("exe")'
  BY <1>1, <1>2, <1>3 DEF BinaryNeverLost, Complete
<1> QED
  BY <1>1, <1>3, <1>4, <1>5, NamesKeep, BackAtPrompt DEF Replacing

LEMMA ClearOldInv == ASSUME UpdateInv, NEW p \in Terminals, ClearOld(p) PROVE UpdateInv'
<1> USE UpdateAssumption
<1>0. /\ TypeOK /\ NamesDiffer /\ BinaryNeverLost /\ NotAhead /\ Alone
      /\ \A q \in Terminals : ImageKept(q) /\ StepsFit(q)
  BY DEF UpdateInv
<1> DEFINE rec == [t[p] EXCEPT !.pc = "cleared"]
<1>1. t[p] \in Busy /\ t[p].pc = "copied" /\ windows
  BY <1>0, BusyShape DEF ClearOld, StepsFit
<1>2. /\ rec \in Busy /\ rec.pc = "cleared" /\ rec.fd = t[p].fd
      /\ rec.img = t[p].img /\ rec.rel = t[p].rel /\ rec.base = t[p].base
  BY <1>1 DEF Busy, Running, Replacing
<1>3. /\ Step(p, rec) /\ UNCHANGED <<windows, released, data, spoilt>>
      /\ \/ ~IsImage(dir["old"]) /\ dir' = Removed("old")
         \/ dir' = dir
  BY DEF ClearOld
<1>4. /\ dir' \in [Names -> Inodes \cup {NoInode}]
      /\ dir'["exe"] = dir["exe"] /\ dir'["new"] = dir["new"] /\ dir'["old"] \in {dir["old"], NoInode}
  BY <1>0, <1>3 DEF TypeOK, Removed, Names
<1>5. NamesDiffer'
  BY <1>0, <1>4 DEF NamesDiffer, Names
<1>6. \A q \in Terminals : t[q].pc # "off" =>
          /\ data'[t[q].img] = data[t[q].img] /\ dir'["new"] # t[q].img
          /\ windows => t[q].img \in {dir'["exe"], dir'["old"]}
  BY <1>0, <1>3, <1>4 DEF ImageKept, IsImage
<1>7. rec.fd = NoInode
  BY <1>0, <1>1, <1>2 DEF StepsFit
<1>8. rec.rel <= released /\ (rec.base = Torn \/ rec.base <= rec.rel)
  BY <1>0, <1>1, <1>2 DEF NotAhead, Replacing
<1>9. \A q \in Terminals : t[q].pc # "off" => NoInode # t[q].img
  BY <1>0, BusyShape DEF Busy
<1>10. ~spoilt => dir'["new"] # NoInode /\ data'[dir'["new"]] = rec.rel
  BY <1>0, <1>1, <1>2, <1>3, <1>4 DEF Alone, NewIsMine
<1> HIDE DEF rec
<1>11. Alone'
  BY <1>1, <1>2, <1>3, <1>10, AloneStep DEF Replacing
<1>12. /\ data' \in [Inodes -> Releases \cup {Torn}] /\ spoilt' \in BOOLEAN
       /\ \A i \in Inodes : data'[i] # Torn => data'[i] <= released
  BY <1>0, <1>3 DEF TypeOK, NotAhead
<1> QED
  BY <1>1, <1>2, <1>3, <1>4, <1>5, <1>6, <1>7, <1>8, <1>9, <1>11, <1>12, FileStep

LEMMA BackUpInv == ASSUME UpdateInv, NEW p \in Terminals, BackUp(p) PROVE UpdateInv'
<1> USE UpdateAssumption
<1>0. /\ TypeOK /\ NamesDiffer /\ BinaryNeverLost /\ NotAhead /\ Alone
      /\ \A q \in Terminals : ImageKept(q) /\ StepsFit(q)
  BY DEF UpdateInv
<1> DEFINE rec == [t[p] EXCEPT !.pc = "rename"]
<1>1. t[p] \in Busy /\ t[p].pc = "cleared" /\ windows
  BY <1>0, BusyShape DEF BackUp, StepsFit
<1>2. /\ rec \in Busy /\ rec.pc = "rename" /\ rec.fd = t[p].fd
      /\ rec.img = t[p].img /\ rec.rel = t[p].rel /\ rec.base = t[p].base
  BY <1>1 DEF Busy, Running, Replacing
<1>3. /\ Step(p, rec) /\ UNCHANGED <<windows, released, data, spoilt>>
      /\ dir["exe"] # NoInode /\ ~(dir["old"] # NoInode /\ IsImage(dir["old"]))
      /\ dir' = Renamed("exe", "old")
  BY DEF BackUp
<1>4. /\ dir' \in [Names -> Inodes \cup {NoInode}]
      /\ dir'["exe"] = NoInode /\ dir'["new"] = dir["new"] /\ dir'["old"] = dir["exe"]
  BY <1>0, <1>3 DEF TypeOK, Renamed, Names
<1>5. NamesDiffer'
  BY <1>0, <1>4 DEF NamesDiffer, Names
<1>6. \A q \in Terminals : t[q].pc # "off" => NoInode # t[q].img
  BY <1>0, BusyShape DEF Busy
<1>7. \A q \in Terminals : t[q].pc # "off" =>
          /\ data'[t[q].img] = data[t[q].img] /\ dir'["new"] # t[q].img
          /\ windows => t[q].img \in {dir'["exe"], dir'["old"]}
  BY <1>0, <1>3, <1>4, <1>6 DEF ImageKept, IsImage
<1>8. rec.fd = NoInode
  BY <1>0, <1>1, <1>2 DEF StepsFit
<1>9. rec.rel <= released /\ (rec.base = Torn \/ rec.base <= rec.rel)
  BY <1>0, <1>1, <1>2 DEF NotAhead, Replacing
<1>10. ~spoilt => dir'["new"] # NoInode /\ data'[dir'["new"]] = rec.rel
  BY <1>0, <1>1, <1>2, <1>3, <1>4 DEF Alone, NewIsMine
<1> HIDE DEF rec
<1>11. Alone'
  BY <1>1, <1>2, <1>3, <1>10, AloneStep DEF Replacing
<1>12. /\ data' \in [Inodes -> Releases \cup {Torn}] /\ spoilt' \in BOOLEAN
       /\ \A i \in Inodes : data'[i] # Torn => data'[i] <= released
  BY <1>0, <1>3 DEF TypeOK, NotAhead
<1> QED
  BY <1>1, <1>2, <1>3, <1>4, <1>5, <1>6, <1>7, <1>8, <1>9, <1>11, <1>12, FileStep

LEMMA RenameInv == ASSUME UpdateInv, NEW p \in Terminals, Rename(p) PROVE UpdateInv'
<1> USE UpdateAssumption
<1>0. /\ TypeOK /\ NamesDiffer /\ BinaryNeverLost /\ NotAhead /\ Alone
      /\ \A q \in Terminals : ImageKept(q) /\ StepsFit(q)
  BY DEF UpdateInv
<1> DEFINE rec == [t[p] EXCEPT !.pc = "restart"]
<1>1. t[p] \in Busy /\ t[p].pc = "rename"
  BY <1>0, BusyShape DEF Rename
<1>2. /\ rec \in Busy /\ rec.pc = "restart" /\ rec.fd = t[p].fd
      /\ rec.img = t[p].img /\ rec.rel = t[p].rel /\ rec.base = t[p].base
  BY <1>1 DEF Busy, Running, Replacing
<1>3. /\ Step(p, rec) /\ UNCHANGED <<windows, released, data, spoilt>>
      /\ dir["new"] # NoInode
      /\ windows => ~(dir["exe"] # NoInode /\ IsImage(dir["exe"]))
      /\ dir' = Renamed("new", "exe")
  BY DEF Rename
<1>4. /\ dir' \in [Names -> Inodes \cup {NoInode}]
      /\ dir'["exe"] = dir["new"] /\ dir'["new"] = NoInode /\ dir'["old"] = dir["old"]
  BY <1>0, <1>3 DEF TypeOK, Renamed, Names
<1>5. NamesDiffer'
  BY <1>0, <1>4 DEF NamesDiffer, Names
<1>6. \A q \in Terminals : t[q].pc # "off" => NoInode # t[q].img
  BY <1>0, BusyShape DEF Busy
<1>7. \A q \in Terminals : t[q].pc # "off" =>
          /\ data'[t[q].img] = data[t[q].img] /\ dir'["new"] # t[q].img
          /\ windows => t[q].img \in {dir'["exe"], dir'["old"]}
  BY <1>0, <1>3, <1>4, <1>6 DEF ImageKept, IsImage
<1>8. rec.fd = NoInode
  BY <1>0, <1>1, <1>2 DEF StepsFit
<1>9. rec.rel <= released /\ (rec.base = Torn \/ rec.base <= rec.rel)
  BY <1>0, <1>1, <1>2 DEF NotAhead, Replacing
<1>10. ~spoilt => Complete("exe")'
  <2>1. t[p].rel # Torn
    BY <1>1 DEF Busy, Releases
  <2> QED
    BY <1>0, <1>1, <1>3, <1>4, <2>1 DEF Alone, NewIsMine, Complete
<1> HIDE DEF rec
<1>11. Alone'
  BY <1>1, <1>2, <1>3, AloneStep DEF Replacing
<1>12. /\ data' \in [Inodes -> Releases \cup {Torn}] /\ spoilt' = spoilt /\ spoilt \in BOOLEAN
       /\ \A i \in Inodes : data'[i] # Torn => data'[i] <= released
  BY <1>0, <1>3 DEF TypeOK, NotAhead
<1> QED
  BY <1>1, <1>2, <1>3, <1>4, <1>5, <1>6, <1>7, <1>8, <1>9, <1>10, <1>11, <1>12, FileStep

-----------------------------------------------------------------------------
LEMMA UpdateInvInductive == UpdateInv /\ [Next]_vars => UpdateInv'
<1> SUFFICES ASSUME UpdateInv, [Next]_vars
             PROVE  UpdateInv'
  OBVIOUS
<1>1. CASE Publish
  BY <1>1, PublishInv
<1>2. ASSUME NEW p \in Terminals, Launch(p) \/ Exit(p) \/ Check(p) \/ GiveUp(p)
      PROVE  UpdateInv'
  BY <1>2, PromptInv
<1>3. ASSUME NEW p \in Terminals, NEW i \in Inodes, OpenNew(p, i)  PROVE UpdateInv'
  BY <1>3, OpenInv
<1>4. ASSUME NEW p \in Terminals, NEW c \in Releases \cup {Torn}, Copied(p, c)  PROVE UpdateInv'
  BY <1>4, CopiedInv
<1>5. ASSUME NEW p \in Terminals, CopyFails(p)  PROVE UpdateInv'
  BY <1>5, CopyFailsInv
<1>6. ASSUME NEW p \in Terminals, ClearOld(p)  PROVE UpdateInv'
  BY <1>6, ClearOldInv
<1>7. ASSUME NEW p \in Terminals, BackUp(p)  PROVE UpdateInv'
  BY <1>7, BackUpInv
<1>8. ASSUME NEW p \in Terminals, Rename(p)  PROVE UpdateInv'
  BY <1>8, RenameInv
<1>9. ASSUME NEW p \in Terminals, RenameFails(p)  PROVE UpdateInv'
  BY <1>9, RenameFailsInv
<1>10. ASSUME NEW p \in Terminals, Restart(p) \/ RestartFails(p)  PROVE UpdateInv'
  BY <1>10, PromptInv
<1>11. CASE UNCHANGED vars
  BY <1>11 DEF vars, UpdateInv, TypeOK, NamesDiffer, NotAhead, Alone, NewIsMine, BinaryNeverLost,
               Complete, ImageKept, StepsFit
<1> QED
  BY <1>1, <1>2, <1>3, <1>4, <1>5, <1>6, <1>7, <1>8, <1>9, <1>10, <1>11 DEF Next

LEMMA UpdateInvHolds == Spec => []UpdateInv
BY InitInv, UpdateInvInductive, PTL DEF Spec

(* Every variable of the update keeps its type.                            *)
THEOREM TypeCorrect == Spec => []TypeOK
<1>1. UpdateInv => TypeOK
  BY DEF UpdateInv
<1> QED
  BY <1>1, UpdateInvHolds, PTL

(* Whatever fails and wherever a terminal is killed, a complete binary     *)
(* remains: under its own name on Unix unless a download was spoilt, there *)
(* or as exe.old on Windows, always.                                       *)
THEOREM BinaryNeverLostHolds == Spec => []BinaryNeverLost
<1>1. UpdateInv => BinaryNeverLost
  BY DEF UpdateInv
<1> QED
  BY <1>1, UpdateInvHolds, PTL

-----------------------------------------------------------------------------
(* Unless a download was spoilt, the one step that changes what is         *)
(* installed is the last rename, and what it installs is the release the   *)
(* user agreed to.                                                         *)
LEMMA InstallStep ==
    ASSUME UpdateInv, [Next]_vars, Installed' # Installed, ~spoilt'
    PROVE  \E p \in Terminals : t[p].pc = "rename" /\ t[p].rel = Installed'
<1> USE UpdateAssumption
<1>0. /\ TypeOK /\ NamesDiffer /\ Alone
      /\ \A q \in Terminals : ImageKept(q) /\ StepsFit(q)
  BY DEF UpdateInv
<1>1. ASSUME UNCHANGED <<windows, dir, data>>  PROVE FALSE
  BY <1>1 DEF Installed
<1>2. ASSUME UNCHANGED windows, dir'["exe"] = dir["exe"], dir'["old"] = dir["old"],
             \A n \in {"exe", "old"} : dir[n] # NoInode => data'[dir[n]] = data[dir[n]]
      PROVE  Installed' = Installed
  BY <1>2 DEF Installed
<1>3. ASSUME NEW p \in Terminals, NEW i \in Inodes, OpenNew(p, i)  PROVE FALSE
  <2>1. dir'["exe"] = dir["exe"] /\ dir'["old"] = dir["old"]
    BY <1>0, <1>3 DEF OpenNew, TypeOK, Names
  <2>2. i # dir["exe"] /\ i # dir["old"]
    BY <1>0, <1>3 DEF OpenNew, Free, Linked, NamesDiffer, Names
  <2>3. \A n \in {"exe", "old"} : dir[n] # NoInode => data'[dir[n]] = data[dir[n]]
    BY <1>0, <1>3, <2>2 DEF OpenNew, TypeOK, Names
  <2> QED
    BY <1>2, <1>3, <2>1, <2>3 DEF OpenNew
<1>4. ASSUME NEW p \in Terminals, t[p].pc = "copy", NEW c \in Releases \cup {Torn},
             data' = [data EXCEPT ![t[p].fd] = c], dir' \in {dir, Removed("new")},
             UNCHANGED windows, spoilt => spoilt'
      PROVE  FALSE
  <2>1. dir'["exe"] = dir["exe"] /\ dir'["old"] = dir["old"] /\ t[p].fd \in Inodes
    BY <1>4, CopyKeeps
  <2>2. dir["new"] = t[p].fd
    BY <1>0, <1>4 DEF Alone, NewIsMine
  <2>3. \A n \in {"exe", "old"} : dir[n] # NoInode => data'[dir[n]] = data[dir[n]]
    BY <1>0, <1>4, <2>1, <2>2 DEF NamesDiffer, TypeOK, Names
  <2> QED
    BY <1>2, <1>4, <2>1, <2>3
<1>5. ASSUME NEW p \in Terminals, NEW c \in Releases \cup {Torn}, Copied(p, c)  PROVE FALSE
  BY <1>4, <1>5 DEF Copied
<1>6. ASSUME NEW p \in Terminals, CopyFails(p)  PROVE FALSE
  BY <1>4, <1>6 DEF CopyFails, NewRemoved
<1>7. ASSUME NEW p \in Terminals, RenameFails(p)  PROVE FALSE
  <2>1. dir'["exe"] = dir["exe"] /\ dir'["old"] = dir["old"]
    BY <1>0, <1>7 DEF RenameFails, NewRemoved, Removed, TypeOK, Names
  <2> QED
    BY <1>2, <1>7, <2>1 DEF RenameFails
<1>8. ASSUME NEW p \in Terminals, ClearOld(p)  PROVE FALSE
  <2>1. t[p].pc = "copied" /\ windows /\ t[p].img \in {dir["exe"], dir["old"]} /\ t[p].img \in Inodes
    BY <1>0, <1>8, BusyShape DEF ClearOld, StepsFit, ImageKept, Busy
  <2>2. UNCHANGED <<windows, data>> /\ dir'["exe"] = dir["exe"]
    BY <1>0, <1>8 DEF ClearOld, Removed, TypeOK, Names
  <2>3. dir["exe"] = NoInode => dir' = dir
    BY <1>8, <2>1 DEF ClearOld, IsImage
  <2> QED
    BY <2>2, <2>3 DEF Installed
<1>9. ASSUME NEW p \in Terminals, BackUp(p)  PROVE FALSE
  <2>1. windows /\ dir["exe"] # NoInode /\ UNCHANGED <<windows, data>>
    BY <1>0, <1>9 DEF BackUp, StepsFit
  <2>2. dir'["exe"] = NoInode /\ dir'["old"] = dir["exe"]
    BY <1>0, <1>9 DEF BackUp, Renamed, TypeOK, Names
  <2> QED
    BY <2>1, <2>2 DEF Installed
<1>10. ASSUME NEW p \in Terminals, Rename(p)
       PROVE  t[p].pc = "rename" /\ t[p].rel = Installed'
  <2>1. t[p].pc = "rename" /\ dir["new"] # NoInode /\ UNCHANGED <<data, spoilt>>
    BY <1>10 DEF Rename
  <2>2. dir'["exe"] = dir["new"]
    BY <1>0, <1>10 DEF Rename, Renamed, TypeOK, Names
  <2>3. data[dir["new"]] = t[p].rel
    BY <1>0, <2>1 DEF Alone, NewIsMine, Replacing
  <2> QED
    BY <2>1, <2>2, <2>3 DEF Installed
<1>11. CASE Publish
  BY <1>1, <1>11 DEF Publish
<1>12. ASSUME NEW p \in Terminals,
              \/ Launch(p) \/ Exit(p) \/ Check(p) \/ GiveUp(p)
              \/ Restart(p) \/ RestartFails(p)
       PROVE  FALSE
  <2>1. UNCHANGED <<windows, dir, data>>
    BY <1>12 DEF Launch, Exit, Check, GiveUp, Restart, RestartFails
  <2> QED
    BY <1>1, <2>1
<1>13. CASE UNCHANGED vars
  BY <1>1, <1>13 DEF vars
<1> QED
  BY <1>3, <1>5, <1>6, <1>7, <1>8, <1>9, <1>10, <1>11, <1>12, <1>13 DEF Next

LEMMA Marks == [Next]_vars => windows' = windows /\ (spoilt => spoilt')
<1> SUFFICES ASSUME [Next]_vars
             PROVE  windows' = windows /\ (spoilt => spoilt')
  OBVIOUS
<1>1. CASE Publish \/ UNCHANGED vars
  BY <1>1 DEF vars, Publish
<1>2. ASSUME NEW p \in Terminals, \/ Launch(p) \/ Exit(p) \/ Check(p) \/ GiveUp(p)
                                  \/ Restart(p) \/ RestartFails(p)
      PROVE  windows' = windows /\ (spoilt => spoilt')
  BY <1>2 DEF Launch, Exit, Check, GiveUp, Restart, RestartFails
<1>3. ASSUME NEW p \in Terminals, \/ CopyFails(p) \/ ClearOld(p) \/ BackUp(p)
                                  \/ Rename(p) \/ RenameFails(p)
      PROVE  windows' = windows /\ (spoilt => spoilt')
  BY <1>3 DEF CopyFails, ClearOld, BackUp, Rename, RenameFails
<1>4. ASSUME NEW p \in Terminals, NEW i \in Inodes, OpenNew(p, i)
      PROVE  windows' = windows /\ (spoilt => spoilt')
  BY <1>4 DEF OpenNew
<1>5. ASSUME NEW p \in Terminals, NEW c \in Releases \cup {Torn}, Copied(p, c)
      PROVE  windows' = windows /\ (spoilt => spoilt')
  BY <1>5 DEF Copied
<1> QED
  BY <1>1, <1>2, <1>3, <1>4, <1>5 DEF Next

(* "atomically replaces the running binary", on Unix: unless a download    *)
(* was spoilt, what the name of the executable stands for changes in one   *)
(* step, to the release agreed to.                                         *)
THEOREM InstallsAtomicallyHolds == Spec => InstallsAtomically
<1>1. UpdateInv /\ [Next]_vars =>
          [~windows /\ Executable' # Executable =>
              spoilt' \/ \E p \in Terminals : t[p].pc = "rename" /\ t[p].rel = Executable']_vars
  <2>1. SUFFICES ASSUME UpdateInv, [Next]_vars, ~windows, ~spoilt', Executable' # Executable
                 PROVE  \E p \in Terminals : t[p].pc = "rename" /\ t[p].rel = Executable'
    OBVIOUS
  <2>2. ~windows' /\ ~spoilt
    BY <2>1, Marks
  <2>3. BinaryNeverLost /\ BinaryNeverLost'
    BY <2>1, UpdateInvInductive DEF UpdateInv
  <2>4. Complete("exe") /\ Complete("exe")'
    BY <2>1, <2>2, <2>3 DEF BinaryNeverLost
  <2>5. Executable = Installed /\ Executable' = Installed'
    BY <2>4 DEF Complete, Executable, Installed
  <2> QED
    BY <2>1, <2>5, InstallStep
<1> QED
  BY <1>1, UpdateInvHolds, PTL DEF Spec, InstallsAtomically

(* An update goes back to an older release only when another terminal has  *)
(* installed a newer one while the user was being asked.                   *)
THEOREM DowngradeOnlyByStaleCheckHolds == Spec => DowngradeOnlyByStaleCheck
<1>1. UpdateInv /\ [Next]_vars =>
          [Installed' \in Nat /\ Installed \in Nat /\ Installed' < Installed =>
              spoilt' \/ \E p \in Terminals : t[p].pc = "rename" /\ t[p].base # Installed]_vars
  <2>1. SUFFICES ASSUME UpdateInv, [Next]_vars, ~spoilt',
                        Installed' \in Nat, Installed \in Nat, Installed' < Installed
                 PROVE  \E p \in Terminals : t[p].pc = "rename" /\ t[p].base # Installed
    OBVIOUS
  <2>2. PICK p \in Terminals : t[p].pc = "rename" /\ t[p].rel = Installed'
    BY <2>1, InstallStep
  <2>3. t[p].base = Torn \/ t[p].base <= t[p].rel
    BY <2>1, <2>2 DEF UpdateInv, NotAhead, Replacing
  <2> QED
    BY <2>1, <2>2, <2>3, UpdateAssumption
<1> QED
  BY <1>1, UpdateInvHolds, PTL DEF Spec, DowngradeOnlyByStaleCheck

=============================================================================
