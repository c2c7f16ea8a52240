----------------------------- MODULE FileManager -----------------------------
(***************************************************************************)
(* file system/fm/file_manager.c: two panels, each with a directory        *)
(* listing, a cursor and a scroll offset, over one working directory that  *)
(* belongs to the process and not to a panel.                              *)
(*                                                                         *)
(* The tree of directories does not change while the program runs, but     *)
(* opendir(), chdir() and stat() may be refused.  No directory has more    *)
(* than MAX_FILES entries, which list_files() does not check.              *)
(***************************************************************************)
EXTENDS Integers, Sequences

CONSTANTS
  Dirs,      \* the directories
  Entries,   \* what readdir() returns for each, in its order: names
  Target,    \* the directory a name means in a directory, None for a file
             \* and for a name that does not exist there
  Start,     \* the directory the program is started in
  HEIGHT,    \* rows of a panel: LINES - 3, read once
  None

Names == UNION {{Entries[d][k] : k \in 1..Len(Entries[d])} : d \in Dirs}

(* Every directory has at least the entries for itself and its parent.     *)
ASSUME TreeAssumption ==
  /\ Start \in Dirs /\ None \notin Dirs
  /\ Entries \in [Dirs -> Seq(Names)]
  /\ \A d \in Dirs : Len(Entries[d]) > 0
  /\ Target \in [Dirs -> [Names -> Dirs \cup {None}]]
ASSUME HeightAssumption == HEIGHT \in Nat \ {0}

Panels == {0, 1}

VARIABLES
  files,          \* each panel's entries: name and is_dir
  current_file, scroll_offset,
  current_path,
  active_panel,
  cwd,            \* the working directory of the process
  running,        \* the loop of main() goes on
  entered         \* history: the panel with the last Enter on a directory

panels == <<files, current_file, scroll_offset, current_path, entered>>
vars == <<panels, active_panel, cwd, running>>

TypeOK ==
  /\ files \in [Panels -> Seq([name : Names, is_dir : BOOLEAN])]
  /\ current_path \in [Panels -> Dirs]
  /\ current_file \in [Panels -> Nat]
  /\ scroll_offset \in [Panels -> Nat]
  /\ active_panel \in Panels /\ entered \in Panels
  /\ cwd \in Dirs
  /\ running \in BOOLEAN

-----------------------------------------------------------------------------
(* list_files.                                                             *)

(* What readdir() and stat() make of directory d: an entry whose stat()    *)
(* fails (at most one here) is shown as a file.                            *)
Listings(d) ==
  {[k \in 1..Len(Entries[d]) |->
      [name |-> Entries[d][k],
       is_dir |-> Target[d][Entries[d][k]] # None /\ k \notin refused]] :
     refused \in {{}} \cup {{k} : k \in 1..Len(Entries[d])}}

(* opendir() is refused and the panel keeps its old entries, or all of it  *)
(* is listed anew.                                                         *)
ListFiles(p, d) ==
  \/ UNCHANGED files
  \/ \E l \in Listings(d) : files' = [files EXCEPT ![p] = l]

-----------------------------------------------------------------------------
(* main() up to its loop: check_terminal_size() passes, both panels are    *)
(* listed, or left empty when opendir() is refused.                        *)
Init ==
  /\ files \in [Panels -> {<<>>} \cup Listings(Start)]
  /\ current_file = [p \in Panels |-> 0]
  /\ scroll_offset = [p \in Panels |-> 0]
  /\ current_path = [p \in Panels |-> Start]
  /\ active_panel = 0 /\ entered = 0
  /\ cwd = Start
  /\ running = TRUE

-----------------------------------------------------------------------------
(* handle_navigation for the active panel.                                 *)

KeyUp ==
  LET p == active_panel IN
  /\ current_file[p] > 0
  /\ current_file' = [current_file EXCEPT ![p] = @ - 1]
  /\ scroll_offset' = [scroll_offset EXCEPT
                         ![p] = IF current_file'[p] < @ THEN @ - 1 ELSE @]
  /\ UNCHANGED <<files, current_path, entered, active_panel, cwd, running>>

KeyDown ==
  LET p == active_panel IN
  /\ current_file[p] < Len(files[p]) - 1
  /\ current_file' = [current_file EXCEPT ![p] = @ + 1]
  /\ scroll_offset' = [scroll_offset EXCEPT
                         ![p] = IF current_file'[p] >= @ + HEIGHT THEN @ + 1
                                                                  ELSE @]
  /\ UNCHANGED <<files, current_path, entered, active_panel, cwd, running>>

(* files[current_file]; a panel that was never listed has files[0] zeroed, *)
(* which is no directory.                                                  *)
OnDirectory(p) == files[p] # <<>> /\ files[p][current_file[p] + 1].is_dir
Selected(p) == files[p][current_file[p] + 1].name

(* The process may be in another directory than the panel: the name is     *)
(* looked up where the process is.                                         *)
Chdir(name) ==
  \/ UNCHANGED cwd
  \/ Target[cwd][name] # None /\ cwd' = Target[cwd][name]

(* With a fault: the cursor stays where it was.                            *)
EnterKeepsCursor ==
  LET p == active_panel IN
  /\ OnDirectory(p)
  /\ Chdir(Selected(p))
  /\ current_path' = [current_path EXCEPT ![p] = cwd']
  /\ ListFiles(p, cwd')
  /\ entered' = p
  /\ UNCHANGED <<current_file, scroll_offset, active_panel, running>>

(* With a fault: list_files() sets the path, and only once opendir() has   *)
(* succeeded.                                                              *)
EnterUnlisted ==
  LET p == active_panel IN
  /\ OnDirectory(p)
  /\ Chdir(Selected(p))
  /\ \/ UNCHANGED <<files, current_path>>
     \/ /\ current_path' = [current_path EXCEPT ![p] = cwd']
        /\ \E l \in Listings(cwd') : files' = [files EXCEPT ![p] = l]
  /\ entered' = p
  /\ current_file' = [current_file EXCEPT ![p] = 0]
  /\ scroll_offset' = [scroll_offset EXCEPT ![p] = 0]
  /\ UNCHANGED <<active_panel, running>>

(* chdir(), getcwd() and list_files(), whether chdir() succeeded or not.   *)
Enter ==
  LET p == active_panel IN
  /\ OnDirectory(p)
  /\ Chdir(Selected(p))
  /\ current_path' = [current_path EXCEPT ![p] = cwd']
  /\ ListFiles(p, cwd')
  /\ entered' = p
  /\ current_file' = [current_file EXCEPT ![p] = 0]
  /\ scroll_offset' = [scroll_offset EXCEPT ![p] = 0]
  /\ UNCHANGED <<active_panel, running>>

(* The keys main() handles itself.                                         *)
Tab ==
  /\ active_panel' = 1 - active_panel
  /\ UNCHANGED <<panels, cwd, running>>

Quit ==
  /\ running' = FALSE
  /\ UNCHANGED <<panels, active_panel, cwd>>

Next == running /\ (KeyUp \/ KeyDown \/ Enter \/ Tab \/ Quit)

Spec == Init /\ [][Next]_vars

-----------------------------------------------------------------------------
(* In both panels the cursor is on an entry, on a row of the screen, and   *)
(* no row is left blank while entries are scrolled off the top, after any  *)
(* sequence of keys and listings of other lengths.                         *)
CursorVisible == \A p \in Panels :
  /\ current_file[p] < Len(files[p]) \/ current_file[p] = 0
  /\ scroll_offset[p] <= current_file[p]
  /\ current_file[p] < scroll_offset[p] + HEIGHT
  /\ scroll_offset[p] > 0 => scroll_offset[p] + HEIGHT <= Len(files[p])

(* Where a panel's Enter leads: its name is looked up in the directory     *)
(* that the panel with the last Enter shows as its path, whether that is   *)
(* this panel or the other one, whether its chdir() worked, and whether    *)
(* its entries are of that directory or, after a refused opendir(), still  *)
(* of another.  A refused chdir() takes this panel there too.              *)
MovesFromLastEntered ==
  [][\A p \in Panels :
       current_path'[p] # current_path[p] =>
         LET base == current_path[entered] IN
         /\ p = active_panel
         /\ current_path'[p] \in {base, Target[base][Selected(p)]}]_vars
=============================================================================
