------------------------------ MODULE LintTools ------------------------------
(***************************************************************************)
(* `crossplane-validate lint`: several processes of one user (jobs of a    *)
(* pipeline on one runner) share the directory the missing tools are       *)
(* installed to.  A tool's file is the set of its blocks that are in       *)
(* place, or Absent.  A process may be killed at any point.                *)
(***************************************************************************)
EXTENDS Naturals, FiniteSets

CONSTANTS Process,
          Tool,      \* the installers whose binary is not elsewhere in PATH
          Blocks,    \* what a binary consists of, 1 .. Blocks
          Absent

ASSUME LintAssumption ==
  /\ Blocks \in Nat \ {0}
  /\ \A b \in SUBSET (1 .. Blocks) : Absent # b

VARIABLES file,         \* the tool directory
          lpc,          \* what each process is doing
          left,         \* the tools the current loop has before it
          tool,         \* the one it is at
          temp,         \* blocks in the process's temporary file
          written,      \* blocks the extraction has written
          sawMissing,   \* history: the tools a process looked for in vain
          interrupted   \* history: tools an extraction of which was cut off

lintVars == <<file, lpc, left, tool, temp, written, sawMissing, interrupted>>

Whole == 1 .. Blocks
Files == {Absent} \cup SUBSET Whole

LintIdle ==
  /\ file = [t \in Tool |-> Absent]
  /\ lpc = [p \in Process |-> "off"]
  /\ left = [p \in Process |-> {}]
  /\ tool = [p \in Process |-> Absent]
  /\ temp = [p \in Process |-> {}]
  /\ written = [p \in Process |-> 0]
  /\ sawMissing = [p \in Process |-> {}]
  /\ interrupted = {}

LintInit == LintIdle

(* Mutant: only the rest of PATH is searched, not the tool directory.      *)
binaryInPath(t) == FALSE

binaryExists(t) == file[t] # Absent

(* lintCmd and lint.Run up to EnsureTools, which --no-install leaves out.  *)
Launch(p) ==
  /\ lpc[p] = "off"
  /\ \E stage \in {"ensure", "lint"} : lpc' = [lpc EXCEPT ![p] = stage]
  /\ left' = [left EXCEPT ![p] = Tool]
  /\ UNCHANGED <<file, tool, temp, written, sawMissing, interrupted>>

(* On to the next installer: this tool is there, or could not be got.      *)
NextInstaller(p, t) ==
  /\ lpc' = [lpc EXCEPT ![p] = "ensure"]
  /\ left' = [left EXCEPT ![p] = @ \ {t}]

SkipInstalled(p, t) ==
  /\ lpc[p] = "ensure" /\ t \in left[p] /\ binaryExists(t)
  /\ NextInstaller(p, t)
  /\ UNCHANGED <<file, tool, temp, written, sawMissing, interrupted>>

(* Mutant: the error of io.Copy is not looked at.                          *)
DownloadsUnchecked == SUBSET Whole

(* What a download that raised no error has left in the temporary file.    *)
Downloads == {Whole}

Download(p, t) ==
  /\ lpc[p] = "ensure" /\ t \in left[p] /\ ~binaryExists(t)
  /\ temp' \in {[temp EXCEPT ![p] = d] : d \in Downloads}
  /\ lpc' = [lpc EXCEPT ![p] = "open"]
  /\ tool' = [tool EXCEPT ![p] = t]
  /\ sawMissing' = [sawMissing EXCEPT ![p] = IF file[t] = Absent THEN @ \cup {t} ELSE @]
  /\ UNCHANGED <<file, left, written, interrupted>>

(* No answer, not 200, a broken transfer, no such file in the archive.     *)
DownloadFails(p, t) ==
  /\ lpc[p] = "ensure" /\ t \in left[p] /\ ~binaryExists(t)
  /\ NextInstaller(p, t)
  /\ UNCHANGED <<file, tool, temp, written, sawMissing, interrupted>>

(* External: a file that is being executed is not opened for writing.      *)
Busy(t) == \E q \in Process : lpc[q] = "running" /\ tool[q] = t

(* O_CREATE and O_TRUNC in the extract functions                           *)
OpenTarget(p) ==
  /\ lpc[p] = "open"
  /\ IF Busy(tool[p]) THEN NextInstaller(p, tool[p]) /\ UNCHANGED <<file, written>>
     ELSE /\ file' = [file EXCEPT ![tool[p]] = {}]
          /\ written' = [written EXCEPT ![p] = 0]
          /\ lpc' = [lpc EXCEPT ![p] = "copy"]
          /\ UNCHANGED left
  /\ UNCHANGED <<tool, temp, sawMissing, interrupted>>

CopyBlock(p) ==
  /\ lpc[p] = "copy" /\ written[p] < Blocks
  /\ written' = [written EXCEPT ![p] = @ + 1]
  /\ file' = [file EXCEPT ![tool[p]] = @ \cup ({written[p] + 1} \cap temp[p])]
  /\ UNCHANGED <<lpc, left, tool, temp, sawMissing, interrupted>>

Installed(p) ==
  /\ lpc[p] = "copy" /\ written[p] = Blocks
  /\ NextInstaller(p, tool[p])
  /\ sawMissing' = [sawMissing EXCEPT ![p] = @ \ {tool[p]}]
  /\ UNCHANGED <<file, tool, temp, written, interrupted>>

(* The disk is full, the archive is damaged: what is there stays there.    *)
CopyFails(p) ==
  /\ lpc[p] = "copy" /\ written[p] < Blocks
  /\ NextInstaller(p, tool[p])
  /\ interrupted' = interrupted \cup {tool[p]}
  /\ UNCHANGED <<file, tool, temp, written, sawMissing>>

(* The loop over the tools: one whose Check fails is left out.             *)
StartLint(p) ==
  /\ lpc[p] = "ensure" /\ left[p] = {}
  /\ lpc' = [lpc EXCEPT ![p] = "lint"]
  /\ left' = [left EXCEPT ![p] = Tool]
  /\ UNCHANGED <<file, tool, temp, written, sawMissing, interrupted>>

RunTool(p, t) ==
  /\ lpc[p] = "lint" /\ t \in left[p]
  /\ left' = [left EXCEPT ![p] = @ \ {t}]
  /\ lpc' = [lpc EXCEPT ![p] = IF binaryExists(t) THEN "running" ELSE "lint"]
  /\ tool' = [tool EXCEPT ![p] = t]
  /\ UNCHANGED <<file, temp, written, sawMissing, interrupted>>

(* With its issues, or with the warning that it could not be run.          *)
ToolEnds(p) ==
  /\ lpc[p] = "running"
  /\ lpc' = [lpc EXCEPT ![p] = "lint"]
  /\ UNCHANGED <<file, left, tool, temp, written, sawMissing, interrupted>>

Leave(p) ==
  /\ lpc' = [lpc EXCEPT ![p] = "off"]
  /\ left' = [left EXCEPT ![p] = {}]
  /\ tool' = [tool EXCEPT ![p] = Absent]
  /\ temp' = [temp EXCEPT ![p] = {}]
  /\ written' = [written EXCEPT ![p] = 0]
  /\ sawMissing' = [sawMissing EXCEPT ![p] = {}]
  /\ UNCHANGED file

LintEnds(p) == lpc[p] = "lint" /\ left[p] = {} /\ Leave(p) /\ UNCHANGED interrupted

Killed(p) ==
  /\ lpc[p] # "off" /\ Leave(p)
  /\ interrupted' = IF lpc[p] = "copy" THEN interrupted \cup {tool[p]} ELSE interrupted

LintNext ==
  \E p \in Process :
    \/ Launch(p) \/ StartLint(p) \/ LintEnds(p) \/ Killed(p)
    \/ \E t \in Tool :
         SkipInstalled(p, t) \/ Download(p, t) \/ DownloadFails(p, t) \/ RunTool(p, t)
    \/ OpenTarget(p) \/ CopyBlock(p) \/ Installed(p) \/ CopyFails(p) \/ ToolEnds(p)

LintSpec == LintInit /\ [][LintNext]_lintVars

-----------------------------------------------------------------------------
(* A tool that is there in part, which every later run takes for installed *)
(* (install.go:127-136), is there because an extraction is under way or    *)
(* one was cut off; never because of a download, and not because two       *)
(* processes installed it at the same time and both came through.          *)
PartialIsExplained ==
  \A t \in Tool :
    file[t] \notin {Absent, Whole} =>
      t \in interrupted \/ \E p \in Process : lpc[p] = "copy" /\ tool[p] = t

(* A tool in place is never damaged by a run that came later: only by one  *)
(* that had not found it before it was complete, and then not while it is  *)
(* executed (install.go:127-136, 240, 273).                                *)
WholeToolsAreKept ==
  [][\A t \in Tool : file[t] = Whole /\ file'[t] # Whole =>
       ~Busy(t) /\ \E p \in Process : lpc'[p] = "copy" /\ tool[p] = t /\ t \in sawMissing[p]]_file
=============================================================================
