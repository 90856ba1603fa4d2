------------------------------- MODULE Commands -------------------------------
(***************************************************************************)
(* The two commands of 'c2p tools' (src/c2p/commands/tools): 'viewer'      *)
(* renders an assessment-results file against a component-definition and  *)
(* writes the report to --out or prints it; 'csv-to-oscal-cd' writes a    *)
(* task configuration (OscalCsvToJson.generate_config) or takes one given  *)
(* with -c, and runs trestle's csv-to-oscal-cd task on it                  *)
(* (OscalCsvToJson.generate).                                              *)
(*                                                                         *)
(* Each _run is a straight-line function of its arguments, the file system *)
(* and the outcomes of what it cannot compute here: whether viewer.render  *)
(* raises on the two documents (modelled in module Viewer), whether a      *)
(* write fails, and the trestle task's outcomes.  So a command is an       *)
(* operator from a file system to [exit, fs]: exit is "success" or "error" *)
(* (the codes of CmdReturnCodes and handle_generic_command_exception) or   *)
(* "raised" for an exception that leaves _run.  A file system maps a path  *)
(* to Absent, Dir or a content; a content is a record whose kind tells the *)
(* documents apart.  Paths are directories, files, and <<dir, name>> for   *)
(* the files the commands name inside a directory.                         *)
(***************************************************************************)
EXTENDS FiniteSets

CONSTANTS
  Paths,         \* every path of a file system, directories and files
  RenderRaises,  \* pairs <<ar, cdef>> of documents on which viewer.render raises
  None,          \* Python None (an option not given)
  Absent,        \* no file at a path
  Dir,           \* a directory at a path
  FileSystems,   \* file systems a command may start from
  ViewerArgs,    \* [ar, cdef, out] arguments of 'tools viewer'
  CsvArgs        \* [config, title, csv, out] arguments of 'tools csv-to-oscal-cd'

ConfigName == "csv-to-oscal-cd.config"
CdefName   == "component-definition.json"

\* Outcomes of writing a file.  A write that fails (ENOSPC, EIO) raises
\* from write() when the text overflows the file's buffers, and otherwise
\* only when the file is closed.
WriteOutcomes == {"ok", "write_fails", "close_fails"}

\* Outcomes of trestle's TaskBase.simulate and execute
TaskOutcomes == {"success", "failure"}

IsKind(x, kd) == x \notin {Absent, Dir} /\ x.kind = kd

\* open(path, 'w'): IsADirectoryError on a directory, FileNotFoundError
\* when the parent directory of a file named inside a directory is missing
OpenForWriteFails(fs, p) ==
  \/ fs[p] = Dir
  \/ \E d \in Paths, n \in {ConfigName, CdefName} : p = <<d, n>> /\ fs[d] # Dir

\* what a file holds after open('w') and a write of text that failed
Truncated(text) == [kind |-> "truncated", of |-> text]

(***************************************************************************)
(* tools viewer: Viewer._run                                               *)
(***************************************************************************)

\* the report viewer.render returns for two documents
Report(a, c) == [kind |-> "report", ar |-> a, cdef |-> c]

\* fault model: the output file is opened (and truncated) before the
\* documents are read and rendered
ViewerRunOpenFirst(fs, args, io) ==
  LET a == fs[args.ar]
      c == fs[args.cdef]
      opened == IF args.out # None /\ ~OpenForWriteFails(fs, args.out)
                THEN [fs EXCEPT ![args.out] = Truncated(None)] ELSE fs
  IN  IF ~IsKind(a, "ar") \/ ~IsKind(c, "cdef") \/ <<a, c>> \in RenderRaises
      THEN [exit |-> "raised", fs |-> opened]
      ELSE IF args.out = None THEN [exit |-> "success", fs |-> fs]
      ELSE IF OpenForWriteFails(fs, args.out) THEN [exit |-> "error", fs |-> fs]
      ELSE [exit |-> IF io = "write_fails" THEN "error" ELSE "success",
            fs   |-> [fs EXCEPT ![args.out] =
                        IF io = "ok" THEN Report(a, c) ELSE Truncated(Report(a, c))]]

\* AssessmentResults.oscal_read and ComponentDefinition.oscal_read raise on
\* a path that does not hold such a document, and render raises on some
\* documents; all three are outside the try, so the exception leaves _run.
\* Inside it, open(out, 'w') truncates the file and write() puts the
\* report; the file object is never closed explicitly, so a failure that
\* surfaces only at its close happens while CPython finalises it, where
\* the exception is reported as unraisable and not raised.
ViewerRun(fs, args, io) ==
  LET a == fs[args.ar]
      c == fs[args.cdef]
  IN  CASE ~IsKind(a, "ar") \/ ~IsKind(c, "cdef") \/ <<a, c>> \in RenderRaises ->
             [exit |-> "raised", fs |-> fs]
        [] args.out = None -> [exit |-> "success", fs |-> fs]    \* self.out(rendered_md)
        [] OpenForWriteFails(fs, args.out) -> [exit |-> "error", fs |-> fs]
        [] OTHER ->
             [exit |-> IF io = "write_fails" THEN "error" ELSE "success",
              fs   |-> [fs EXCEPT ![args.out] =
                          IF io = "ok" THEN Report(a, c) ELSE Truncated(Report(a, c))]]

(***************************************************************************)
(* tools csv-to-oscal-cd: Csv2OscalCd._run with OscalCsvToJson            *)
(***************************************************************************)

\* the configuration generate_config writes (it always has the section)
Config(title, csv, out) ==
  [kind |-> "config", section |-> TRUE, title |-> title, csv |-> csv, outdir |-> out]

\* the component-definition trestle's task writes from a configuration
ComponentDefinition(cfg, csvText) == [kind |-> "cdef", title |-> cfg.title, csv |-> csvText]

\* OscalCsvToJson.generate_config: the configuration file is written in the
\* output directory inside a with block, so a failure at write() or at the
\* close raises; the file then holds a truncated configuration
GenerateConfig(fs, title, csv, out, io) ==
  LET p == <<out, ConfigName>> IN
  CASE OpenForWriteFails(fs, p) -> [ok |-> FALSE, fs |-> fs, path |-> p]
    [] io = "ok" -> [ok |-> TRUE, fs |-> [fs EXCEPT ![p] = Config(title, csv, out)], path |-> p]
    [] OTHER -> [ok |-> FALSE, fs |-> [fs EXCEPT ![p] = Truncated(Config(title, csv, out))], path |-> p]

\* trestle's task: without the section it is given None and fails; it
\* succeeds only on a csv file and an existing output directory, and its
\* execute then writes <output-dir>/component-definition.json
TaskWrites(fs, cfg, exe) ==
  /\ exe = "success" /\ cfg.section
  /\ IsKind(fs[cfg.csv], "csv") /\ fs[cfg.outdir] = Dir

\* fault model: the outcome of execute is not checked
GenerateNoExecuteCheck(fs, cpath, sim, exe) ==
  LET cfg == fs[cpath] IN
  CASE ~IsKind(cfg, "config") -> [ok |-> FALSE, fs |-> fs]
    [] sim # "success" \/ ~cfg.section -> [ok |-> FALSE, fs |-> fs]
    [] TaskWrites(fs, cfg, exe) ->
         [ok |-> TRUE, fs |-> [fs EXCEPT ![<<cfg.outdir, CdefName>>] =
                                  ComponentDefinition(cfg, fs[cfg.csv])]]
    [] OTHER -> [ok |-> TRUE, fs |-> fs]

\* OscalCsvToJson.generate: reading a missing file or one without section
\* headers raises; a configuration without the [task.csv-to-oscal-cd]
\* section only logs a warning, and the task built on None fails to
\* simulate; a simulate or execute outcome other than success raises
\* TrestleError
Generate(fs, cpath, sim, exe) ==
  LET cfg == fs[cpath] IN
  CASE ~IsKind(cfg, "config") -> [ok |-> FALSE, fs |-> fs]
    [] sim # "success" \/ ~cfg.section -> [ok |-> FALSE, fs |-> fs]
    [] TaskWrites(fs, cfg, exe) ->
         [ok |-> TRUE, fs |-> [fs EXCEPT ![<<cfg.outdir, CdefName>>] =
                                  ComponentDefinition(cfg, fs[cfg.csv])]]
    [] OTHER -> [ok |-> FALSE, fs |-> fs]

\* Csv2OscalCd._run: -c wins; otherwise --title, --csv and --out together
\* write a configuration and run it; with neither, nothing is done.  Every
\* exception inside the try gives the error code.
Csv2OscalCdRun(fs, args, io, sim, exe) ==
  LET exit(r) == IF r.ok THEN "success" ELSE "error" IN
  CASE args.config # None ->
         LET g == Generate(fs, args.config, sim, exe) IN [exit |-> exit(g), fs |-> g.fs]
    [] args.title # None /\ args.csv # None /\ args.out # None ->
         LET c == GenerateConfig(fs, args.title, args.csv, args.out, io)
             g == Generate(c.fs, c.path, sim, exe)
         IN  IF ~c.ok THEN [exit |-> "error", fs |-> c.fs] ELSE [exit |-> exit(g), fs |-> g.fs]
    [] OTHER -> [exit |-> "success", fs |-> fs]

(***************************************************************************)
(* Properties, over every input the MC module supplies                     *)
(***************************************************************************)

(* The viewer never damages an existing report file for nothing: a call   *)
(* changes no file but --out, and changes --out only after both documents  *)
(* were read and rendered, leaving it with the new report or a truncation  *)
(* of it (a failed write).  This rests on _run rendering before it opens   *)
(* the output file.                                                        *)
ReportFileChangedOnlyAfterRenderOnInputs ==
  \A fs \in FileSystems, args \in ViewerArgs, io \in WriteOutcomes :
    LET r   == ViewerRun(fs, args, io)
        rep == Report(fs[args.ar], fs[args.cdef])
    IN  \A p \in Paths :
          r.fs[p] # fs[p] =>
            /\ p = args.out
            /\ r.exit # "raised"
            /\ r.fs[p] \in {rep, Truncated(rep)}

\* the configuration a csv-to-oscal-cd call runs, when it runs one
RanConfig(fs, args) ==
  IF args.config # None THEN fs[args.config] ELSE Config(args.title, args.csv, args.out)
SelectsTask(args) ==
  args.config # None \/ (args.title # None /\ args.csv # None /\ args.out # None)

(* csv-to-oscal-cd exits with success after running a task only when the  *)
(* output directory of the configuration it ran holds the component-      *)
(* definition of that configuration's title and csv file, and a call that *)
(* writes a component-definition never exits with an error: the exit code *)
(* tells a caller whether component-definition.json is new.                *)
SuccessMeansComponentDefinitionOnInputs ==
  \A fs \in FileSystems, args \in CsvArgs, io \in WriteOutcomes,
     sim \in TaskOutcomes, exe \in TaskOutcomes :
    LET r   == Csv2OscalCdRun(fs, args, io, sim, exe)
        cfg == RanConfig(fs, args)
    IN  /\ r.exit = "success" /\ SelectsTask(args) =>
             r.fs[<<cfg.outdir, CdefName>>] = ComponentDefinition(cfg, fs[cfg.csv])
        /\ \A p \in Paths : IsKind(r.fs[p], "cdef") /\ r.fs[p] # fs[p] => r.exit = "success"

====
