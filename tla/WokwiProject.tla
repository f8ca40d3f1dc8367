----------------------------- MODULE WokwiProject -----------------------------
(***************************************************************************)
(* tools/build-wokwi-project.sh: generate-wokwi-project.py copies firmware *)
(* and simulation assets into the Wokwi project, arduino-cli and clang put *)
(* their binaries there, and validate-wokwi-project.py compares it all --  *)
(* while the sources are being edited, and any step may fail or be         *)
(* interrupted and be started again.                                       *)
(*                                                                         *)
(* One file stands for each group that the tools treat alike: settings for *)
(* all of src/, manifest for the assets whose text the validator looks at, *)
(* firmware for the BIN and ELF; src, asset and build/doxygen for files    *)
(* below src/, among the assets and in that directory which a .gitignore   *)
(* names.  The compilers and git are external; one build runs at a time.   *)
(***************************************************************************)
EXTENDS Naturals, FiniteSets

CONSTANTS
    Signals, Pins,     \* PinConfig: what is wired, and where to
    Entrypoints,       \* texts of the sketch
    Settings,          \* texts of firmware_settings.h: pins of signals
    Diagrams,          \* texts of diagram.json: whether it is sound, its wires
    Chips,             \* texts of neo-m8n.chip.c
    Tracked,           \* the texts that are committed
    Layouts,           \* the directories: ignored files, and whether git knows
    MaxBuilds,         \* bound: builds
    MaxEdits,          \* bound: edits of a source
    MaxFaults          \* bound: builds that are interrupted or fail outside

ASSUME WokwiAssumption ==
    /\ {MaxBuilds, MaxEdits, MaxFaults} \subseteq Nat
    /\ Diagrams \subseteq [sound: BOOLEAN, wires: SUBSET (Signals \X Pins)]
    /\ Layouts \subseteq [ignored: SUBSET {"src", "asset", "build/doxygen"},
                          git: BOOLEAN, refused: BOOLEAN]

\* A signal without a pin is missing from the file.
ASSUME SettingsAssumption ==
    \A s \in Settings : \E named \in SUBSET Signals : s \in [named -> Pins]

Trees == [entrypoint: Entrypoints, settings: Settings, diagram: Diagrams, chip: Chips,
          manifest: BOOLEAN]

ASSUME TrackedAssumption == Tracked \in Trees

VARIABLES
    layout,
    source,    \* the texts of firmware and assets
    project,   \* the generated files: none, or the build and the text of each
    image,     \* what arduino-cli compiled, in a directory of its own
    step,      \* of the build
    todo,      \* files that are left in this step
    seen,      \* the diagram that the validator has read
    build,     \* the builds so far
    faults, edits,
    touched,   \* history: how often a source was edited during the build
    hindered   \* history: the build was interrupted or failed outside

buildVars == <<image, step, todo, seen, build, hindered>>
vars == <<layout, source, project, buildVars, faults, edits, touched>>

Firmware == {"settings"}
Assets == {"diagram", "chip", "manifest"}
Sources == {"entrypoint"} \cup Firmware \cup Assets
Generated == Sources \cup {"src", "asset", "build/doxygen", "firmware", "wasm"}

Texts(f) ==
    CASE f = "entrypoint" -> Entrypoints
      [] f = "settings" -> Settings
      [] f = "diagram" -> Diagrams
      [] f = "chip" -> Chips
      [] f = "manifest" -> BOOLEAN   \* whether it says what it must

Steps == {"idle", "reset", "copy firmware", "copy assets", "compile", "package", "chip",
          "check diagram", "check pins", "check manifest", "check project", "check binaries"}
Ends == {"refused", "failed", "generated", "passed"}

TypeOK ==
    /\ layout \in Layouts
    /\ source \in Trees
    /\ DOMAIN project = Generated /\ \A f \in Generated : Cardinality(project[f]) <= 1
    /\ Cardinality(image) <= 1 /\ step \in Steps \cup Ends /\ todo \subseteq Generated
    /\ seen \in Diagrams
    /\ build \in 0 .. MaxBuilds /\ faults \in 0 .. MaxFaults /\ edits \in 0 .. MaxEdits
    /\ touched \in [Sources -> 0 .. MaxEdits] /\ hindered \in BOOLEAN

Init ==
    /\ layout \in Layouts
    /\ source = Tracked
    /\ project = [f \in Generated |-> {}]
    /\ image = {} /\ step = "idle" /\ todo = {} /\ seen = source.diagram
    /\ build = 0 /\ faults = 0 /\ edits = 0
    /\ touched = [f \in Sources |-> 0] /\ hindered = FALSE

-----------------------------------------------------------------------------
(* The generator. *)

\* What a build leaves alone unless the step says otherwise.
Same == UNCHANGED <<layout, source, build, hindered, faults, edits, touched>>

\* A build is asked for; resolve_inputs() looks at the directories: one
\* sketch, and none of them inside another.
Begin ==
    /\ step \in {"idle"} \cup Ends /\ build < MaxBuilds
    /\ build' = build + 1
    /\ step' = IF layout.refused THEN "refused" ELSE "reset"
    /\ touched' = [f \in Sources |-> 0] /\ hindered' = FALSE
    /\ image' = {} /\ todo' = {}
    /\ UNCHANGED <<layout, source, project, seen, faults, edits>>

\* Fault: git is not asked.
LeftOutNothing == {}

\* git_ignored_paths(): outside a repository git ignores nothing.
LeftOut == IF layout.git THEN layout.ignored ELSE {}

FirmwareFiles == Firmware \cup (({"src", "build/doxygen"} \cap layout.ignored) \ LeftOut)
AssetFiles == Assets \cup (({"asset"} \cap layout.ignored) \ LeftOut)

\* Fault: the directory is not emptied.
ResetNothing ==
    /\ step = "reset"
    /\ step' = "copy firmware" /\ todo' = FirmwareFiles
    /\ Same /\ UNCHANGED <<project, image, seen>>

\* rmtree() takes one file after the other, mkdir() makes the directory.
Reset ==
    /\ step = "reset"
    /\ \/ \E f \in Generated :
             /\ project[f] # {}
             /\ project' = [project EXCEPT ![f] = {}]
             /\ UNCHANGED <<step, todo>>
       \/ /\ \A f \in Generated : project[f] = {}
          /\ step' = "copy firmware"
          /\ todo' = FirmwareFiles
          /\ UNCHANGED project
    /\ Same /\ UNCHANGED <<image, seen>>

Put(f, text) == project' = [project EXCEPT ![f] = {<<build, text>>}]

\* copy_directory(): the files were listed before, and go in any order.
CopyFile ==
    /\ step \in {"copy firmware", "copy assets"}
    /\ \E f \in todo :
          /\ Put(f, IF f \in Sources THEN source[f] ELSE f)
          /\ todo' = todo \ {f}
    /\ Same /\ UNCHANGED <<image, step, seen>>

\* shutil.copy2(entrypoint, "sketch.ino"), then the assets are listed.
CopyEntrypoint ==
    /\ step = "copy firmware" /\ todo = {}
    /\ Put("entrypoint", source.entrypoint)
    /\ step' = "copy assets" /\ todo' = AssetFiles
    /\ Same /\ UNCHANGED <<image, seen>>

-----------------------------------------------------------------------------
(* The compilers.  arduino-cli compiles the firmware directory, clang the  *)
(* chip in the project.                                                    *)

GoOn(from, to) == step = from /\ step' = to /\ Same /\ UNCHANGED todo

Generate ==
    /\ step = "copy assets" /\ todo = {}
    /\ step' \in {"generated", "compile"}
    /\ Same /\ UNCHANGED <<project, image, todo, seen>>

Compile ==
    /\ GoOn("compile", "package")
    /\ image' = {<<source.entrypoint, source.settings>>}
    /\ UNCHANGED <<project, seen>>

Package ==
    /\ GoOn("package", "chip")
    /\ \E text \in image : Put("firmware", text)
    /\ UNCHANGED <<image, seen>>

CompileChip ==
    /\ GoOn("chip", "check diagram")
    /\ \E copy \in project["chip"] : Put("wasm", copy[2])
    /\ UNCHANGED <<image, seen>>

-----------------------------------------------------------------------------
(* The validator.  require() ends the build. *)

Require(condition, next) == step' = (IF condition THEN next ELSE "failed")

ReadDiagram ==
    /\ step = "check diagram"
    /\ seen' = source.diagram
    /\ Require(source.diagram.sound, "check pins")
    /\ Same /\ UNCHANGED <<project, image, todo>>

\* Every signal has a pin of its own.
FirmwarePins(settings) ==
    /\ DOMAIN settings = Signals
    /\ \A s, t \in Signals : settings[s] = settings[t] => s = t

Wired(diagram, settings) == \A s \in Signals : <<s, settings[s]>> \in diagram.wires

CheckPins ==
    /\ step = "check pins"
    /\ Require(FirmwarePins(source.settings) /\ Wired(seen, source.settings), "check manifest")
    /\ Same /\ UNCHANGED <<project, image, todo, seen>>

\* What the validator wants of the project: every file below src/ and among
\* the assets, those that git ignores too.
Wanted == Sources \cup ({"src", "asset"} \cap layout.ignored)

\* The chip definition, libraries, VS Code files and wokwi.toml; then the
\* generated project, whose files are listed.
CheckManifest ==
    /\ step = "check manifest"
    /\ Require(source.manifest /\ project["build/doxygen"] = {}, "check project")
    /\ todo' = Wanted
    /\ Same /\ UNCHANGED <<project, image, seen>>

\* Fault: a file need only be there.
IsThere(f) == project[f] # {}

IsCopied(f) == \E copy \in project[f] : f \in Sources => copy[2] = source[f]

\* The sketch, then src/, then the assets.
CheckFile ==
    /\ step = "check project"
    /\ \E f \in todo :
          /\ \/ f = "entrypoint"
             \/ /\ "entrypoint" \notin todo
                /\ f \in Firmware \cup {"src"} \/ (Firmware \cup {"src"}) \cap todo = {}
          /\ Require(IsCopied(f), "check project")
          /\ todo' = todo \ {f}
    /\ Same /\ UNCHANGED <<project, image, seen>>

FilesChecked ==
    /\ step = "check project" /\ todo = {}
    /\ step' = "check binaries"
    /\ Same /\ UNCHANGED <<project, image, todo, seen>>

CheckBinaries ==
    /\ step = "check binaries"
    /\ Require(project["firmware"] # {} /\ project["wasm"] # {}, "passed")
    /\ Same /\ UNCHANGED <<project, image, todo, seen>>

Build ==
    \/ Reset \/ CopyFile \/ CopyEntrypoint \/ Generate \/ Compile \/ Package \/ CompileChip
    \/ ReadDiagram \/ CheckPins \/ CheckManifest \/ CheckFile \/ FilesChecked \/ CheckBinaries

-----------------------------------------------------------------------------
(* Around it. *)

Running == step \in Steps \ {"idle"}

\* Ctrl-C, a full disk, a compiler that fails: `set -e' ends the script.
Hinder ==
    /\ Running /\ faults < MaxFaults
    /\ faults' = faults + 1
    /\ step' = "failed" /\ hindered' = TRUE
    /\ UNCHANGED <<layout, source, project, image, todo, seen, build, edits, touched>>

Edit ==
    /\ edits < MaxEdits /\ edits' = edits + 1
    /\ \E f \in Sources :
          /\ \E text \in Texts(f) \ {source[f]} : source' = [source EXCEPT ![f] = text]
          /\ touched' = IF Running THEN [touched EXCEPT ![f] = @ + 1] ELSE touched
    /\ UNCHANGED <<layout, project, buildVars, faults>>

Next == Begin \/ Build \/ Hinder \/ Edit

Spec == Init /\ [][Next]_vars

\* A build that was begun goes on; nobody has to build, or to edit.
FairSpec == Spec /\ WF_vars(Build)

-----------------------------------------------------------------------------
(* What the validator has passed belongs together, though it reads the     *)
(* sources long after they were copied and compiled: the diagram wires the *)
(* pins of the settings next to it, and the binaries are compiled from the *)
(* files next to them.  Only a source that is edited twice during the      *)
(* build, and so may be what it was, can deceive the comparison.           *)
PassedBelongsTogether ==
    step = "passed" /\ (\A f \in Sources : touched[f] <= 1) =>
        \A e \in project["entrypoint"], s \in project["settings"], d \in project["diagram"],
           c \in project["chip"], b \in project["firmware"], w \in project["wasm"] :
              /\ FirmwarePins(s[2]) /\ Wired(d[2], s[2])
              /\ b[2] = <<e[2], s[2]>>
              /\ w[2] = c[2]

(* Files of two builds never lie next to each other, wherever the later    *)
(* one was interrupted, refused or failed.                                 *)
BuildsNeverMix ==
    \A f, g \in Generated : \A x \in project[f], y \in project[g] : x[1] = y[1]

Sound ==
    /\ ~layout.refused
    /\ source.diagram.sound /\ source.manifest
    /\ FirmwarePins(source.settings) /\ Wired(source.diagram, source.settings)

\* Generator and validator mean the same files.
Agreed ==
    IF layout.git THEN layout.ignored \cap {"src", "asset"} = {}
                  ELSE "build/doxygen" \notin layout.ignored

(* Sound sources pass, unless they are edited or the build is hindered;    *)
(* and they are refused, every time, where a file below src/ or among the  *)
(* assets is ignored by git, which the generator leaves out and the        *)
(* validator wants, or where the documentation is not.                     *)
SoundBuildsPass ==
    step = "reset" /\ Sound /\ (\A f \in Sources : touched[f] = 0)
        ~> \/ step \in {"generated", IF Agreed THEN "passed" ELSE "failed"}
           \/ hindered \/ \E f \in Sources : touched[f] > 0
=============================================================================
