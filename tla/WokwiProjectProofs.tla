------------------------- MODULE WokwiProjectProofs -------------------------
(***************************************************************************)
(* What a validated Wokwi project is worth, for every set of signals, pins *)
(* and texts, and any number of builds, edits and faults.                  *)
(***************************************************************************)
EXTENDS WokwiProject, TLAPS

Copying == {"copy firmware", "copy assets"}
DiagramRead == {"check pins", "check manifest", "check project", "check binaries", "passed"}
PinsChecked == DiagramRead \ {"check pins"}
Validating == {"check diagram", "check pins", "check manifest", "check project", "check binaries"}
Working == Steps \ {"idle", "reset"}
Written == Working \cup {"generated", "passed"}

Shape ==
    /\ source = [f \in Sources |-> source[f]]
    /\ project = [f \in Generated |-> project[f]]
    /\ touched \in [Sources -> Nat]
    /\ step \in Steps \cup Ends
    /\ step \in Copying => todo \subseteq Generated \ {"entrypoint", "firmware", "wasm"}

OneEach == \A f \in Generated : \A x, y \in project[f] : x = y

Binaries ==
    /\ \A i \in image : i = <<i[1], i[2]>>
    /\ step \in Copying \cup {"reset", "compile"} => image = {}
    /\ step \in Copying => project["wasm"] = {}
    /\ step \in Written \ {"generated"} =>
          /\ \A b \in project["firmware"] : b[2] \in image
          /\ \A w \in project["wasm"], c \in project["chip"] : w[2] = c[2]

\* What a copy that is as old as its source was when it was compiled, read or
\* checked has to do with the others.
Holds(f, x) ==
    /\ f = "entrypoint" => \A i \in image : i[1] = x[2]
    /\ f = "settings" => \A i \in image : i[2] = x[2]
    /\ f = "settings" /\ step \in PinsChecked => FirmwarePins(x[2]) /\ Wired(seen, x[2])
    /\ f = "diagram" /\ step \in DiagramRead => seen = x[2]

\* A source that was not edited is its copy ...
Current ==
    step \in Working =>
        \A f \in Sources : \A x \in project[f] : touched[f] = 0 => x[2] = source[f]

\* ... one that was edited once, and is its copy, was edited before it ...
Pending ==
    step \in Working =>
        \A f \in Sources : \A x \in project[f] :
            touched[f] <= 1 /\ x[2] = source[f] => Holds(f, x)

\* ... and the validator asks whether it is.
Checked(f) ==
    \/ step \in {"check binaries", "passed"}
    \/ step = "check project" /\ f \notin todo

Compared ==
    \A f \in Sources : \A x \in project[f] : touched[f] <= 1 /\ Checked(f) => Holds(f, x)

OneBuild ==
    step \in Written => \A f \in Generated : \A x \in project[f] : x[1] = build

IInv == /\ Shape /\ OneEach /\ Binaries /\ Current /\ Pending /\ Compared
        /\ OneBuild /\ BuildsNeverMix

-----------------------------------------------------------------------------
(* The generator. *)

LEMMA SourcesGenerated ==
    /\ Sources \subseteq Generated
    /\ {"entrypoint", "settings", "diagram", "chip"} \subseteq Sources
    /\ {"firmware", "wasm", "build/doxygen", "src", "asset"} \cap Sources = {}
    /\ {"firmware", "wasm", "build/doxygen", "src", "asset"} \subseteq Generated
BY DEF Sources, Generated, Firmware, Assets

LEMMA InitIInv == Init => IInv
<1>. SUFFICES ASSUME Init PROVE IInv  OBVIOUS
<1>1. source = [f \in Sources |-> source[f]]
  <2>1. Tracked = [entrypoint |-> Tracked.entrypoint, settings |-> Tracked.settings,
                   diagram |-> Tracked.diagram, chip |-> Tracked.chip,
                   manifest |-> Tracked.manifest]
    BY TrackedAssumption DEF Trees
  <2>2. Sources = {"entrypoint", "settings", "diagram", "chip", "manifest"}
    BY DEF Sources, Firmware, Assets
  <2>. QED  BY <2>1, <2>2 DEF Init
<1>2. \A f \in Generated : project[f] = {}  BY DEF Init
<1>3. Shape  BY <1>1 DEF Init, Shape, Steps, Copying
<1>4. OneEach /\ Current /\ Pending /\ OneBuild /\ BuildsNeverMix
  BY DEF Init, OneEach, Current, Pending, OneBuild, BuildsNeverMix, Working, Written, Steps
<1>5. Binaries /\ Compared
  BY <1>2, SourcesGenerated
  DEF Init, Binaries, Compared, Checked, Copying, Written, Working, Steps
<1>. QED  BY <1>3, <1>4, <1>5 DEF IInv

LEMMA BeginIInv ==
    ASSUME IInv, Begin
    PROVE  IInv'
<1>1. step' \in {"refused", "reset"} /\ image' = {} /\ UNCHANGED <<source, project>>
  BY DEF Begin
<1>2. Shape'  BY <1>1 DEF IInv, Shape, Begin, Steps, Ends, Copying
<1>3. OneEach' /\ BuildsNeverMix'  BY <1>1 DEF IInv, OneEach, BuildsNeverMix
<1>4. Current' /\ Pending' /\ OneBuild' /\ Compared' /\ Binaries'
  BY <1>1 DEF Current, Pending, OneBuild, Compared, Checked, Binaries, Working, Written, Steps,
              Copying
<1>. QED  BY <1>2, <1>3, <1>4 DEF IInv

\* What the steps of the build after reset have in common.
LEMMA PutIInv ==
    ASSUME IInv, step \in Working, step' \in Working, NEW f \in Generated, NEW text,
           Put(f, text), UNCHANGED <<source, touched, build>>
    PROVE  /\ OneEach' /\ OneBuild' /\ BuildsNeverMix'
           /\ project'[f] = {<<build, text>>}
           /\ \A g \in Generated \ {f} : project'[g] = project[g]
           /\ project' = [g \in Generated |-> project'[g]]
<1>. USE DEF IInv
<1>1. /\ project'[f] = {<<build, text>>}
      /\ \A g \in Generated \ {f} : project'[g] = project[g]
      /\ project' = [g \in Generated |-> project'[g]]
  BY DEF Put, Shape
<1>2. \A g \in Generated : \A x \in project[g] : x[1] = build
  BY DEF OneBuild, Written
<1>3. \A g \in Generated : \A x \in project'[g] : x[1] = build
  BY <1>1, <1>2
<1>4. OneBuild' /\ BuildsNeverMix'  BY <1>3 DEF OneBuild, BuildsNeverMix
<1>5. OneEach'
  BY <1>1 DEF OneEach
<1>. QED  BY <1>1, <1>4, <1>5

LEMMA ResetIInv ==
    ASSUME IInv, Reset
    PROVE  IInv'
<1>. USE DEF IInv
<1>1. \A g \in Generated : project'[g] \subseteq project[g]
  BY DEF Reset, Shape
<1>2. project' = [g \in Generated |-> project'[g]]  BY DEF Reset, Shape
<1>3. \/ step' = "reset" /\ todo' = todo
      \/ /\ step' = "copy firmware" /\ todo' = FirmwareFiles
         /\ \A g \in Generated : project'[g] = {}
  BY DEF Reset
<1>4. UNCHANGED <<source, touched, image, build>> /\ image = {}
  BY DEF Reset, Same, Binaries
<1>5. FirmwareFiles \subseteq Generated \ {"entrypoint", "firmware", "wasm"}
  BY DEF FirmwareFiles, Firmware, Generated, Sources, Assets
<1>6. Shape'  BY <1>2, <1>3, <1>4, <1>5 DEF Shape, Steps, Copying
<1>7. OneEach' /\ BuildsNeverMix'  BY <1>1 DEF OneEach, BuildsNeverMix
<1>8. Current' /\ Pending' /\ OneBuild' /\ Compared' /\ Binaries'
  BY <1>3, <1>4, SourcesGenerated
  DEF Current, Pending, OneBuild, Compared, Checked, Binaries, Working, Written, Steps, Copying
<1>. QED  BY <1>6, <1>7, <1>8

LEMMA CopyIInv ==
    ASSUME IInv, step \in Copying, step' \in Copying,
           NEW f \in Generated \ {"firmware", "wasm"}, NEW text, Put(f, text),
           f \in Sources => text = source[f],
           todo' \subseteq Generated \ {"entrypoint", "firmware", "wasm"},
           UNCHANGED <<source, touched, build, image, seen>>
    PROVE  IInv'
<1>. USE DEF IInv
<1>1. step \in Working /\ step' \in Working  BY DEF Working, Steps, Copying
<1>2. /\ OneEach' /\ OneBuild' /\ BuildsNeverMix'
      /\ project'[f] = {<<build, text>>}
      /\ \A g \in Generated \ {f} : project'[g] = project[g]
      /\ project' = [g \in Generated |-> project'[g]]
  BY <1>1, PutIInv
<1>3. Shape'  BY <1>1, <1>2 DEF Shape, Working
<1>4. image = {} /\ project["wasm"] = {} /\ project["firmware"] = {}
  BY <1>1 DEF Binaries, Written, Steps, Copying
<1>5. Binaries'
  BY <1>2, <1>4, SourcesGenerated DEF Binaries, Generated
<1>6. Current'
  BY <1>1, <1>2, SourcesGenerated DEF Current
<1>7. \A g, x : Holds(g, x)'
  BY <1>4 DEF Holds, Copying, PinsChecked, DiagramRead
<1>8. Pending' /\ Compared'  BY <1>7 DEF Pending, Compared
<1>. QED  BY <1>2, <1>3, <1>5, <1>6, <1>8

LEMMA CopyFileIInv ==
    ASSUME IInv, CopyFile
    PROVE  IInv'
<1>. PICK f \in todo :
        /\ Put(f, IF f \in Sources THEN source[f] ELSE f)
        /\ todo' = todo \ {f}
  BY DEF CopyFile
<1>1. step \in Copying /\ step' = step /\ UNCHANGED <<source, touched, build, image, seen>>
  BY DEF CopyFile, Same, Copying
<1>2. todo \subseteq Generated \ {"entrypoint", "firmware", "wasm"}
  BY <1>1 DEF IInv, Shape
<1>. QED  BY <1>1, <1>2, CopyIInv

LEMMA CopyEntrypointIInv ==
    ASSUME IInv, CopyEntrypoint
    PROVE  IInv'
<1>1. /\ step \in Copying /\ step' \in Copying
      /\ UNCHANGED <<source, touched, build, image, seen>>
  BY DEF CopyEntrypoint, Same, Copying
<1>2. Put("entrypoint", source["entrypoint"])  BY DEF CopyEntrypoint
<1>3. todo' \subseteq Generated \ {"entrypoint", "firmware", "wasm"}
  BY DEF CopyEntrypoint, AssetFiles, Assets, Generated, Sources, Firmware
<1>4. "entrypoint" \in Generated \ {"firmware", "wasm"}  BY SourcesGenerated
<1>. QED  BY <1>1, <1>2, <1>3, <1>4, CopyIInv

LEMMA GenerateIInv ==
    ASSUME IInv, Generate
    PROVE  IInv'
<1>. USE DEF IInv
<1>1. /\ step = "copy assets" /\ step' \in {"generated", "compile"}
      /\ UNCHANGED <<source, project, touched, build, image, todo>>
      /\ image = {}
  BY DEF Generate, Same, Binaries, Copying
<1>2. Shape'  BY <1>1 DEF Shape, Steps, Ends, Copying
<1>10. project' = project  BY <1>1
<1>9. BuildsNeverMix'  BY <1>10 DEF BuildsNeverMix
<1>3. OneEach'  BY <1>1 DEF OneEach
<1>6. OneBuild' /\ Current'
  BY <1>1 DEF OneBuild, Current, Working, Written, Steps
<1>7. /\ \A b \in project["firmware"] : b[2] \in image
      /\ \A w \in project["wasm"], c \in project["chip"] : w[2] = c[2]
  BY <1>1 DEF Binaries, Working, Written, Steps
<1>8. Binaries'
  BY <1>1, <1>7 DEF Binaries, Copying
<1>4. \A g, x : Holds(g, x)'
  BY <1>1 DEF Holds, PinsChecked, DiagramRead
<1>5. Pending' /\ Compared'  BY <1>4 DEF Pending, Compared
<1>. QED  BY <1>2, <1>3, <1>5, <1>6, <1>8, <1>9

-----------------------------------------------------------------------------
(* The compilers. *)

LEMMA CompileIInv ==
    ASSUME IInv, Compile
    PROVE  IInv'
<1>. USE DEF IInv
<1>1. /\ step = "compile" /\ step' = "package"
      /\ image' = {<<source["entrypoint"], source["settings"]>>}
      /\ UNCHANGED <<source, project, touched, build, todo>>
  BY DEF Compile, GoOn, Same
<1>2. Shape'  BY <1>1 DEF Shape, Steps, Copying
<1>3. OneEach' /\ BuildsNeverMix' /\ OneBuild' /\ Current'
  BY <1>1 DEF OneEach, BuildsNeverMix, OneBuild, Current, Working, Written, Steps
<1>4. project["firmware"] = {}
  BY <1>1 DEF Binaries, Written, Working, Steps
<1>5. Binaries'
  BY <1>1, <1>4 DEF Binaries, Copying, Written, Working, Steps
<1>6. \A g \in Sources : \A x \in project[g] : x[2] = source[g] => Holds(g, x)'
  BY <1>1 DEF Holds, PinsChecked, DiagramRead
<1>7. Pending' /\ Compared'
  BY <1>1, <1>6 DEF Pending, Compared, Checked
<1>. QED  BY <1>2, <1>3, <1>5, <1>7

\* A binary that is put next to the sources leaves what is known of them.
LEMMA BinaryIInv ==
    ASSUME IInv, NEW f \in {"firmware", "wasm"}, NEW text, Put(f, text),
           step \in {"package", "chip"}, step' \in {"chip", "check diagram"},
           UNCHANGED <<source, touched, build, image>>
    PROVE  /\ Shape' /\ OneEach' /\ OneBuild' /\ BuildsNeverMix'
           /\ Current' /\ Pending' /\ Compared'
           /\ project'[f] = {<<build, text>>}
           /\ \A g \in Generated \ {f} : project'[g] = project[g]
<1>. USE DEF IInv
<1>1. step \in Working /\ step' \in Working  BY DEF Working, Steps
<1>2. /\ OneEach' /\ OneBuild' /\ BuildsNeverMix'
      /\ project'[f] = {<<build, text>>}
      /\ \A g \in Generated \ {f} : project'[g] = project[g]
      /\ project' = [g \in Generated |-> project'[g]]
  BY <1>1, SourcesGenerated, PutIInv
<1>3. Shape'  BY <1>1, <1>2 DEF Shape, Working, Copying
<1>4. \A g \in Sources : project'[g] = project[g]
  BY <1>2, SourcesGenerated
<1>5. Current'  BY <1>1, <1>4 DEF Current
<1>6. \A g, x : Holds(g, x)' <=> Holds(g, x)
  BY DEF Holds, PinsChecked, DiagramRead
<1>7. Pending' /\ Compared'
  BY <1>1, <1>4, <1>6 DEF Pending, Compared, Checked
<1>. QED  BY <1>2, <1>3, <1>5, <1>7

LEMMA PackageIInv ==
    ASSUME IInv, Package
    PROVE  IInv'
<1>1. step = "package" /\ step' = "chip" /\ UNCHANGED <<source, touched, build, image>>
  BY DEF Package, GoOn, Same
<1>. PICK text \in image : Put("firmware", text)  BY DEF Package
<1>2. /\ Shape' /\ OneEach' /\ OneBuild' /\ BuildsNeverMix'
      /\ Current' /\ Pending' /\ Compared'
      /\ project'["firmware"] = {<<build, text>>}
      /\ \A g \in Generated \ {"firmware"} : project'[g] = project[g]
  BY <1>1, BinaryIInv
<1>3. Binaries'
  BY <1>1, <1>2, SourcesGenerated DEF IInv, Binaries, Copying, Written, Working, Steps
<1>. QED  BY <1>2, <1>3 DEF IInv

LEMMA CompileChipIInv ==
    ASSUME IInv, CompileChip
    PROVE  IInv'
<1>1. step = "chip" /\ step' = "check diagram" /\ UNCHANGED <<source, touched, build, image>>
  BY DEF CompileChip, GoOn, Same
<1>. PICK copy \in project["chip"] : Put("wasm", copy[2])  BY DEF CompileChip
<1>2. /\ Shape' /\ OneEach' /\ OneBuild' /\ BuildsNeverMix'
      /\ Current' /\ Pending' /\ Compared'
      /\ project'["wasm"] = {<<build, copy[2]>>}
      /\ \A g \in Generated \ {"wasm"} : project'[g] = project[g]
  BY <1>1, BinaryIInv
<1>3. project'["chip"] = {copy}
  BY <1>2, SourcesGenerated DEF IInv, OneEach
<1>4. \A b \in project'["firmware"] : b[2] \in image
  BY <1>1, <1>2, SourcesGenerated DEF IInv, Binaries, Written, Working, Steps
<1>5. \A i \in image : i = <<i[1], i[2]>>  BY DEF IInv, Binaries
<1>6. \A w \in project'["wasm"], c \in project'["chip"] : w[2] = c[2]
  BY <1>2, <1>3
<1>7. Binaries'
  BY <1>1, <1>4, <1>5, <1>6 DEF Binaries, Copying
<1>. QED  BY <1>2, <1>7 DEF IInv

-----------------------------------------------------------------------------
(* The validator. *)

\* A step of the validator writes nothing: what is left to show is what it
\* has found out.
LEMMA ValidateIInv ==
    ASSUME IInv, step \in Validating, step' \in Validating \cup {"passed", "failed"},
           UNCHANGED <<source, project, touched, build, image>>
    PROVE  Shape' /\ OneEach' /\ Binaries' /\ Current' /\ OneBuild' /\ BuildsNeverMix'
<1>. USE DEF IInv
<1>1. step \in Working  BY DEF Working, Steps, Validating
<1>2. Shape'  BY DEF Shape, Steps, Ends, Copying, Validating
<1>3. OneEach' /\ BuildsNeverMix'  BY DEF OneEach, BuildsNeverMix
<1>4. OneBuild' /\ Current'
  BY <1>1 DEF OneBuild, Current, Written
<1>5. /\ \A b \in project["firmware"] : b[2] \in image
      /\ \A w \in project["wasm"], c \in project["chip"] : w[2] = c[2]
  BY <1>1 DEF Binaries, Working, Written, Steps
<1>6. step' \notin Copying \cup {"reset", "compile"}
  BY DEF Copying, Validating
<1>7. Binaries'  BY <1>5, <1>6 DEF Binaries
<1>. QED  BY <1>2, <1>3, <1>4, <1>7

LEMMA ReadDiagramIInv ==
    ASSUME IInv, ReadDiagram
    PROVE  IInv'
<1>. USE DEF IInv
<1>1. /\ step = "check diagram" /\ step' \in {"check pins", "failed"}
      /\ seen' = source["diagram"]
      /\ UNCHANGED <<source, project, touched, build, image>>
  BY DEF ReadDiagram, Same, Require
<1>2. Shape' /\ OneEach' /\ Binaries' /\ Current' /\ OneBuild' /\ BuildsNeverMix'
  BY <1>1, ValidateIInv DEF Validating
<1>3. \A g \in Sources : \A x \in project[g] : x[2] = source[g] /\ Holds(g, x) => Holds(g, x)'
  BY <1>1 DEF Holds, PinsChecked, DiagramRead
<1>4. step \in Working  BY <1>1 DEF Working, Steps
<1>5. Pending'  BY <1>1, <1>3, <1>4 DEF Pending
<1>6. Compared'  BY <1>1 DEF Compared, Checked
<1>. QED  BY <1>2, <1>5, <1>6

LEMMA CheckPinsIInv ==
    ASSUME IInv, CheckPins
    PROVE  IInv'
<1>. USE DEF IInv
<1>1. /\ step = "check pins" /\ step' \in {"check manifest", "failed"}
      /\ UNCHANGED <<source, project, touched, build, image, seen>>
      /\ step' # "failed" =>
            FirmwarePins(source["settings"]) /\ Wired(seen, source["settings"])
  BY DEF CheckPins, Same, Require
<1>2. Shape' /\ OneEach' /\ Binaries' /\ Current' /\ OneBuild' /\ BuildsNeverMix'
  BY <1>1, ValidateIInv DEF Validating
<1>3. ASSUME NEW g \in Sources, NEW x \in project[g], x[2] = source[g], Holds(g, x)
      PROVE  Holds(g, x)'
  <2>1. step' \in PinsChecked => step' # "failed"  BY DEF PinsChecked, DiagramRead
  <2>2. step \in DiagramRead  BY <1>1 DEF DiagramRead
  <2>. QED  BY <1>1, <1>3, <2>1, <2>2 DEF Holds
<1>4. step \in Working  BY <1>1 DEF Working, Steps
<1>5. Pending'  BY <1>1, <1>3, <1>4 DEF Pending
<1>6. Compared'  BY <1>1 DEF Compared, Checked
<1>. QED  BY <1>2, <1>5, <1>6

\* The later checks read neither the diagram nor the pins again.
LEMMA LaterIInv ==
    ASSUME IInv, step \in {"check manifest", "check project", "check binaries"},
           step' \in {"check project", "check binaries", "passed", "failed"},
           UNCHANGED <<source, project, touched, build, image, seen>>
    PROVE  /\ Shape' /\ OneEach' /\ Binaries' /\ Current' /\ OneBuild' /\ BuildsNeverMix'
           /\ Pending'
           /\ \A g, x : Holds(g, x) => Holds(g, x)'
<1>. USE DEF IInv
<1>1. Shape' /\ OneEach' /\ Binaries' /\ Current' /\ OneBuild' /\ BuildsNeverMix'
  BY ValidateIInv DEF Validating
<1>2. \A g, x : Holds(g, x) => Holds(g, x)'
  BY DEF Holds, PinsChecked, DiagramRead
<1>3. step \in Working  BY DEF Working, Steps
<1>4. Pending'  BY <1>2, <1>3 DEF Pending
<1>. QED  BY <1>1, <1>2, <1>4

LEMMA CheckManifestIInv ==
    ASSUME IInv, CheckManifest
    PROVE  IInv'
<1>1. /\ step = "check manifest" /\ step' \in {"check project", "failed"}
      /\ UNCHANGED <<source, project, touched, build, image, seen>>
      /\ Sources \subseteq todo'
  BY DEF CheckManifest, Same, Require, Wanted
<1>2. Compared'  BY <1>1 DEF Compared, Checked
<1>. QED  BY <1>1, <1>2, LaterIInv DEF IInv

LEMMA CheckFileIInv ==
    ASSUME IInv, CheckFile
    PROVE  IInv'
<1>. USE DEF IInv
<1>. PICK f \in todo : Require(IsCopied(f), "check project") /\ todo' = todo \ {f}
  BY DEF CheckFile
<1>1. /\ step = "check project" /\ step' \in {"check project", "failed"}
      /\ UNCHANGED <<source, project, touched, build, image, seen>>
      /\ step' # "failed" => IsCopied(f)
  BY DEF CheckFile, Same, Require
<1>2. Pending' /\ \A g, x : Holds(g, x) => Holds(g, x)'  BY <1>1, LaterIInv
<1>3. ASSUME NEW g \in Sources, NEW x \in project[g], touched[g] <= 1, Checked(g)'
      PROVE  Holds(g, x)'
  <2>1. step' = "check project"  BY <1>1, <1>3 DEF Checked
  <2>2. CASE g = f
    <3>1. x[2] = source[g]
      BY <1>1, <2>1, <2>2, SourcesGenerated DEF IsCopied, OneEach
    <3>2. step \in Working  BY <1>1 DEF Working, Steps
    <3>. QED  BY <1>2, <1>3, <3>1, <3>2 DEF Pending
  <2>3. CASE g # f
    <3>1. Checked(g)  BY <1>1, <1>3, <2>1, <2>3 DEF Checked
    <3>. QED  BY <1>2, <1>3, <3>1 DEF Compared
  <2>. QED  BY <2>2, <2>3
<1>4. Compared'  BY <1>1, <1>3 DEF Compared
<1>. QED  BY <1>1, <1>4, LaterIInv

LEMMA FilesCheckedIInv ==
    ASSUME IInv, FilesChecked \/ CheckBinaries
    PROVE  IInv'
<1>1. /\ step \in {"check project", "check binaries"}
      /\ step' \in {"check binaries", "passed", "failed"}
      /\ UNCHANGED <<source, project, touched, build, image, seen>>
      /\ step = "check project" => todo = {}
  BY DEF FilesChecked, CheckBinaries, Same, Require
<1>2. Pending' /\ \A g, x : Holds(g, x) => Holds(g, x)'  BY <1>1, LaterIInv
<1>3. \A g \in Sources : Checked(g)  BY <1>1 DEF Checked
<1>4. Compared'  BY <1>1, <1>2, <1>3 DEF IInv, Compared
<1>. QED  BY <1>1, <1>4, LaterIInv DEF IInv

-----------------------------------------------------------------------------
(* Around it. *)

LEMMA HinderIInv ==
    ASSUME IInv, Hinder
    PROVE  IInv'
<1>. USE DEF IInv
<1>1. step' = "failed" /\ UNCHANGED <<source, project, touched, build, image>>
  BY DEF Hinder
<1>2. project' = project  BY <1>1
<1>3. OneEach' /\ BuildsNeverMix'  BY <1>2 DEF OneEach, BuildsNeverMix
<1>4. Shape'  BY <1>1 DEF Shape, Ends, Copying
<1>5. \A i \in image : i = <<i[1], i[2]>>  BY DEF Binaries
<1>6. Binaries'
  BY <1>1, <1>5 DEF Binaries, Working, Written, Steps, Copying
<1>7. Current' /\ Pending' /\ OneBuild' /\ Compared'
  BY <1>1 DEF Current, Pending, OneBuild, Compared, Checked, Working, Written, Steps
<1>. QED  BY <1>3, <1>4, <1>6, <1>7

LEMMA EditIInv ==
    ASSUME IInv, Edit
    PROVE  IInv'
<1>. USE DEF IInv
<1>1. UNCHANGED <<project, build, image, step, todo, seen>>
  BY DEF Edit, buildVars
<1>. PICK f \in Sources :
        /\ \E text \in Texts(f) \ {source[f]} : source' = [source EXCEPT ![f] = text]
        /\ touched' = IF Running THEN [touched EXCEPT ![f] = @ + 1] ELSE touched
  BY DEF Edit
<1>2. /\ source' = [g \in Sources |-> source'[g]]
      /\ source'[f] # source[f]
      /\ \A g \in Sources \ {f} : source'[g] = source[g]
  BY DEF Shape
<1>3. /\ touched' \in [Sources -> Nat]
      /\ \A g \in Sources : touched'[g] >= touched[g]
      /\ \A g \in Sources \ {f} : touched'[g] = touched[g]
      /\ step \in Working => touched'[f] = touched[f] + 1
  BY DEF Shape, Running, Working
<1>4. Shape'  BY <1>1, <1>2, <1>3 DEF Shape
<1>5. project' = project  BY <1>1
<1>6. OneEach' /\ BuildsNeverMix' /\ OneBuild'
  BY <1>1, <1>5 DEF OneEach, BuildsNeverMix, OneBuild
<1>7. Binaries'  BY <1>1 DEF Binaries
<1>8. touched \in [Sources -> Nat]  BY DEF Shape
<1>9. Current'
  <2>. SUFFICES ASSUME step \in Working, NEW g \in Sources, NEW x \in project[g],
                       touched'[g] = 0
                PROVE  x[2] = source'[g]
    BY <1>1 DEF Current
  <2>1. g # f  BY <1>3, <1>8
  <2>2. touched[g] = 0  BY <1>3, <2>1
  <2>. QED  BY <1>2, <2>1, <2>2 DEF Current
<1>10. \A g, x : Holds(g, x)' <=> Holds(g, x)  BY <1>1 DEF Holds
<1>11. Pending'
  <2>. SUFFICES ASSUME step \in Working, NEW g \in Sources, NEW x \in project[g],
                       touched'[g] <= 1, x[2] = source'[g]
                PROVE  Holds(g, x)
    BY <1>1, <1>10 DEF Pending
  <2>1. CASE g = f
    <3>1. touched[f] = 0  BY <1>3, <1>8, <2>1
    <3>2. x[2] = source[f]  BY <2>1, <3>1 DEF Current
    <3>. QED  BY <1>2, <2>1, <3>2
  <2>2. CASE g # f
    BY <1>2, <1>3, <2>2 DEF Pending
  <2>. QED  BY <2>1, <2>2
<1>12. Compared'
  <2>. SUFFICES ASSUME NEW g \in Sources, NEW x \in project[g],
                       touched'[g] <= 1, Checked(g)
                PROVE  Holds(g, x)
    BY <1>1, <1>10 DEF Compared, Checked
  <2>1. touched[g] <= 1  BY <1>3, <1>8
  <2>. QED  BY <2>1 DEF Compared
<1>. QED  BY <1>4, <1>6, <1>7, <1>9, <1>11, <1>12

LEMMA StepIInv == IInv /\ [Next]_vars => IInv'
<1>. SUFFICES ASSUME IInv, [Next]_vars PROVE IInv'  OBVIOUS
<1>1. CASE Begin  BY <1>1, BeginIInv
<1>2. CASE Build
  BY <1>2, ResetIInv, CopyFileIInv, CopyEntrypointIInv, GenerateIInv, CompileIInv,
     PackageIInv, CompileChipIInv, ReadDiagramIInv, CheckPinsIInv, CheckManifestIInv,
     CheckFileIInv, FilesCheckedIInv
  DEF Build
<1>3. CASE Hinder  BY <1>3, HinderIInv
<1>4. CASE Edit  BY <1>4, EditIInv
<1>5. CASE UNCHANGED vars
  <2>1. UNCHANGED <<source, project, image, step, todo, seen, build, touched>>
    BY <1>5 DEF vars, buildVars
  <2>2. Shape' /\ OneEach' /\ Binaries'
    BY <2>1 DEF IInv, Shape, OneEach, Binaries
  <2>3. \A g, x : Holds(g, x)' <=> Holds(g, x)  BY <2>1 DEF Holds
  <2>4. Current' /\ Pending' /\ Compared'
    BY <2>1, <2>3 DEF IInv, Current, Pending, Compared, Checked
  <2>5. OneBuild' /\ BuildsNeverMix'
    BY <2>1 DEF IInv, OneBuild, BuildsNeverMix
  <2>. QED  BY <2>2, <2>4, <2>5 DEF IInv
<1>. QED  BY <1>1, <1>2, <1>3, <1>4, <1>5 DEF Next

LEMMA InvariantIInv == Spec => []IInv
<1>. QED  BY InitIInv, StepIInv, PTL DEF Spec

-----------------------------------------------------------------------------
(* Files of two builds never lie next to each other (generate_project()    *)
(* empties the directory before it copies).                                *)
THEOREM BuildsApart == Spec => []BuildsNeverMix
<1>1. IInv => BuildsNeverMix  BY DEF IInv
<1>. QED  BY <1>1, InvariantIInv, PTL

LEMMA IInvPassed == IInv => PassedBelongsTogether
<1>. SUFFICES ASSUME IInv, step = "passed", \A f \in Sources : touched[f] <= 1,
                     NEW e \in project["entrypoint"], NEW s \in project["settings"],
                     NEW d \in project["diagram"], NEW c \in project["chip"],
                     NEW b \in project["firmware"], NEW w \in project["wasm"]
              PROVE  /\ FirmwarePins(s[2]) /\ Wired(d[2], s[2])
                     /\ b[2] = <<e[2], s[2]>>
                     /\ w[2] = c[2]
  BY DEF PassedBelongsTogether
<1>1. \A f \in Sources : Checked(f)  BY DEF Checked
<1>2. /\ Holds("entrypoint", e) /\ Holds("settings", s) /\ Holds("diagram", d)
  BY <1>1, SourcesGenerated DEF IInv, Compared
<1>3. FirmwarePins(s[2]) /\ Wired(d[2], s[2])
  BY <1>2 DEF Holds, PinsChecked, DiagramRead
<1>4. /\ b[2] \in image /\ w[2] = c[2]
      /\ \A i \in image : i = <<i[1], i[2]>>
  BY DEF IInv, Binaries, Written, Working
<1>5. /\ \A i \in image : i[1] = e[2]
      /\ \A i \in image : i[2] = s[2]
  BY <1>2 DEF Holds
<1>. QED  BY <1>3, <1>4, <1>5

(* What the validator has passed belongs together: check_generated_project *)
(* compares sources with copies, and a source that is edited at most once  *)
(* during the build is its copy only if it was when it was compiled, read  *)
(* or checked.                                                             *)
THEOREM ValidatedBelongsTogether == Spec => []PassedBelongsTogether
<1>. QED  BY InvariantIInv, IInvPassed, PTL
=============================================================================
