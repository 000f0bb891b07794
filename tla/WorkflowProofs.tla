----------------------------- MODULE WorkflowProofs -----------------------------
(***************************************************************************)
(* What the scan of a history finds, for histories of every length: the     *)
(* chaincode and the portal agree, an allowed step advances, and a          *)
(* valorization waits for an accepted custody transfer.                    *)
(*                                                                         *)
(* The scan is a recursive function, so each fact about it is carried from  *)
(* a prefix of the history to the next, by UpTo (BoundedInduction).          *)
(***************************************************************************)
EXTENDS WorkflowHistory, BoundedInduction, FiniteSetTheorems, TLAPS

-----------------------------------------------------------------------------
(* The steps *)

LEMMA TypesAre ==
    /\ ProductTypes = {"cultivation", "harvest", "collection_transport", "milling",
                       "lab_verification", "bottling", "distribution_retail"}
    /\ CircularTypes = {"residue_generation", "residue_custody", "valorization",
                        "useful_output", "return_or_sale", "env_accounting"}
    /\ Len(ProductSteps) = 7 /\ Len(CircularSteps) = 6
  <1>1. 1 .. 7 = {1, 2, 3, 4, 5, 6, 7} /\ 1 .. 6 = {1, 2, 3, 4, 5, 6}
    OBVIOUS
  <1>2. Len(ProductSteps) = 7 /\ Len(CircularSteps) = 6
    BY DEF ProductSteps, CircularSteps
  <1>3. ProductTypes = {ProductSteps[k] : k \in {1, 2, 3, 4, 5, 6, 7}}
    BY <1>1, <1>2 DEF ProductTypes, ElementsOf
  <1>4. CircularTypes = {CircularSteps[k] : k \in {1, 2, 3, 4, 5, 6}}
    BY <1>1, <1>2 DEF CircularTypes, ElementsOf
  <1>5. QED
    BY <1>2, <1>3, <1>4 DEF ProductSteps, CircularSteps

LEMMA StepIndexIs ==
    /\ StepIndex("cultivation") = 1 /\ StepIndex("harvest") = 2
    /\ StepIndex("collection_transport") = 3 /\ StepIndex("milling") = 4
    /\ StepIndex("lab_verification") = 5 /\ StepIndex("bottling") = 6
    /\ StepIndex("distribution_retail") = 7
    /\ StepIndex("residue_generation") = 1 /\ StepIndex("residue_custody") = 2
    /\ StepIndex("valorization") = 3 /\ StepIndex("useful_output") = 4
    /\ StepIndex("return_or_sale") = 5 /\ StepIndex("env_accounting") = 6
  <1>1. 1 .. 7 = {1, 2, 3, 4, 5, 6, 7} /\ 1 .. 6 = {1, 2, 3, 4, 5, 6}
    OBVIOUS
  <1>2. ASSUME NEW type \in ProductTypes, NEW k \in 1 .. 7, ProductSteps[k] = type
        PROVE  StepIndex(type) = k
    <2>1. StepIndex(type) = CHOOSE j \in 1 .. 7 : ProductSteps[j] = type
      BY TypesAre DEF StepIndex, StepsOf, WorkflowOf
    <2>2. \A j \in 1 .. 7 : ProductSteps[j] = type => j = k
      BY <1>1, <1>2 DEF ProductSteps
    <2>3. QED
      BY <1>2, <2>1, <2>2
  <1>3. ASSUME NEW type \in CircularTypes, NEW k \in 1 .. 6, CircularSteps[k] = type
        PROVE  StepIndex(type) = k
    <2>1. type \notin ProductTypes
      BY TypesAre
    <2>2. StepIndex(type) = CHOOSE j \in 1 .. 6 : CircularSteps[j] = type
      BY <2>1, TypesAre DEF StepIndex, StepsOf, WorkflowOf
    <2>3. \A j \in 1 .. 6 : CircularSteps[j] = type => j = k
      BY <1>1, <1>3 DEF CircularSteps
    <2>4. QED
      BY <1>3, <2>2, <2>3
  <1>4. /\ StepIndex("cultivation") = 1 /\ StepIndex("harvest") = 2
        /\ StepIndex("collection_transport") = 3 /\ StepIndex("milling") = 4
        /\ StepIndex("lab_verification") = 5 /\ StepIndex("bottling") = 6
        /\ StepIndex("distribution_retail") = 7
    BY <1>1, <1>2, TypesAre DEF ProductSteps
  <1>5. /\ StepIndex("residue_generation") = 1 /\ StepIndex("residue_custody") = 2
        /\ StepIndex("valorization") = 3 /\ StepIndex("useful_output") = 4
        /\ StepIndex("return_or_sale") = 5 /\ StepIndex("env_accounting") = 6
    BY <1>1, <1>3, TypesAre DEF CircularSteps
  <1>6. QED
    BY <1>4, <1>5

\* A step is known by its workflow and its index.
LEMMA StepsAre ==
    /\ \A type \in WorkflowTypes :
           /\ WorkflowOf(type) \in {"product", "circular"}
           /\ StepIndex(type) \in 1 .. Len(StepsOf(WorkflowOf(type)))
           /\ StepsOf(WorkflowOf(type))[StepIndex(type)] = type
    /\ \A workflow \in {"product", "circular"} :
           /\ Len(StepsOf(workflow)) \in {6, 7}
           /\ \A k \in 1 .. Len(StepsOf(workflow)) :
                  /\ StepsOf(workflow)[k] \in WorkflowTypes
                  /\ WorkflowOf(StepsOf(workflow)[k]) = workflow
                  /\ StepIndex(StepsOf(workflow)[k]) = k
    /\ WorkflowTypes = ProductTypes \cup CircularTypes
    /\ MillingStep = 4
  <1>1. 1 .. 7 = {1, 2, 3, 4, 5, 6, 7} /\ 1 .. 6 = {1, 2, 3, 4, 5, 6}
    OBVIOUS
  <1>2. StepsOf("product") = ProductSteps /\ StepsOf("circular") = CircularSteps
    BY DEF StepsOf
  <1>3. /\ \A type \in ProductTypes : WorkflowOf(type) = "product"
        /\ \A type \in CircularTypes : WorkflowOf(type) = "circular"
    BY TypesAre DEF WorkflowOf
  <1>4. ASSUME NEW type \in ProductTypes
        PROVE  StepIndex(type) \in 1 .. 7 /\ ProductSteps[StepIndex(type)] = type
    BY <1>1, StepIndexIs, TypesAre DEF ProductSteps
  <1>5. ASSUME NEW type \in CircularTypes
        PROVE  StepIndex(type) \in 1 .. 6 /\ CircularSteps[StepIndex(type)] = type
    BY <1>1, StepIndexIs, TypesAre DEF CircularSteps
  <1>6. ASSUME NEW k \in 1 .. 7
        PROVE  ProductSteps[k] \in ProductTypes /\ StepIndex(ProductSteps[k]) = k
    BY <1>1, StepIndexIs, TypesAre DEF ProductSteps
  <1>7. ASSUME NEW k \in 1 .. 6
        PROVE  CircularSteps[k] \in CircularTypes /\ StepIndex(CircularSteps[k]) = k
    BY <1>1, StepIndexIs, TypesAre DEF CircularSteps
  <1>8. WorkflowTypes = ProductTypes \cup CircularTypes
    BY DEF WorkflowTypes
  <1>9. Len(ProductSteps) = 7 /\ Len(CircularSteps) = 6
    BY TypesAre
  <1>10. ASSUME NEW type \in WorkflowTypes
         PROVE  /\ WorkflowOf(type) \in {"product", "circular"}
                /\ StepIndex(type) \in 1 .. Len(StepsOf(WorkflowOf(type)))
                /\ StepsOf(WorkflowOf(type))[StepIndex(type)] = type
    <2>1. CASE type \in ProductTypes
      BY <1>2, <1>3, <1>4, <1>9, <2>1
    <2>2. CASE type \in CircularTypes
      BY <1>2, <1>3, <1>5, <1>9, <2>2
    <2>3. QED
      BY <1>8, <2>1, <2>2
  <1>11. ASSUME NEW workflow \in {"product", "circular"}
         PROVE  /\ Len(StepsOf(workflow)) \in {6, 7}
                /\ \A k \in 1 .. Len(StepsOf(workflow)) :
                       /\ StepsOf(workflow)[k] \in WorkflowTypes
                       /\ WorkflowOf(StepsOf(workflow)[k]) = workflow
                       /\ StepIndex(StepsOf(workflow)[k]) = k
    <2>1. CASE workflow = "product"
      BY <1>2, <1>3, <1>6, <1>8, <1>9, <2>1
    <2>2. CASE workflow = "circular"
      BY <1>2, <1>3, <1>7, <1>8, <1>9, <2>2
    <2>3. QED
      BY <2>1, <2>2
  <1>12. MillingStep = 4
    BY StepIndexIs DEF MillingStep
  <1>13. QED
    BY <1>8, <1>10, <1>11, <1>12
-----------------------------------------------------------------------------
(* The scan of a history *)

Scan == [step : Nat, accepted : BOOLEAN, valid : BOOLEAN]

IsHistory(h) ==
    /\ Len(h) \in Nat /\ (h = << >> <=> Len(h) = 0)
    /\ \A k \in 1 .. Len(h) : h[k].type \in WorkflowTypes

\* The scans of the prefixes of a history.
IsScanOf(f, h) ==
    /\ f[0] = ScanStart
    /\ \A n \in 1 .. Len(h) : f[n] = Advance(f[n - 1], h[n])

Transfer(e) == e.type = "residue_custody" /\ e.fact

\* What one event does to a scan.
LEMMA AdvanceIs ==
    ASSUME NEW scan \in Scan, NEW e, e.type \in WorkflowTypes
    PROVE  LET next == Advance(scan, e)
               index == StepIndex(e.type)
               fits == \/ index = scan.step + 1
                       \/ index = scan.step /\ e.type \in Repeatable
           IN  /\ next \in Scan
               /\ next.valid <=> (scan.valid /\ fits)
               /\ next.valid => /\ next.step = index
                                /\ next.accepted <=> (scan.accepted \/ Transfer(e))
  <1> DEFINE index == StepIndex(e.type)
             accepted == scan.accepted \/ Transfer(e)
             fits == \/ index = scan.step + 1
                     \/ index = scan.step /\ e.type \in Repeatable
  <1>1. Advance(scan, e) = IF scan.valid /\ fits
                           THEN [scan EXCEPT !.step = index, !.accepted = accepted]
                           ELSE [scan EXCEPT !.valid = FALSE]
    BY Zenon DEF Advance, Transfer
  <1>2. index \in Nat
    <2>1. index \in 1 .. Len(StepsOf(WorkflowOf(e.type)))
          /\ Len(StepsOf(WorkflowOf(e.type))) \in {6, 7}
      BY StepsAre
    <2> HIDE DEF index
    <2>2. QED
      BY <2>1
  <1>3. accepted \in BOOLEAN
    BY DEF Scan
  <1> HIDE DEF index, accepted
  <1>4. CASE scan.valid /\ fits
    BY <1>1, <1>2, <1>3, <1>4 DEF Scan, index, accepted
  <1>5. CASE ~ (scan.valid /\ fits)
    <2>1. Advance(scan, e) = [scan EXCEPT !.valid = FALSE]
      BY <1>1, <1>5
    <2>2. Advance(scan, e) \in Scan /\ Advance(scan, e).valid = FALSE
      BY <2>1 DEF Scan
    <2>3. QED
      BY <1>5, <2>2 DEF index
  <1>6. QED
    BY <1>4, <1>5

\* The recursion has a solution.
LEMMA ScanExists ==
    ASSUME NEW h, Len(h) \in Nat
    PROVE  \E f : IsScanOf(f, h) /\ Scanned(h) = f[Len(h)]
  <1> DEFINE Step(f, n) == IF n = 0 THEN ScanStart ELSE Advance(f[n - 1], h[n])
             Runs(f, m) == f = [n \in 0 .. m |-> Step(f, n)]
             Solved == {m \in Nat : \E f : Runs(f, m)}
  <1>1. 0 \in Solved
    <2> DEFINE f == [n \in 0 .. 0 |-> ScanStart]
    <2>1. Runs(f, 0)
      OBVIOUS
    <2>2. QED
      BY <2>1
  <1>2. ASSUME NEW m \in 1 .. Len(h), m - 1 \in Solved
        PROVE  m \in Solved
    <2>1. m \in Nat /\ m # 0 /\ m - 1 \in Nat
      BY <1>2
    <2>2. PICK g : Runs(g, m - 1)
      BY <1>2
    <2> DEFINE f == [n \in 0 .. m |-> IF n = m THEN Advance(g[m - 1], h[m]) ELSE g[n]]
    <2>3. \A n \in 0 .. m - 1 : f[n] = g[n]
      BY <2>1
    <2>4. ASSUME NEW n \in 0 .. m
          PROVE  f[n] = Step(f, n)
      <3>1. CASE n = m
        BY <2>1, <2>3, <3>1
      <3>2. CASE n # m
        <4>1. n \in 0 .. m - 1
          BY <2>1, <3>2
        <4>2. g[n] = Step(g, n)
          BY <2>2, <4>1
        <4>3. n # 0 => n - 1 \in 0 .. m - 1
          BY <2>1, <4>1
        <4>4. QED
          BY <2>3, <4>1, <4>2, <4>3
      <3>3. QED
        BY <3>1, <3>2
    <2>5. Runs(f, m)
      BY <2>4
    <2>6. QED
      BY <2>1, <2>5
  <1>3. \A m \in 0 .. Len(h) : m \in Solved
    <2> HIDE DEF Solved
    <2>1. QED
      BY <1>1, <1>2, UpTo
  <1>4. \E f : Runs(f, Len(h))
    BY <1>3
  <1>5. Scanned(h) = (CHOOSE f : Runs(f, Len(h)))[Len(h)]
    BY DEF Scanned
  <1> DEFINE f == CHOOSE g : Runs(g, Len(h))
  <1>6. Runs(f, Len(h))
    BY <1>4
  <1> HIDE DEF f
  <1>7. IsScanOf(f, h)
    BY <1>6 DEF IsScanOf
  <1>8. QED
    BY <1>5, <1>7 DEF f

\* And only one.
LEMMA ScanUnique ==
    ASSUME NEW h, Len(h) \in Nat, NEW f, IsScanOf(f, h)
    PROVE  Scanned(h) = f[Len(h)]
  <1>1. PICK g : IsScanOf(g, h) /\ Scanned(h) = g[Len(h)]
    BY ScanExists
  <1> DEFINE Same == {n \in 0 .. Len(h) : f[n] = g[n]}
  <1>2. 0 \in Same
    BY <1>1 DEF IsScanOf
  <1>3. ASSUME NEW m \in 1 .. Len(h), m - 1 \in Same
        PROVE  m \in Same
    BY <1>1, <1>3 DEF IsScanOf
  <1>4. \A n \in 0 .. Len(h) : n \in Same
    <2> HIDE DEF Same
    <2>1. QED
      BY <1>2, <1>3, UpTo
  <1>5. QED
    BY <1>1, <1>4

(* What a scan knows of the events before it: while it is valid they are     *)
(* steps up to the one it reached, none is missing, and it is accepted if a *)
(* custody transfer was.                                                   *)
Found(f, h, n) ==
    /\ \A k \in 1 .. n : StepIndex(h[k].type) <= f[n].step
    /\ \A i \in 1 .. f[n].step : \E k \in 1 .. n : StepIndex(h[k].type) = i
    /\ f[n].accepted <=> \E k \in 1 .. n : Transfer(h[k])

LEMMA ScanFinds ==
    ASSUME NEW h, IsHistory(h), NEW f, IsScanOf(f, h)
    PROVE  \A n \in 0 .. Len(h) : f[n] \in Scan /\ (f[n].valid => Found(f, h, n))
  <1> DEFINE Good == {n \in 0 .. Len(h) : f[n] \in Scan /\ (f[n].valid => Found(f, h, n))}
  <1>1. 0 \in Good
    <2>1. f[0] = [step |-> 0, accepted |-> FALSE, valid |-> TRUE]
      BY DEF IsScanOf, ScanStart
    <2>2. f[0] \in Scan /\ f[0].step = 0 /\ f[0].accepted = FALSE
      BY <2>1 DEF Scan
    <2>3. Found(f, h, 0)
      BY <2>2 DEF Found
    <2>4. QED
      BY <2>2, <2>3 DEF IsHistory
  <1>2. ASSUME NEW n \in 1 .. Len(h), n - 1 \in Good
        PROVE  n \in Good
    <2> DEFINE e == h[n]
               index == StepIndex(e.type)
               scan == f[n - 1]
               next == f[n]
    <2>1. /\ next = Advance(scan, e) /\ e.type \in WorkflowTypes /\ scan \in Scan
          /\ scan.valid => Found(f, h, n - 1)
          /\ Len(h) \in Nat
      BY <1>2 DEF IsScanOf, IsHistory
    <2>2. /\ next \in Scan
          /\ next.valid => /\ scan.valid
                           /\ \/ index = scan.step + 1
                              \/ index = scan.step /\ e.type \in Repeatable
          /\ next.valid => /\ next.step = index
                           /\ next.accepted <=> (scan.accepted \/ Transfer(e))
      BY <2>1, AdvanceIs
    <2>3. SUFFICES ASSUME next.valid PROVE Found(f, h, n)
      BY <2>2
    <2>4. Found(f, h, n - 1) /\ scan.step \in Nat /\ next.step = index
      BY <2>1, <2>2, <2>3 DEF Scan
    <2>5. index \in Nat /\ (index = scan.step + 1 \/ index = scan.step)
      BY <2>2, <2>3, <2>4
    <2>6. \A k \in 1 .. n : k \in 1 .. n - 1 \/ k = n
      BY <2>1
    <2>7. \A k \in 1 .. n - 1 : k \in 1 .. n
      BY <2>1
    <2>7a. n \in 1 .. n
      BY <2>1
    <2> HIDE DEF index
    <2>8. ASSUME NEW k \in 1 .. n
          PROVE  StepIndex(h[k].type) <= index
      <3>1. CASE k = n
        BY <2>5, <3>1 DEF index
      <3>2. CASE k \in 1 .. n - 1
        <4>1. StepIndex(h[k].type) <= scan.step
          BY <2>4, <3>2 DEF Found
        <4>2. StepIndex(h[k].type) \in Nat
          <5>1. h[k].type \in WorkflowTypes
            BY <2>1 DEF IsHistory
          <5>2. StepIndex(h[k].type) \in 1 .. Len(StepsOf(WorkflowOf(h[k].type)))
            BY <5>1, StepsAre
          <5>3. QED
            BY <5>2
        <4>3. QED
          BY <2>4, <2>5, <4>1, <4>2
      <3>3. QED
        BY <2>6, <3>1, <3>2
    <2>9. ASSUME NEW i \in 1 .. index
          PROVE  \E k \in 1 .. n : StepIndex(h[k].type) = i
      <3>1. CASE i = index
        BY <2>7a, <3>1 DEF index
      <3>2. CASE i # index
        <4>1. i \in 1 .. scan.step
          BY <2>4, <2>5, <3>2
        <4>2. PICK k \in 1 .. n - 1 : StepIndex(h[k].type) = i
          BY <2>4, <4>1 DEF Found
        <4>3. QED
          BY <2>7, <4>2
      <3>3. QED
        BY <3>1, <3>2
    <2>10. next.accepted <=> \E k \in 1 .. n : Transfer(h[k])
      <3>1. scan.accepted <=> \E k \in 1 .. n - 1 : Transfer(h[k])
        BY <2>4 DEF Found
      <3>2. next.accepted <=> (scan.accepted \/ Transfer(h[n]))
        BY <2>2, <2>3
      <3>3. QED
        BY <2>6, <2>7, <2>7a, <3>1, <3>2
    <2>11. QED
      BY <2>4, <2>8, <2>9, <2>10 DEF Found
  <1>3. QED
    <2>1. Len(h) \in Nat
      BY DEF IsHistory
    <2> HIDE DEF Good
    <2>2. \A n \in 0 .. Len(h) : n \in Good
      BY <1>1, <1>2, <2>1, UpTo
    <2>3. QED
      BY <2>2 DEF Good
-----------------------------------------------------------------------------
(* The status of the chaincode *)

OneWorkflow(h) == \A k \in 1 .. Len(h) : WorkflowOf(h[k].type) = WorkflowOf(h[1].type)

LEMMA AnalyzeIs ==
    ASSUME NEW h, IsHistory(h)
    PROVE  LET workflow == WorkflowOf(h[1].type)
               scan == Scanned(h)
               complete == scan.step = Len(StepsOf(workflow))
           IN  AnalyzeWorkflow(h) =
               IF h = << >> THEN NoStatus
               ELSE IF ~ OneWorkflow(h) THEN [NoStatus EXCEPT !.valid = FALSE]
               ELSE IF ~ scan.valid
               THEN [NoStatus EXCEPT !.workflow = workflow, !.exists = TRUE,
                                     !.valid = FALSE]
               ELSE [workflow |-> workflow, exists |-> TRUE, valid |-> TRUE,
                     step |-> scan.step, complete |-> complete,
                     next |-> IF complete THEN {} ELSE NextAllowed(workflow, scan)]
  <1> DEFINE workflows == {WorkflowOf(h[k].type) : k \in 1 .. Len(h)}
  <1>1. ASSUME h # << >>
        PROVE  workflows = {"product", "circular"} <=> ~ OneWorkflow(h)
    <2>1. 1 \in 1 .. Len(h)
      BY <1>1 DEF IsHistory
    <2>2. \A k \in 1 .. Len(h) : WorkflowOf(h[k].type) \in {"product", "circular"}
      BY StepsAre DEF IsHistory
    <2>3. QED
      BY <2>1, <2>2 DEF OneWorkflow
  <1>2. QED
    BY <1>1 DEF AnalyzeWorkflow

\* What a valid status says of the history behind it.
LEMMA Reached ==
    ASSUME NEW h, IsHistory(h), h # << >>, AnalyzeWorkflow(h).valid
    PROVE  LET workflow == WorkflowOf(h[1].type)
               status == AnalyzeWorkflow(h)
           IN  /\ workflow \in {"product", "circular"} /\ OneWorkflow(h)
               /\ Scanned(h) \in Scan /\ Scanned(h).valid
               /\ Scanned(h).step \in 1 .. Len(StepsOf(workflow))
               /\ status.workflow = workflow /\ status.exists
               /\ status.step = Scanned(h).step
               /\ status.complete <=> Scanned(h).step = Len(StepsOf(workflow))
               /\ status.next = IF Scanned(h).step = Len(StepsOf(workflow)) THEN {}
                                ELSE NextAllowed(workflow, Scanned(h))
               /\ \A k \in 1 .. Len(h) : StepIndex(h[k].type) <= Scanned(h).step
               /\ \A i \in 1 .. Scanned(h).step :
                      \E k \in 1 .. Len(h) : h[k].type = StepsOf(workflow)[i]
               /\ Scanned(h).accepted <=> \E k \in 1 .. Len(h) : Transfer(h[k])
  <1> DEFINE workflow == WorkflowOf(h[1].type)
             status == AnalyzeWorkflow(h)
             scan == Scanned(h)
             complete == scan.step = Len(StepsOf(workflow))
  <1>1. /\ OneWorkflow(h) /\ scan.valid
        /\ status = [workflow |-> workflow, exists |-> TRUE, valid |-> TRUE,
                     step |-> scan.step, complete |-> complete,
                     next |-> IF complete THEN {} ELSE NextAllowed(workflow, scan)]
    <2>1. /\ [NoStatus EXCEPT !.valid = FALSE].valid = FALSE
          /\ [NoStatus EXCEPT !.workflow = workflow, !.exists = TRUE,
                              !.valid = FALSE].valid = FALSE
      BY DEF NoStatus
    <2>2. status = IF ~ OneWorkflow(h) THEN [NoStatus EXCEPT !.valid = FALSE]
                   ELSE IF ~ scan.valid
                   THEN [NoStatus EXCEPT !.workflow = workflow, !.exists = TRUE,
                                         !.valid = FALSE]
                   ELSE [workflow |-> workflow, exists |-> TRUE, valid |-> TRUE,
                         step |-> scan.step, complete |-> complete,
                         next |-> IF complete THEN {} ELSE NextAllowed(workflow, scan)]
      BY AnalyzeIs
    <2> HIDE DEF workflow, status, scan, complete
    <2>3. status.valid
      BY DEF status
    <2>4. QED
      BY <2>1, <2>2, <2>3
  <1>2. PICK f : IsScanOf(f, h) /\ scan = f[Len(h)]
    BY ScanExists DEF IsHistory
  <1>3. Len(h) \in Nat /\ Len(h) \in 0 .. Len(h) /\ 1 \in 1 .. Len(h)
        /\ h[1].type \in WorkflowTypes
    BY DEF IsHistory
  <1>4. scan \in Scan /\ Found(f, h, Len(h))
    BY <1>1, <1>2, <1>3, ScanFinds
  <1>5. workflow \in {"product", "circular"}
    BY <1>3, StepsAre
  <1>6. /\ \A k \in 1 .. Len(h) : StepIndex(h[k].type) <= scan.step
        /\ \A i \in 1 .. scan.step : \E k \in 1 .. Len(h) : StepIndex(h[k].type) = i
        /\ scan.accepted <=> \E k \in 1 .. Len(h) : Transfer(h[k])
    BY <1>2, <1>4 DEF Found
  <1>7. \A k \in 1 .. Len(h) : h[k].type = StepsOf(workflow)[StepIndex(h[k].type)]
                               /\ StepIndex(h[k].type) \in 1 .. Len(StepsOf(workflow))
    BY <1>1, StepsAre DEF IsHistory, OneWorkflow
  <1>8. \A i \in 1 .. scan.step : \E k \in 1 .. Len(h) : h[k].type = StepsOf(workflow)[i]
    BY <1>6, <1>7
  <1>9. scan.step \in 1 .. Len(StepsOf(workflow))
    <2>1. scan.step \in Nat
      BY <1>4 DEF Scan
    <2>2. StepIndex(h[1].type) \in 1 .. Len(StepsOf(workflow))
          /\ StepIndex(h[1].type) <= scan.step /\ Len(StepsOf(workflow)) \in {6, 7}
      BY <1>3, <1>5, <1>6, <1>7, StepsAre
    <2>3. scan.step >= 1
      BY <2>1, <2>2
    <2>4. scan.step \in 1 .. scan.step
      BY <2>1, <2>3
    <2>5. PICK k \in 1 .. Len(h) : StepIndex(h[k].type) = scan.step
      BY <1>6, <2>4
    <2>6. QED
      BY <1>7, <2>5
  <1> HIDE DEF workflow, scan, complete
  <1>10. /\ status.workflow = workflow /\ status.exists
         /\ status.step = scan.step /\ status.complete = complete
         /\ status.next = IF complete THEN {} ELSE NextAllowed(workflow, scan)
    BY <1>1
  <1>11. QED
    BY <1>1, <1>4, <1>5, <1>6, <1>8, <1>9, <1>10 DEF workflow, scan, complete

\* A step the status of a product batch claims is in its history.
LEMMA ProductReached ==
    ASSUME NEW h, IsHistory(h), NEW i \in 1 .. 7,
           LET status == AnalyzeWorkflow(h)
           IN  status.workflow = "product" /\ (status.step >= i \/ status.complete)
    PROVE  \E k \in 1 .. Len(h) : h[k].type = ProductSteps[i]
  <1> DEFINE status == AnalyzeWorkflow(h)
             workflow == WorkflowOf(h[1].type)
  <1>1. h # << >> /\ status.valid
    <2>1. NoStatus.step = 0 /\ NoStatus.complete = FALSE
      BY DEF NoStatus
    <2>2. [NoStatus EXCEPT !.valid = FALSE].step = 0
          /\ [NoStatus EXCEPT !.valid = FALSE].complete = FALSE
      BY DEF NoStatus
    <2>3. LET failed == [NoStatus EXCEPT !.workflow = workflow, !.exists = TRUE,
                                         !.valid = FALSE]
          IN  failed.step = 0 /\ failed.complete = FALSE
      BY DEF NoStatus
    <2>4. ~ (0 >= i)
      OBVIOUS
    <2>5. CASE h = << >>
      BY <2>1, <2>4, <2>5, AnalyzeIs
    <2>6. CASE h # << >> /\ ~ OneWorkflow(h)
      BY <2>2, <2>4, <2>6, AnalyzeIs
    <2>7. CASE h # << >> /\ OneWorkflow(h) /\ ~ Scanned(h).valid
      <3>1. status = [NoStatus EXCEPT !.workflow = workflow, !.exists = TRUE,
                                      !.valid = FALSE]
        BY <2>7, AnalyzeIs
      <3>2. QED
        BY <2>3, <2>4, <3>1
    <2>8. CASE h # << >> /\ OneWorkflow(h) /\ Scanned(h).valid
      <3> DEFINE complete == Scanned(h).step = Len(StepsOf(workflow))
                 next == IF complete THEN {} ELSE NextAllowed(workflow, Scanned(h))
      <3>1. status = [workflow |-> workflow, exists |-> TRUE, valid |-> TRUE,
                      step |-> Scanned(h).step, complete |-> complete, next |-> next]
        BY <2>8, AnalyzeIs
      <3> HIDE DEF status, workflow, complete, next
      <3>2. status.valid
        BY <3>1
      <3>3. QED
        BY <2>8, <3>2
    <2>9. QED
      BY <2>5, <2>6, <2>7, <2>8
  <1>2. /\ status.workflow = workflow
        /\ status.step \in 1 .. Len(StepsOf(workflow))
        /\ status.complete <=> status.step = Len(StepsOf(workflow))
        /\ \A j \in 1 .. status.step :
               \E k \in 1 .. Len(h) : h[k].type = StepsOf(workflow)[j]
    BY <1>1, Reached
  <1>3. StepsOf(workflow) = ProductSteps /\ Len(ProductSteps) = 7
    BY <1>2, TypesAre DEF StepsOf
  <1>4. i \in 1 .. status.step
    BY <1>2, <1>3
  <1>5. QED
    BY <1>2, <1>3, <1>4

\* The steps that may come next are the ones the scan accepts next.
LEMMA NextIs ==
    ASSUME NEW workflow \in {"product", "circular"}, NEW scan \in Scan,
           scan.step \in 1 .. Len(StepsOf(workflow)),
           scan.step # Len(StepsOf(workflow))
    PROVE  /\ \A type \in NextAllowed(workflow, scan) :
                  /\ type \in WorkflowTypes /\ WorkflowOf(type) = workflow
                  /\ \/ StepIndex(type) = scan.step + 1
                     \/ StepIndex(type) = scan.step /\ type \in Repeatable
           /\ NextAllowed(workflow, scan) # {}
           /\ "valorization" \in NextAllowed(workflow, scan) <=>
                  workflow = "circular" /\ scan.step = 2 /\ scan.accepted
  <1> DEFINE next == NextAllowed(workflow, scan)
  <1>1. Len(StepsOf("product")) = 7 /\ Len(StepsOf("circular")) = 6
    BY TypesAre DEF StepsOf
  <1>2. \A k \in 1 .. Len(StepsOf(workflow)) :
            /\ StepsOf(workflow)[k] \in WorkflowTypes
            /\ WorkflowOf(StepsOf(workflow)[k]) = workflow
            /\ StepIndex(StepsOf(workflow)[k]) = k
    BY StepsAre
  <1>3. ASSUME workflow = "circular", scan.step = 2
        PROVE  next = {IF scan.accepted THEN "valorization" ELSE "residue_custody"}
    BY <1>3 DEF NextAllowed
  <1>4. ASSUME workflow = "circular", scan.step \in {4, 5}
        PROVE  next = {CircularSteps[scan.step], CircularSteps[scan.step + 1]}
    BY <1>4 DEF NextAllowed
  <1>5. ASSUME workflow = "circular" => scan.step \notin {2, 4, 5}
        PROVE  next = {StepsOf(workflow)[scan.step + 1]}
    BY <1>5 DEF NextAllowed
  <1> HIDE DEF next
  <1>6. /\ CircularSteps[2] = "residue_custody" /\ CircularSteps[3] = "valorization"
        /\ CircularSteps[4] = "useful_output" /\ CircularSteps[5] = "return_or_sale"
        /\ CircularSteps[6] = "env_accounting" /\ StepsOf("circular") = CircularSteps
    BY DEF CircularSteps, StepsOf
  <1>7. CASE workflow = "circular" /\ scan.step = 2
    <2>1. 2 \in 1 .. 6 /\ 3 \in 1 .. 6
      OBVIOUS
    <2>2. CASE scan.accepted
      <3>1. next = {CircularSteps[3]}
        BY <1>3, <1>6, <1>7, <2>2
      <3>2. QED
        BY <1>1, <1>2, <1>6, <1>7, <2>1, <2>2, <3>1 DEF next
    <2>3. CASE ~ scan.accepted
      <3>1. next = {CircularSteps[2]}
        BY <1>3, <1>6, <1>7, <2>3
      <3>2. QED
        BY <1>1, <1>2, <1>6, <1>7, <2>1, <2>3, <3>1 DEF next, Repeatable
    <2>4. QED
      BY <2>2, <2>3
  <1>8. CASE workflow = "circular" /\ scan.step \in {4, 5}
    <2>1. 4 \in 1 .. 6 /\ 5 \in 1 .. 6 /\ 6 \in 1 .. 6 /\ 3 + 1 = 4 /\ 4 + 1 = 5 /\ 5 + 1 = 6
      OBVIOUS
    <2>2. CASE scan.step = 4
      <3>1. next = {CircularSteps[4], CircularSteps[5]}
        BY <1>4, <1>8, <2>1, <2>2
      <3>2. "valorization" \notin next /\ next # {}
        BY <1>6, <3>1
      <3>3. \A type \in next : /\ type \in WorkflowTypes /\ WorkflowOf(type) = workflow
                               /\ StepIndex(type) \in {4, 5}
        BY <1>1, <1>2, <1>6, <1>8, <2>1, <3>1
      <3>4. \A type \in next : StepIndex(type) = 4 => type \in Repeatable
        <4>1. CircularSteps[4] \in Repeatable /\ StepIndex(CircularSteps[5]) = 5
          BY <1>1, <1>2, <1>6, <1>8, <2>1 DEF Repeatable
        <4>2. QED
          BY <3>1, <4>1
      <3>5. QED
        BY <2>1, <2>2, <3>2, <3>3, <3>4 DEF next
    <2>3. CASE scan.step = 5
      <3>1. next = {CircularSteps[5], CircularSteps[6]}
        BY <1>4, <1>8, <2>1, <2>3
      <3>2. "valorization" \notin next /\ next # {}
        BY <1>6, <3>1
      <3>3. \A type \in next : /\ type \in WorkflowTypes /\ WorkflowOf(type) = workflow
                               /\ StepIndex(type) \in {5, 6}
        BY <1>1, <1>2, <1>6, <1>8, <2>1, <3>1
      <3>4. \A type \in next : StepIndex(type) = 5 => type \in Repeatable
        <4>1. CircularSteps[5] \in Repeatable /\ StepIndex(CircularSteps[6]) = 6
          BY <1>1, <1>2, <1>6, <1>8, <2>1 DEF Repeatable
        <4>2. QED
          BY <3>1, <4>1
      <3>5. QED
        BY <2>1, <2>3, <3>2, <3>3, <3>4 DEF next
    <2>4. QED
      BY <1>8, <2>2, <2>3
  <1>9. CASE ~ (workflow = "circular" /\ scan.step \in {2, 4, 5})
    <2>1. next = {StepsOf(workflow)[scan.step + 1]}
      BY <1>5, <1>9
    <2>2. Len(StepsOf(workflow)) \in {6, 7}
      BY <1>1
    <2>3. scan.step + 1 \in 1 .. Len(StepsOf(workflow))
      BY <2>2
    <2>4. "valorization" \in next => workflow = "circular" /\ scan.step = 2
      <3>1. StepIndex("valorization") = 3 /\ WorkflowOf("valorization") = "circular"
        BY StepIndexIs, TypesAre DEF WorkflowOf
      <3>2. "valorization" \in next => 3 = scan.step + 1 /\ workflow = "circular"
        BY <1>2, <2>1, <2>3, <3>1
      <3>3. QED
        BY <2>2, <3>2
    <2>5. QED
      BY <1>2, <1>9, <2>1, <2>3, <2>4 DEF next
  <1>10. QED
    BY <1>7, <1>8, <1>9

\* When a step may follow a history.
LEMMA MayFollowIs ==
    ASSUME NEW h, IsHistory(h), NEW type \in WorkflowTypes,
           MayFollow(type, AnalyzeWorkflow(h))
    PROVE  /\ AnalyzeWorkflow(h).valid
           /\ h = << >> => StepIndex(type) = 1
           /\ h # << >> => /\ WorkflowOf(type) = WorkflowOf(h[1].type)
                           /\ Scanned(h).step < Len(StepsOf(WorkflowOf(type)))
                           /\ type \in NextAllowed(WorkflowOf(type), Scanned(h))
                           /\ \/ StepIndex(type) = Scanned(h).step + 1
                              \/ /\ StepIndex(type) = Scanned(h).step
                                 /\ type \in Repeatable
  <1> DEFINE status == AnalyzeWorkflow(h)
             workflow == WorkflowOf(h[1].type)
             scan == Scanned(h)
  <1>1. status.valid
    BY DEF MayFollow
  <1>2. ASSUME h = << >>
        PROVE  StepIndex(type) = 1
    <2>1. status = NoStatus
      BY <1>2, AnalyzeIs
    <2>2. type = StepsOf(WorkflowOf(type))[1]
      BY <2>1 DEF MayFollow, NoStatus
    <2>3. WorkflowOf(type) \in {"product", "circular"}
          /\ Len(StepsOf(WorkflowOf(type))) \in {6, 7}
      BY StepsAre
    <2>4. QED
      BY <2>2, <2>3, StepsAre
  <1>3. ASSUME h # << >>
        PROVE  /\ WorkflowOf(type) = workflow
               /\ scan.step < Len(StepsOf(workflow))
               /\ type \in NextAllowed(workflow, scan)
               /\ \/ StepIndex(type) = scan.step + 1
                  \/ StepIndex(type) = scan.step /\ type \in Repeatable
    <2>1. /\ workflow \in {"product", "circular"}
          /\ scan \in Scan /\ scan.step \in 1 .. Len(StepsOf(workflow))
          /\ status.workflow = workflow /\ status.exists
          /\ status.next = IF scan.step = Len(StepsOf(workflow)) THEN {}
                           ELSE NextAllowed(workflow, scan)
      BY <1>1, <1>3, Reached
    <2>2. WorkflowOf(type) = workflow /\ type \in status.next
      BY <2>1 DEF MayFollow
    <2>3. scan.step # Len(StepsOf(workflow)) /\ type \in NextAllowed(workflow, scan)
      BY <2>1, <2>2
    <2>4. scan.step < Len(StepsOf(workflow))
      <3>1. Len(StepsOf(workflow)) \in {6, 7}
        BY <2>1, StepsAre
      <3>2. QED
        BY <2>1, <2>3, <3>1
    <2> HIDE DEF workflow, scan
    <2>5. QED
      BY <2>1, <2>2, <2>3, <2>4, NextIs
  <1>4. QED
    BY <1>1, <1>2, <1>3

LEMMA ScanAppend ==
    ASSUME NEW S, NEW h \in Seq(S), NEW e \in S
    PROVE  Scanned(Append(h, e)) = Advance(Scanned(h), e)
  <1> DEFINE g == Append(h, e)
  <1>1. /\ Len(h) \in Nat /\ Len(g) = Len(h) + 1 /\ g[Len(g)] = e
        /\ \A k \in 1 .. Len(h) : g[k] = h[k]
    OBVIOUS
  <1> HIDE DEF g
  <1>2. PICK f : IsScanOf(f, g) /\ Scanned(g) = f[Len(g)]
    BY <1>1, ScanExists
  <1>3. \A n \in 1 .. Len(h) : n \in 1 .. Len(g)
    BY <1>1
  <1>4. IsScanOf(f, h)
    BY <1>1, <1>2, <1>3 DEF IsScanOf
  <1>5. Scanned(h) = f[Len(h)]
    BY <1>1, <1>4, ScanUnique
  <1>6. Len(g) \in 1 .. Len(g) /\ Len(g) - 1 = Len(h)
    BY <1>1
  <1>7. f[Len(g)] = Advance(f[Len(h)], e)
    BY <1>1, <1>2, <1>6 DEF IsScanOf
  <1>8. QED
    BY <1>2, <1>5, <1>7 DEF g
\* A step that may follow a history keeps it in order.
LEMMA FollowerAdvances ==
    ASSUME NEW S, NEW h \in Seq(S), NEW e \in S, IsHistory(h),
           e.type \in WorkflowTypes, MayFollow(e.type, AnalyzeWorkflow(h))
    PROVE  /\ AnalyzeWorkflow(Append(h, e)).valid
           /\ AnalyzeWorkflow(Append(h, e)).step >= AnalyzeWorkflow(h).step
  <1> DEFINE g == Append(h, e)
             status == AnalyzeWorkflow(h)
             scan == Scanned(h)
  <1>1. /\ g # << >> /\ Len(h) \in Nat /\ Len(g) = Len(h) + 1 /\ g[Len(g)] = e
        /\ (g = << >> <=> Len(g) = 0)
        /\ \A k \in 1 .. Len(h) : g[k] = h[k]
    OBVIOUS
  <1>2. Scanned(g) = Advance(scan, e)
    BY ScanAppend
  <1> HIDE DEF g
  <1>3. \A k \in 1 .. Len(g) : k \in 1 .. Len(h) \/ k = Len(g)
    BY <1>1
  <1>4. IsHistory(g)
    BY <1>1, <1>3 DEF IsHistory
  <1>5. scan \in Scan /\ scan.valid /\ (h = << >> => scan.step = 0)
        /\ status.step = scan.step
    <2>1. CASE h = << >>
      <3>1. PICK f : IsScanOf(f, h) /\ scan = f[Len(h)]
        BY <1>1, ScanExists
      <3>2. scan = ScanStart
        BY <2>1, <3>1 DEF IsScanOf
      <3>3. status = NoStatus
        BY <2>1, AnalyzeIs
      <3>4. QED
        BY <3>2, <3>3 DEF ScanStart, Scan, NoStatus
    <2>2. CASE h # << >>
      BY <2>2, MayFollowIs, Reached
    <2>3. QED
      BY <2>1, <2>2
  <1>6. /\ h = << >> => StepIndex(e.type) = 1
        /\ h # << >> => /\ WorkflowOf(e.type) = WorkflowOf(h[1].type)
                        /\ \/ StepIndex(e.type) = scan.step + 1
                           \/ StepIndex(e.type) = scan.step /\ e.type \in Repeatable
    BY MayFollowIs
  <1>7. \/ StepIndex(e.type) = scan.step + 1
        \/ StepIndex(e.type) = scan.step /\ e.type \in Repeatable
    BY <1>5, <1>6
  <1>8. Scanned(g).valid /\ Scanned(g).step = StepIndex(e.type)
    BY <1>2, <1>5, <1>7, AdvanceIs
  <1>9. OneWorkflow(g)
    <2>1. CASE h = << >>
      <3>1. Len(g) = 1
        BY <1>1, <2>1
      <3>2. QED
        BY <3>1 DEF OneWorkflow
    <2>2. CASE h # << >>
      <3>1. OneWorkflow(h)
        BY <2>2, MayFollowIs, Reached
      <3>2. 1 \in 1 .. Len(h)
        BY <1>1, <2>2
      <3>3. QED
        BY <1>1, <1>3, <1>6, <2>2, <3>1, <3>2 DEF OneWorkflow
    <2>3. QED
      BY <2>1, <2>2
  <1>10. AnalyzeWorkflow(g).valid /\ AnalyzeWorkflow(g).step = Scanned(g).step
    <2>1. AnalyzeWorkflow(g) =
            [workflow |-> WorkflowOf(g[1].type), exists |-> TRUE, valid |-> TRUE,
             step |-> Scanned(g).step,
             complete |-> Scanned(g).step = Len(StepsOf(WorkflowOf(g[1].type))),
             next |-> IF Scanned(g).step = Len(StepsOf(WorkflowOf(g[1].type))) THEN {}
                      ELSE NextAllowed(WorkflowOf(g[1].type), Scanned(g))]
      BY <1>1, <1>4, <1>8, <1>9, AnalyzeIs
    <2>2. QED
      BY <2>1
  <1>11. scan.step \in Nat
    BY <1>5 DEF Scan
  <1>12. AnalyzeWorkflow(g).valid /\ AnalyzeWorkflow(g).step >= status.step
    BY <1>5, <1>7, <1>8, <1>10, <1>11
  <1>13. QED
    BY <1>12 DEF g

-----------------------------------------------------------------------------
(* The histories of the model *)

WorkflowEvent == [type : WorkflowTypes, fact : BOOLEAN]

LEMMA IsAHistory ==
    ASSUME NEW h \in Seq(WorkflowEvent)
    PROVE  IsHistory(h)
  <1>1. Len(h) \in Nat /\ (h = << >> <=> Len(h) = 0)
    OBVIOUS
  <1>2. \A k \in 1 .. Len(h) : h[k] \in WorkflowEvent
    OBVIOUS
  <1>3. QED
    BY <1>1, <1>2 DEF IsHistory, WorkflowEvent

RawEvent == [type : WorkflowTypes, accepted : Values]

HistoryType == history \in Seq(RawEvent)

(* As either side reads it, a history has the same types, and the portal     *)
(* takes for accepted what the chaincode does.                             *)
LEMMA ReadingsAre ==
    ASSUME HistoryType
    PROVE  /\ ByChaincode \in Seq(WorkflowEvent) /\ ByPortal \in Seq(WorkflowEvent)
           /\ Len(ByPortal) = Len(ByChaincode)
           /\ \A k \in 1 .. Len(ByChaincode) :
                  /\ ByPortal[k].type = ByChaincode[k].type
                  /\ ByChaincode[k].fact => ByPortal[k].fact
  <1>1. Len(history) \in Nat
    BY DEF HistoryType
  <1>2. ASSUME NEW k \in 1 .. Len(history)
        PROVE  /\ history[k].type \in WorkflowTypes
               /\ AsBool(history[k].accepted) \in BOOLEAN
               /\ Truthy(history[k].accepted) \in BOOLEAN
               /\ AsBool(history[k].accepted) => Truthy(history[k].accepted)
    <2>1. history[k] \in RawEvent
      BY DEF HistoryType
    <2>2. QED
      BY <2>1 DEF RawEvent, AsBool, Truthy
  <1>3. ByChaincode \in [1 .. Len(history) -> WorkflowEvent]
    BY <1>2 DEF ByChaincode, WorkflowEvent
  <1>4. ByPortal \in [1 .. Len(history) -> WorkflowEvent]
    BY <1>2 DEF ByPortal, WorkflowEvent
  <1>5. ASSUME NEW f \in [1 .. Len(history) -> WorkflowEvent]
        PROVE  f \in Seq(WorkflowEvent) /\ Len(f) = Len(history)
    BY <1>1, <1>5
  <1>6. /\ ByChaincode \in Seq(WorkflowEvent) /\ ByPortal \in Seq(WorkflowEvent)
        /\ Len(ByChaincode) = Len(history) /\ Len(ByPortal) = Len(history)
    BY <1>3, <1>4, <1>5
  <1>7. ASSUME NEW k \in 1 .. Len(history)
        PROVE  /\ ByPortal[k].type = ByChaincode[k].type
               /\ ByChaincode[k].fact => ByPortal[k].fact
    <2>1. /\ ByChaincode[k].type = history[k].type /\ ByPortal[k].type = history[k].type
          /\ ByChaincode[k].fact = AsBool(history[k].accepted)
          /\ ByPortal[k].fact = Truthy(history[k].accepted)
      BY Zenon DEF ByChaincode, ByPortal
    <2>2. AsBool(history[k].accepted) => Truthy(history[k].accepted)
      BY <1>2
    <2>3. QED
      BY <2>1, <2>2, Zenon
  <1>8. QED
    BY <1>6, <1>7, Zenon

(* The events of a history are steps of a workflow. *)
THEOREM Histories == HistorySpec => []HistoryType
  <1>1. HistoryInit => HistoryType
    BY DEF HistoryInit, HistoryType
  <1>2. HistoryType /\ [HistoryNext]_history => HistoryType'
    <2>1. SUFFICES ASSUME history \in Seq(RawEvent), [HistoryNext]_history
                   PROVE  history' \in Seq(RawEvent)
      BY DEF HistoryType
    <2>2. "residue_custody" \in WorkflowTypes /\ "false" \in Values
      BY TypesAre DEF WorkflowTypes, Values
    <2>3. ASSUME NEW type \in WorkflowTypes, NEW accepted \in Values,
                 Record(type, accepted)
          PROVE  history' \in Seq(RawEvent)
      <3>1. [type |-> type, accepted |-> accepted] \in RawEvent
        BY DEF RawEvent
      <3>2. QED
        BY <2>1, <2>3, <3>1 DEF Record
    <2>4. QED
      BY <2>1, <2>2, <2>3 DEF HistoryNext
  <1>3. QED
    BY <1>1, <1>2, PTL DEF HistorySpec

(* A valorization is open exactly when the residue is in custody and one of  *)
(* the transfers was accepted, after any number of transfers.              *)
THEOREM AcceptanceOpensValorization == HistorySpec => []ValorizationNeedsAcceptance
  <1>1. HistoryType => ValorizationNeedsAcceptance
    <2> DEFINE h == ByChaincode
               status == AnalyzeWorkflow(h)
               scan == Scanned(h)
               accepted == AcceptedIn(h)
    <2>1. SUFFICES ASSUME HistoryType
                   PROVE  MayFollow("valorization", status) <=>
                              /\ status.valid
                              /\ status.workflow = "circular"
                              /\ status.step = 2
                              /\ accepted
      BY DEF ValorizationNeedsAcceptance, ChaincodeStatus
    <2>2. IsHistory(h)
      BY <2>1, ReadingsAre, IsAHistory
    <2> HIDE DEF h
    <2>3. /\ "valorization" \in WorkflowTypes /\ WorkflowOf("valorization") = "circular"
          /\ StepIndex("valorization") = 3 /\ Len(StepsOf("circular")) = 6
      BY TypesAre, StepIndexIs DEF WorkflowOf, WorkflowTypes, StepsOf
    <2>4. CASE h = << >>
      <3>1. status = NoStatus
        BY <2>2, <2>4, AnalyzeIs
      <3>2. ~ MayFollow("valorization", status)
        BY <2>2, <2>3, <2>4, MayFollowIs
      <3>3. QED
        BY <3>1, <3>2 DEF NoStatus
    <2>5. CASE h # << >> /\ status.valid
      <3> DEFINE workflow == WorkflowOf(h[1].type)
      <3>1. /\ workflow \in {"product", "circular"}
            /\ scan \in Scan /\ scan.step \in 1 .. Len(StepsOf(workflow))
            /\ status.workflow = workflow /\ status.exists /\ status.step = scan.step
            /\ status.next = IF scan.step = Len(StepsOf(workflow)) THEN {}
                             ELSE NextAllowed(workflow, scan)
            /\ scan.accepted <=> accepted
        BY <2>2, <2>5, Reached DEF Transfer, AcceptedIn
      <3> HIDE DEF workflow, scan, status, accepted
      <3>2. scan.step # Len(StepsOf(workflow)) =>
                ("valorization" \in NextAllowed(workflow, scan) <=>
                    workflow = "circular" /\ scan.step = 2 /\ scan.accepted)
        BY <3>1, NextIs
      <3>3. MayFollow("valorization", status) <=>
                workflow = "circular" /\ "valorization" \in status.next
        BY <2>3, <2>5, <3>1 DEF MayFollow
      <3>4. CASE scan.step = Len(StepsOf(workflow))
        <4>1. ~ MayFollow("valorization", status)
          BY <3>1, <3>3, <3>4
        <4>2. status.workflow = "circular" => status.step = 6
          BY <2>3, <3>1, <3>4
        <4>3. QED
          BY <4>1, <4>2
      <3>5. CASE scan.step # Len(StepsOf(workflow))
        BY <2>5, <3>1, <3>2, <3>3, <3>5
      <3>6. QED
        BY <3>4, <3>5
    <2>6. CASE ~ status.valid
      BY <2>6 DEF MayFollow
    <2>7. QED
      BY <2>4, <2>5, <2>6
  <1>2. QED
    BY <1>1, Histories, PTL

(* Whatever the history, a step that is allowed keeps it in order and does   *)
(* not lose ground, and a workflow that is not complete never gets stuck.   *)
THEOREM AllowedStepsDoAdvance == HistorySpec => []AllowedStepsAdvance
  <1>1. HistoryType => AllowedStepsAdvance
    <2> DEFINE h == ByChaincode
               status == AnalyzeWorkflow(h)
               scan == Scanned(h)
    <2>1. SUFFICES ASSUME HistoryType
                   PROVE  /\ \A type \in WorkflowTypes, fact \in BOOLEAN :
                                 MayFollow(type, status) =>
                                 LET after == AnalyzeWorkflow(Append(h,
                                                  [type |-> type, fact |-> fact]))
                                 IN  after.valid /\ after.step >= status.step
                          /\ status.valid /\ ~ status.complete =>
                                 \E type \in WorkflowTypes : MayFollow(type, status)
      BY DEF AllowedStepsAdvance, ChaincodeStatus
    <2>2. IsHistory(h) /\ h \in Seq(WorkflowEvent)
      BY <2>1, ReadingsAre, IsAHistory
    <2> HIDE DEF h
    <2>3. ASSUME NEW type \in WorkflowTypes, NEW fact \in BOOLEAN, MayFollow(type, status)
          PROVE  LET after == AnalyzeWorkflow(Append(h,
                                  [type |-> type, fact |-> fact]))
                 IN  after.valid /\ after.step >= status.step
      <3> DEFINE e == [type |-> type, fact |-> fact]
      <3>1. e \in WorkflowEvent /\ e.type = type
        BY DEF WorkflowEvent
      <3> HIDE DEF e
      <3>2. AnalyzeWorkflow(Append(h, e)).valid
            /\ AnalyzeWorkflow(Append(h, e)).step >= status.step
        BY <2>1, <2>2, <2>3, <3>1, FollowerAdvances
      <3>3. QED
        BY <3>2 DEF e
    <2>4. ASSUME status.valid, ~ status.complete
          PROVE  \E type \in WorkflowTypes : MayFollow(type, status)
      <3>1. CASE h = << >>
        <4>1. status = NoStatus
          BY <2>2, <3>1, AnalyzeIs
        <4>2. /\ "cultivation" \in WorkflowTypes
              /\ StepsOf(WorkflowOf("cultivation"))[1] = "cultivation"
          BY StepsAre, TypesAre, StepIndexIs
        <4>3. MayFollow("cultivation", status)
          BY <4>1, <4>2 DEF MayFollow, NoStatus
        <4>4. QED
          BY <4>2, <4>3
      <3>2. CASE h # << >>
        <4> DEFINE workflow == WorkflowOf(h[1].type)
        <4>1. /\ workflow \in {"product", "circular"}
              /\ scan \in Scan /\ scan.step \in 1 .. Len(StepsOf(workflow))
              /\ status.workflow = workflow /\ status.exists
              /\ status.complete <=> scan.step = Len(StepsOf(workflow))
              /\ status.next = IF scan.step = Len(StepsOf(workflow)) THEN {}
                               ELSE NextAllowed(workflow, scan)
          BY <2>2, <2>4, <3>2, Reached
        <4> HIDE DEF workflow, scan, status
        <4>2. /\ \A type \in NextAllowed(workflow, scan) :
                     type \in WorkflowTypes /\ WorkflowOf(type) = workflow
              /\ NextAllowed(workflow, scan) # {}
          BY <2>4, <4>1, NextIs
        <4>3. QED
          BY <2>4, <4>1, <4>2 DEF MayFollow
      <3>3. QED
        BY <3>1, <3>2
    <2>5. QED
      BY <2>3, <2>4
  <1>2. QED
    BY <1>1, Histories, PTL
-----------------------------------------------------------------------------
(* The copy in the application *)

\* What PyInOrder asks of the event at k.
PyFits(h, k) ==
    LET before == Cardinality({j \in Raises(h) : j < k})
        index == StepIndex(h[k].type)
    IN  \/ index = before + 1
        \/ index = before /\ h[k].type \in Repeatable

(* Both loops stop at the same event, and until then the positions at which  *)
(* the one raises its step are as many as the steps the other reached.     *)
LEMMA LoopsAgree ==
    ASSUME NEW h, IsHistory(h), OneWorkflow(h)
    PROVE  /\ PyInOrder(h) <=> Scanned(h).valid
           /\ Scanned(h).valid => Cardinality(Raises(h)) = Scanned(h).step
  <1>1. PICK f : IsScanOf(f, h) /\ Scanned(h) = f[Len(h)]
    BY ScanExists DEF IsHistory
  <1>2. Len(h) \in Nat /\ \A k \in 1 .. Len(h) : h[k].type \in WorkflowTypes
    BY DEF IsHistory
  <1>3. \A n \in 0 .. Len(h) : f[n] \in Scan /\ (f[n].valid => Found(f, h, n))
    BY <1>1, ScanFinds
  <1> DEFINE Below(n) == {j \in Raises(h) : j < n}
             Good == {n \in 0 .. Len(h) :
                         /\ f[n].valid <=> \A k \in 1 .. n : PyFits(h, k)
                         /\ f[n].valid => Cardinality(Below(n + 1)) = f[n].step}
  <1>4. \A n \in Nat : IsFiniteSet(Below(n)) /\ Cardinality(Below(n)) \in Nat
    <2>1. IsFiniteSet(1 .. Len(h)) /\ \A n \in Nat : Below(n) \subseteq 1 .. Len(h)
      BY <1>2, FS_Interval DEF Raises
    <2>2. QED
      BY <2>1, FS_Subset, FS_CardinalityType
  <1>5. 0 \in Good
    <2>1. f[0] = [step |-> 0, accepted |-> FALSE, valid |-> TRUE]
      BY <1>1 DEF IsScanOf, ScanStart
    <2>2. Below(0 + 1) = {}
      BY <1>2 DEF Raises
    <2>3. Cardinality(Below(0 + 1)) = 0
      BY <2>2, FS_EmptySet
    <2>4. QED
      BY <1>2, <2>1, <2>3
  <1>6. ASSUME NEW n \in 1 .. Len(h), n - 1 \in Good
        PROVE  n \in Good
    <2> DEFINE e == h[n]
               index == StepIndex(e.type)
               scan == f[n - 1]
               next == f[n]
    <2>1. /\ n \in Nat /\ n - 1 \in 0 .. Len(h) /\ n \in 0 .. Len(h) /\ n - 1 + 1 = n
          /\ next = Advance(scan, e) /\ e.type \in WorkflowTypes /\ scan \in Scan
      BY <1>1, <1>2, <1>3 DEF IsScanOf
    <2>2. /\ scan.valid <=> \A k \in 1 .. n - 1 : PyFits(h, k)
          /\ scan.valid => Cardinality(Below(n)) = scan.step
      BY <1>6, <2>1
    <2>3. /\ next.valid <=> (scan.valid /\ (\/ index = scan.step + 1
                                            \/ index = scan.step /\ e.type \in Repeatable))
          /\ next.valid => next.step = index
      BY <2>1, AdvanceIs
    <2>4. \A k \in 1 .. n : k \in 1 .. n - 1 \/ k = n
      BY <2>1
    <2>5. n \in 1 .. n /\ \A k \in 1 .. n - 1 : k \in 1 .. n
      BY <2>1
    <2>6. scan.valid =>
              (PyFits(h, n) <=> \/ index = scan.step + 1
                                \/ index = scan.step /\ e.type \in Repeatable)
      BY <2>2 DEF PyFits
    <2>7. next.valid <=> \A k \in 1 .. n : PyFits(h, k)
      <3> HIDE DEF e, index, scan, next
      <3>1. QED
        BY <2>2, <2>3, <2>4, <2>5, <2>6
    <2>8. ASSUME next.valid
          PROVE  Cardinality(Below(n + 1)) = index
      <3>1. /\ scan.valid /\ Cardinality(Below(n)) = scan.step
            /\ Found(f, h, n - 1) /\ scan.step \in Nat
        BY <1>3, <2>1, <2>2, <2>3, <2>8 DEF Scan
      <3>2. \A j \in Raises(h) : j \in Nat
        BY <1>2 DEF Raises
      <3>3. Below(n + 1) = IF n \in Raises(h) THEN Below(n) \cup {n} ELSE Below(n)
        BY <2>1, <3>2
      <3>4. n \notin Below(n) /\ IsFiniteSet(Below(n))
        BY <1>4, <2>1
      <3>5. \A j \in 1 .. n - 1 :
                /\ StepIndex(h[j].type) = index <=> h[j].type = e.type
                /\ StepIndex(h[j].type) \in Nat
        <4>1. ASSUME NEW j \in 1 .. n - 1
              PROVE  /\ StepIndex(h[j].type) = index <=> h[j].type = e.type
                     /\ StepIndex(h[j].type) \in Nat
          <5>1. j \in 1 .. Len(h)
            BY <1>2, <2>1
          <5>2. WorkflowOf(h[j].type) = WorkflowOf(e.type)
            BY <5>1 DEF OneWorkflow
          <5>3. /\ StepsOf(WorkflowOf(h[j].type))[StepIndex(h[j].type)] = h[j].type
                /\ StepsOf(WorkflowOf(e.type))[index] = e.type
                /\ StepIndex(h[j].type) \in 1 .. Len(StepsOf(WorkflowOf(h[j].type)))
            BY <1>2, <2>1, <5>1, StepsAre
          <5>4. QED
            BY <5>2, <5>3
        <4>2. QED
          BY <4>1
      <3>6. CASE index = scan.step + 1
        <4>1. \A j \in 1 .. n - 1 : StepIndex(h[j].type) # index
          BY <3>1, <3>5, <3>6 DEF Found
        <4>2. n \in Raises(h)
          BY <3>5, <4>1 DEF Raises
        <4>3. Cardinality(Below(n) \cup {n}) = Cardinality(Below(n)) + 1
          BY <3>4, FS_AddElement
        <4>4. QED
          BY <3>1, <3>3, <3>6, <4>2, <4>3
      <3>7. CASE index = scan.step
        <4>1. index \in 1 .. scan.step
          <5>1. index \in 1 .. Len(StepsOf(WorkflowOf(e.type)))
            BY <2>1, StepsAre
          <5>2. QED
            BY <3>1, <3>7, <5>1
        <4>2. PICK j \in 1 .. n - 1 : StepIndex(h[j].type) = index
          BY <3>1, <4>1 DEF Found
        <4>3. n \notin Raises(h)
          BY <3>5, <4>2 DEF Raises
        <4>4. QED
          BY <3>1, <3>3, <3>7, <4>3
      <3>8. QED
        BY <2>3, <2>8, <3>6, <3>7
    <2>9. QED
      BY <2>1, <2>3, <2>7, <2>8
  <1>7. Len(h) \in Good
    <2> HIDE DEF Good
    <2>1. \A n \in 0 .. Len(h) : n \in Good
      BY <1>2, <1>5, <1>6, UpTo
    <2>2. QED
      BY <1>2, <2>1
  <1>8. Below(Len(h) + 1) = Raises(h)
    BY <1>2 DEF Raises
  <1>9. PyInOrder(h) <=> \A k \in 1 .. Len(h) : PyFits(h, k)
    BY DEF PyInOrder, PyFits
  <1>10. QED
    BY <1>1, <1>7, <1>8, <1>9

\* The steps the portal offers after a scan are the chaincode's.
LEMMA NextAgrees ==
    ASSUME NEW workflow \in {"product", "circular"}, NEW scan \in Scan,
           scan.step \in 1 .. Len(StepsOf(workflow)),
           scan.step # Len(StepsOf(workflow))
    PROVE  PyNext(workflow, scan.step, scan.accepted) = NextAllowed(workflow, scan)
  <1>1. /\ CircularSteps[4] = "useful_output" /\ CircularSteps[5] = "return_or_sale"
        /\ CircularSteps[6] = "env_accounting"
    BY DEF CircularSteps
  <1>2. CASE workflow = "circular" /\ scan.step = 2
    BY <1>2 DEF PyNext, NextAllowed
  <1>3. CASE workflow = "circular" /\ scan.step = 4
    BY <1>1, <1>3 DEF PyNext, NextAllowed
  <1>4. CASE workflow = "circular" /\ scan.step = 5
    BY <1>1, <1>4 DEF PyNext, NextAllowed
  <1>5. CASE ~ (workflow = "circular" /\ scan.step \in {2, 4, 5})
    BY <1>5 DEF PyNext, NextAllowed
  <1>6. QED
    BY <1>2, <1>3, <1>4, <1>5

(* For every history of a subject, in order or not, the portal offers the    *)
(* steps the chaincode would accept and no others.                         *)
LEMMA CopiesAgree ==
    ASSUME NEW h, IsHistory(h)
    PROVE  LET portal == DeriveStatus(h)
               chaincode == AnalyzeWorkflow(h)
           IN  /\ \A type \in WorkflowTypes :
                      PyTransitionAllowed(portal, type) <=> MayFollow(type, chaincode)
               /\ PyTransitionAllowed(portal, "consumer_verification") <=>
                      chaincode.workflow = "product" /\ chaincode.complete
  <1> DEFINE portal == DeriveStatus(h)
             chaincode == AnalyzeWorkflow(h)
             workflow == WorkflowOf(h[1].type)
             scan == Scanned(h)
  <1>1. "consumer_verification" \notin WorkflowTypes
    BY TypesAre DEF WorkflowTypes
  <1>2. CASE h = << >>
    <2>1. portal = PyNoStatus
      BY <1>2 DEF DeriveStatus
    <2>2. chaincode = NoStatus
      BY <1>2, AnalyzeIs
    <2>3. ASSUME NEW type \in WorkflowTypes
          PROVE  StepsOf(WorkflowOf(type))[1] =
                     IF type \in ProductTypes THEN "cultivation" ELSE "residue_generation"
      BY DEF StepsOf, WorkflowOf, ProductSteps, CircularSteps
    <2>4. QED
      BY <1>1, <2>1, <2>2, <2>3 DEF PyTransitionAllowed, MayFollow, PyNoStatus, NoStatus
  <1>3. CASE h # << >> /\ ~ OneWorkflow(h)
    <2>1. \E k \in 1 .. Len(h) : WorkflowOf(h[k].type) # workflow
      BY <1>3 DEF OneWorkflow
    <2>2. portal = [PyNoStatus EXCEPT !.exists = TRUE, !.valid = FALSE]
      BY <1>3, <2>1 DEF DeriveStatus
    <2>3. chaincode = [NoStatus EXCEPT !.valid = FALSE]
      BY <1>3, AnalyzeIs
    <2>4. portal.exists /\ portal.next = {} /\ portal.workflow = "unknown"
      BY <2>2 DEF PyNoStatus
    <2>5. ~ chaincode.valid /\ chaincode.workflow = "unknown"
      BY <2>3 DEF NoStatus
    <2> HIDE DEF portal, chaincode
    <2>6. QED
      BY <1>1, <2>4, <2>5 DEF PyTransitionAllowed, MayFollow, portal, chaincode
  <1>4. CASE h # << >> /\ OneWorkflow(h) /\ ~ scan.valid
    <2>1. ~ PyInOrder(h)
      BY <1>4, LoopsAgree
    <2>2. portal = [PyNoStatus EXCEPT !.workflow = workflow, !.exists = TRUE,
                                      !.valid = FALSE]
      BY <1>4, <2>1 DEF DeriveStatus, OneWorkflow
    <2>3. chaincode = [NoStatus EXCEPT !.workflow = workflow, !.exists = TRUE,
                                       !.valid = FALSE]
      BY <1>4, AnalyzeIs
    <2> HIDE DEF workflow
    <2>4. portal.exists /\ portal.next = {} /\ ~ portal.complete
      BY <2>2 DEF PyNoStatus
    <2>5. ~ chaincode.valid /\ ~ chaincode.complete
      BY <2>3 DEF NoStatus
    <2> HIDE DEF portal, chaincode
    <2>6. QED
      BY <1>1, <2>4, <2>5 DEF PyTransitionAllowed, MayFollow, portal, chaincode
  <1>5. CASE h # << >> /\ OneWorkflow(h) /\ scan.valid
    <2> DEFINE complete == scan.step = Len(StepsOf(workflow))
               accepted == \E k \in 1 .. Len(h) :
                               h[k].type = "residue_custody" /\ h[k].fact
               raises == Cardinality(Raises(h))
    <2>1. PyInOrder(h) /\ raises = scan.step
      BY <1>5, LoopsAgree
    <2>2. chaincode.valid
      <3>1. chaincode = [workflow |-> workflow, exists |-> TRUE, valid |-> TRUE,
                         step |-> scan.step, complete |-> complete,
                         next |-> IF complete THEN {} ELSE NextAllowed(workflow, scan)]
        BY <1>5, AnalyzeIs
      <3> HIDE DEF chaincode, workflow, scan, complete
      <3>2. QED
        BY <3>1
    <2>3. /\ workflow \in {"product", "circular"}
          /\ scan \in Scan /\ scan.step \in 1 .. Len(StepsOf(workflow))
          /\ chaincode.workflow = workflow /\ chaincode.exists
          /\ chaincode.complete <=> complete
          /\ chaincode.next = IF complete THEN {} ELSE NextAllowed(workflow, scan)
          /\ scan.accepted <=> accepted
      BY <1>5, <2>2, Reached DEF Transfer
    <2>4. portal = [workflow |-> workflow, exists |-> TRUE, valid |-> TRUE,
                    step |-> raises, complete |-> raises = Len(StepsOf(workflow)),
                    next |-> IF raises # Len(StepsOf(workflow))
                             THEN PyNext(workflow, raises, accepted)
                             ELSE IF workflow = "product" THEN {"consumer_verification"}
                             ELSE {}]
      BY <1>5, <2>1 DEF DeriveStatus, OneWorkflow
    <2>5. scan.accepted = accepted
      BY <2>3 DEF Scan
    <2> HIDE DEF workflow, scan, raises, accepted, portal
    <2>6. /\ portal.workflow = workflow /\ portal.exists
          /\ portal.complete <=> complete
          /\ portal.next = IF complete
                           THEN IF workflow = "product" THEN {"consumer_verification"}
                                ELSE {}
                           ELSE PyNext(workflow, scan.step, scan.accepted)
      <3> DEFINE last == raises = Len(StepsOf(workflow))
                 steps == PyNext(workflow, raises, accepted)
      <3>1. last <=> complete
        BY <2>1
      <3>2. steps = PyNext(workflow, scan.step, scan.accepted)
        BY <2>1, <2>5
      <3> HIDE DEF last, steps, complete
      <3>3. portal = [workflow |-> workflow, exists |-> TRUE, valid |-> TRUE,
                      step |-> raises, complete |-> last,
                      next |-> IF ~ last THEN steps
                               ELSE IF workflow = "product" THEN {"consumer_verification"}
                               ELSE {}]
        BY <2>4 DEF last, steps
      <3>4. QED
        BY <3>1, <3>2, <3>3
    <2>7. ~ complete => PyNext(workflow, scan.step, scan.accepted)
                        = NextAllowed(workflow, scan)
      BY <2>3, NextAgrees
    <2>8. ~ complete => \A type \in NextAllowed(workflow, scan) :
                            WorkflowOf(type) = workflow
      BY <2>3, NextIs
    <2> HIDE DEF chaincode, complete
    <2>9. ASSUME NEW type \in WorkflowTypes
          PROVE  PyTransitionAllowed(portal, type) <=> MayFollow(type, chaincode)
      <3>1. PyTransitionAllowed(portal, type) <=> type \in portal.next
        BY <1>1, <2>6 DEF PyTransitionAllowed
      <3>2. MayFollow(type, chaincode) <=>
                workflow = WorkflowOf(type) /\ type \in chaincode.next
        BY <2>2, <2>3 DEF MayFollow
      <3>3. CASE complete
        <4>1. type \notin portal.next /\ chaincode.next = {}
          BY <1>1, <2>3, <2>6, <3>3
        <4>2. QED
          BY <3>1, <3>2, <4>1
      <3>4. CASE ~ complete
        <4>1. portal.next = NextAllowed(workflow, scan)
              /\ chaincode.next = NextAllowed(workflow, scan)
          BY <2>3, <2>6, <2>7, <3>4
        <4>2. QED
          BY <2>8, <3>1, <3>2, <3>4, <4>1
      <3>5. QED
        BY <3>3, <3>4
    <2>10. PyTransitionAllowed(portal, "consumer_verification") <=>
               chaincode.workflow = "product" /\ chaincode.complete
      BY <2>3, <2>6 DEF PyTransitionAllowed
    <2>11. QED
      BY <2>9, <2>10 DEF portal, chaincode
  <1>6. QED
    BY <1>2, <1>3, <1>4, <1>5

\* Of the facts of a history, the status in the portal only depends on
\* whether a transfer was accepted, and only where that matters.
LEMMA DependsOnAcceptance ==
    ASSUME NEW h, NEW g, IsHistory(h), IsHistory(g), Len(g) = Len(h),
           \A k \in 1 .. Len(h) : g[k].type = h[k].type
    PROVE  /\ Raises(g) = Raises(h) /\ PyInOrder(g) <=> PyInOrder(h)
           /\ \/ AcceptedIn(g) = AcceptedIn(h)
              \/ ~ (/\ h # << >> /\ OneWorkflow(h) /\ PyInOrder(h)
                    /\ WorkflowOf(h[1].type) = "circular"
                    /\ Cardinality(Raises(h)) = 2)
              => DeriveStatus(g) = DeriveStatus(h)
  <1> DEFINE workflow == WorkflowOf(h[1].type)
             raises == Cardinality(Raises(h))
             complete == raises = Len(StepsOf(workflow))
             mixed == \E k \in 1 .. Len(h) : WorkflowOf(h[k].type) # workflow
             Status(accepted) ==
                 [workflow |-> workflow, exists |-> TRUE, valid |-> TRUE,
                  step |-> raises, complete |-> complete,
                  next |-> IF ~ complete THEN PyNext(workflow, raises, accepted)
                           ELSE IF workflow = "product" THEN {"consumer_verification"}
                           ELSE {}]
             Whole(accepted) ==
                 IF h = << >> THEN PyNoStatus
                 ELSE IF mixed
                 THEN [PyNoStatus EXCEPT !.exists = TRUE, !.valid = FALSE]
                 ELSE IF ~ PyInOrder(h)
                 THEN [PyNoStatus EXCEPT !.workflow = workflow, !.exists = TRUE,
                                         !.valid = FALSE]
                 ELSE Status(accepted)
  <1>1. Raises(g) = Raises(h)
    <2>1. Len(h) \in Nat
      BY DEF IsHistory
    <2>2. \A k \in 1 .. Len(h) : \A j \in 1 .. k - 1 : j \in 1 .. Len(h)
      BY <2>1
    <2>3. QED
      BY <2>2 DEF Raises
  <1>2. PyInOrder(g) <=> PyInOrder(h)
    BY <1>1 DEF PyInOrder
  <1>3. g = << >> <=> h = << >>
    BY DEF IsHistory
  <1>4. h # << >> => 1 \in 1 .. Len(h) /\ g[1].type = h[1].type
    BY DEF IsHistory
  <1>5. DeriveStatus(h) = Whole(AcceptedIn(h))
    BY DEF DeriveStatus, AcceptedIn
  <1>6. DeriveStatus(g) = Whole(AcceptedIn(g))
    <2>1. CASE h = << >>
      BY <1>3, <2>1 DEF DeriveStatus
    <2>2. CASE h # << >>
      <3>1. /\ WorkflowOf(g[1].type) = workflow /\ Cardinality(Raises(g)) = raises
            /\ (\E k \in 1 .. Len(g) : WorkflowOf(g[k].type) # workflow) <=> mixed
        BY <1>1, <1>4, <2>2
      <3> HIDE DEF workflow, raises, mixed
      <3>2. QED
        BY <1>2, <1>3, <2>2, <3>1 DEF DeriveStatus, AcceptedIn
    <2>3. QED
      BY <2>1, <2>2
  <1>7. ASSUME ~ (h # << >> /\ OneWorkflow(h) /\ PyInOrder(h)
                    /\ workflow = "circular" /\ raises = 2)
        PROVE  Whole(AcceptedIn(g)) = Whole(AcceptedIn(h))
    <2>1. CASE h = << >> \/ mixed \/ ~ PyInOrder(h)
      <3> HIDE DEF mixed, workflow, Status
      <3>1. QED
        BY <2>1
    <2>2. CASE ~ (workflow = "circular" /\ raises = 2)
      <3>1. PyNext(workflow, raises, AcceptedIn(g)) = PyNext(workflow, raises, AcceptedIn(h))
        BY <2>2 DEF PyNext
      <3>2. Status(AcceptedIn(g)) = Status(AcceptedIn(h))
        BY <3>1
      <3> HIDE DEF mixed, workflow, Status
      <3>3. QED
        BY <3>2
    <2>3. h = << >> \/ mixed \/ OneWorkflow(h)
      BY DEF OneWorkflow
    <2>4. QED
      BY <1>7, <2>1, <2>2, <2>3
  <1>8. QED
    <2> HIDE DEF Whole
    <2>1. AcceptedIn(g) = AcceptedIn(h) => DeriveStatus(g) = DeriveStatus(h)
      BY <1>5, <1>6
    <2>2. QED
      BY <1>1, <1>2, <1>5, <1>6, <1>7, <2>1

(* While the residue is in custody, each side offers the step that goes with *)
(* what it takes for accepted.                                             *)
LEMMA InCustody ==
    ASSUME NEW h, IsHistory(h), h # << >>,
           AnalyzeWorkflow(h).valid, AnalyzeWorkflow(h).workflow = "circular",
           AnalyzeWorkflow(h).step = 2
    PROVE  /\ OneWorkflow(h) /\ PyInOrder(h) /\ WorkflowOf(h[1].type) = "circular"
           /\ Cardinality(Raises(h)) = 2
           /\ \A type \in WorkflowTypes :
                  MayFollow(type, AnalyzeWorkflow(h)) <=>
                      type = IF AcceptedIn(h) THEN "valorization" ELSE "residue_custody"
           /\ \A type \in WorkflowTypes :
                  PyTransitionAllowed(DeriveStatus(h), type) <=>
                      type = IF AcceptedIn(h) THEN "valorization" ELSE "residue_custody"
  <1> DEFINE status == AnalyzeWorkflow(h)
             step == IF AcceptedIn(h) THEN "valorization" ELSE "residue_custody"
  <1>1. /\ WorkflowOf(h[1].type) = "circular" /\ OneWorkflow(h)
        /\ Scanned(h).valid /\ Scanned(h).step = 2 /\ Len(StepsOf("circular")) = 6
        /\ status.exists
        /\ status.next = IF Scanned(h).step = Len(StepsOf(WorkflowOf(h[1].type))) THEN {}
                         ELSE NextAllowed(WorkflowOf(h[1].type), Scanned(h))
        /\ Scanned(h).accepted <=> AcceptedIn(h)
    BY Reached, TypesAre DEF Transfer, AcceptedIn, StepsOf
  <1>2. PyInOrder(h) /\ Cardinality(Raises(h)) = 2
    BY <1>1, LoopsAgree
  <1>3. NextAllowed("circular", Scanned(h)) = {step}
    BY <1>1 DEF NextAllowed
  <1>4. status.next = {step}
    <2>1. /\ WorkflowOf(h[1].type) = "circular" /\ Scanned(h).step = 2
          /\ Len(StepsOf("circular")) = 6
      BY <1>1
    <2> HIDE DEF step, status
    <2>2. Len(StepsOf(WorkflowOf(h[1].type))) = 6
      BY <2>1
    <2>3. Scanned(h).step # Len(StepsOf(WorkflowOf(h[1].type)))
      <3>1. 2 # 6
        OBVIOUS
      <3>2. QED
        BY <2>1, <2>2, <3>1, Zenon
    <2>4. status.next = NextAllowed(WorkflowOf(h[1].type), Scanned(h))
      BY <1>1, <2>3
    <2>5. QED
      BY <1>3, <2>1, <2>4
  <1>5. WorkflowOf("valorization") = "circular" /\ WorkflowOf("residue_custody") = "circular"
    BY TypesAre DEF WorkflowOf
  <1>6. ASSUME NEW type \in WorkflowTypes
        PROVE  MayFollow(type, status) <=> type = step
    BY <1>1, <1>4, <1>5 DEF MayFollow
  <1>7. QED
    BY <1>1, <1>2, <1>6, CopiesAgree

(* The portal offers a step exactly when the chaincode would take it, after   *)
(* a history of any length, unless it alone takes a transfer for accepted.  *)
THEOREM PortalIsAMirror == HistorySpec => []PortalMirrorsChaincode
  <1>1. HistoryType => PortalMirrorsChaincode
    <2> DEFINE h == ByChaincode
               g == ByPortal
               offered == {type \in WorkflowTypes : PyTransitionAllowed(PortalStatus, type)}
               taken == {type \in WorkflowTypes : MayFollow(type, ChaincodeStatus)}
    <2>1. SUFFICES ASSUME HistoryType
                   PROVE  /\ Misread => offered = {"valorization"}
                                         /\ taken = {"residue_custody"}
                          /\ ~ Misread => offered = taken
                          /\ PyTransitionAllowed(PortalStatus, "consumer_verification") <=>
                                 ChaincodeStatus.workflow = "product"
                                     /\ ChaincodeStatus.complete
      BY DEF PortalMirrorsChaincode
    <2>2. /\ IsHistory(h) /\ IsHistory(g) /\ Len(g) = Len(h)
          /\ \A k \in 1 .. Len(h) : g[k].type = h[k].type
          /\ AcceptedIn(h) => AcceptedIn(g)
      BY <2>1, ReadingsAre, IsAHistory DEF AcceptedIn
    <2>3. PortalStatus = DeriveStatus(g) /\ ChaincodeStatus = AnalyzeWorkflow(h)
      BY DEF PortalStatus, ChaincodeStatus
    <2>4. Misread <=> /\ ChaincodeStatus.valid /\ ChaincodeStatus.workflow = "circular"
                      /\ ChaincodeStatus.step = 2 /\ AcceptedIn(g) /\ ~ AcceptedIn(h)
      BY DEF Misread
    <2> HIDE DEF h, g
    <2>5. /\ h = << >> <=> g = << >>
          /\ h # << >> => 1 \in 1 .. Len(h) /\ g[1].type = h[1].type
      BY <2>2 DEF IsHistory
    <2>6. AcceptedIn(h) \in BOOLEAN /\ AcceptedIn(g) \in BOOLEAN
      BY DEF AcceptedIn
    <2>7. CASE /\ ChaincodeStatus.valid /\ ChaincodeStatus.workflow = "circular"
               /\ ChaincodeStatus.step = 2 /\ AcceptedIn(g) /\ ~ AcceptedIn(h)
      <3>1. h # << >>
        <4>1. SUFFICES ASSUME h = << >> PROVE FALSE
          OBVIOUS
        <4>2. AnalyzeWorkflow(h) = NoStatus
          BY <2>2, <4>1, AnalyzeIs
        <4>3. QED
          BY <2>3, <2>7, <4>2 DEF NoStatus
      <3>2. /\ OneWorkflow(h) /\ PyInOrder(h) /\ WorkflowOf(h[1].type) = "circular"
            /\ Cardinality(Raises(h)) = 2
            /\ \A type \in WorkflowTypes :
                   MayFollow(type, ChaincodeStatus) <=> type = "residue_custody"
        BY <2>2, <2>3, <2>7, <3>1, InCustody
      <3>3. taken = {"residue_custody"} /\ "valorization" \in WorkflowTypes
        BY <3>2, TypesAre DEF WorkflowTypes
      <3>4. offered = {"valorization"}
        <4>1. /\ WorkflowOf(g[1].type) = "circular" /\ g # << >> /\ PyInOrder(g)
              /\ Cardinality(Raises(g)) = 2
          BY <2>2, <2>5, <3>1, <3>2, DependsOnAcceptance
        <4>2. ~ \E k \in 1 .. Len(g) : WorkflowOf(g[k].type) # WorkflowOf(g[1].type)
          BY <2>2, <2>5, <3>1, <3>2 DEF OneWorkflow
        <4>3. Len(StepsOf("circular")) = 6
          BY TypesAre DEF StepsOf
        <4> DEFINE raises == Cardinality(Raises(g))
                   complete == raises = Len(StepsOf(WorkflowOf(g[1].type)))
                   steps == PyNext(WorkflowOf(g[1].type), raises, AcceptedIn(g))
        <4>4. DeriveStatus(g) =
                  [workflow |-> WorkflowOf(g[1].type), exists |-> TRUE, valid |-> TRUE,
                   step |-> raises, complete |-> complete,
                   next |-> IF ~ complete THEN steps
                            ELSE IF WorkflowOf(g[1].type) = "product"
                            THEN {"consumer_verification"} ELSE {}]
          BY <4>1, <4>2 DEF DeriveStatus, AcceptedIn
        <4>5. ~ complete
          BY <4>1, <4>3
        <4>6. steps = {"valorization"}
          BY <2>7, <4>1 DEF PyNext
        <4> HIDE DEF raises, complete, steps
        <4>7. PortalStatus.exists /\ PortalStatus.next = {"valorization"}
          BY <2>3, <4>4, <4>5, <4>6
        <4>8. "consumer_verification" \notin WorkflowTypes
          BY TypesAre DEF WorkflowTypes
        <4>9. QED
          BY <3>3, <4>7, <4>8 DEF PyTransitionAllowed
      <3>5. ChaincodeStatus.workflow # "product" /\ PortalStatus.workflow # "product"
        <4>1. PortalStatus.workflow = "circular"
          <5>1. /\ WorkflowOf(g[1].type) = "circular" /\ g # << >> /\ PyInOrder(g)
            BY <2>2, <2>5, <3>1, <3>2, DependsOnAcceptance
          <5>2. ~ \E k \in 1 .. Len(g) : WorkflowOf(g[k].type) # WorkflowOf(g[1].type)
            BY <2>2, <2>5, <3>1, <3>2 DEF OneWorkflow
          <5>3. QED
            BY <2>3, <5>1, <5>2 DEF DeriveStatus
        <4>2. QED
          BY <2>7, <4>1
      <3>6. QED
        BY <2>4, <2>7, <3>3, <3>4, <3>5 DEF PyTransitionAllowed
    <2>8. CASE ~ (/\ ChaincodeStatus.valid /\ ChaincodeStatus.workflow = "circular"
                  /\ ChaincodeStatus.step = 2 /\ AcceptedIn(g) /\ ~ AcceptedIn(h))
      <3>1. \/ AcceptedIn(g) = AcceptedIn(h)
            \/ ~ (/\ h # << >> /\ OneWorkflow(h) /\ PyInOrder(h)
                  /\ WorkflowOf(h[1].type) = "circular"
                  /\ Cardinality(Raises(h)) = 2)
        <4>1. SUFFICES ASSUME AcceptedIn(g), ~ AcceptedIn(h), h # << >>, OneWorkflow(h),
                              PyInOrder(h), WorkflowOf(h[1].type) = "circular",
                              Cardinality(Raises(h)) = 2
                       PROVE  FALSE
          BY <2>2, <2>6
        <4>2. Scanned(h).valid /\ Scanned(h).step = 2
          BY <2>2, <4>1, LoopsAgree
        <4> DEFINE complete == Scanned(h).step = Len(StepsOf(WorkflowOf(h[1].type)))
                   steps == IF complete THEN {}
                            ELSE NextAllowed(WorkflowOf(h[1].type), Scanned(h))
        <4>3. AnalyzeWorkflow(h) =
                  [workflow |-> WorkflowOf(h[1].type), exists |-> TRUE, valid |-> TRUE,
                   step |-> Scanned(h).step, complete |-> complete, next |-> steps]
          BY <2>2, <4>1, <4>2, AnalyzeIs
        <4> HIDE DEF complete, steps
        <4>4. /\ ChaincodeStatus.valid /\ ChaincodeStatus.workflow = "circular"
              /\ ChaincodeStatus.step = 2
          BY <2>3, <4>1, <4>2, <4>3
        <4>5. QED
          BY <2>8, <4>1, <4>4
      <3>2. DeriveStatus(g) = DeriveStatus(h)
        BY <2>2, <3>1, DependsOnAcceptance
      <3>3. /\ \A type \in WorkflowTypes :
                   PyTransitionAllowed(PortalStatus, type) <=> MayFollow(type, ChaincodeStatus)
            /\ PyTransitionAllowed(PortalStatus, "consumer_verification") <=>
                   ChaincodeStatus.workflow = "product" /\ ChaincodeStatus.complete
        BY <2>2, <2>3, <3>2, CopiesAgree
      <3>4. QED
        BY <2>4, <2>8, <3>3
    <2>9. QED
      BY <2>7, <2>8
  <1>2. QED
    BY <1>1, Histories, PTL
=============================================================================
