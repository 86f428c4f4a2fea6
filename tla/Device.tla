------------------------------- MODULE Device -------------------------------
(***************************************************************************)
(* The AMD SEV-SNP device appraisal (amd-snp-device/src/lib.rs and the     *)
(* verifier's adapters/snp_device.rs): whether the chip that signed a      *)
(* fresh report is the device the statement describes.  Identifiers and    *)
(* nonces are numbers, 0 the one that is all zeros.                        *)
(***************************************************************************)
EXTENDS Adapter, FiniteSets

SNP == "AmdSnpDevice"

(* "genuine" is the verdict of the library on the report, the VCEK and the *)
(* pinned root; a chip identifier that is the VCEK's and no more "matches".*)
Files      == {"Given", "Missing", "Unusable"}
SnpReports == [file : Files, genuine : BOOLEAN, generation : Generations \cup {"other"},
               tcb : Seq(Nat), data : Nat, matches : BOOLEAN]
(* The hardware ID: absent, of another generation's length, or an ID.      *)
Vceks  == [file : Files, readable : BOOLEAN, hwid : {"None", "WrongLength", "Id"}, id : Nat]
(* "Long" exceeds REPORT_DATA and "Short" could be guessed.                *)
Nonces == [form : {"NotHex", "Short", "Long", "Fits", "Missing", "Unusable"}, value : Nat]
Chains == {"Two", "Other", "Missing", "Unusable"}    \* certificates in the PEM

Boms == [payload : {"Json", "NotJson", "Unavailable"}, graph : BOOLEAN,
         serials : Seq(Nat)]      \* of the devices of the category asked for
NotHex == 0                       \* a serial that is missing or not hexadecimal
DeviceFloors   == [generation : Generations \cup {"other"}, tcb : Seq(Nat)]
DevicePolicies == [profile : BOOLEAN, floors : Seq(DeviceFloors)]

-----------------------------------------------------------------------------
(* read_claim: exactly one device of the category, with a serial.          *)
BomState(bom) ==
    IF bom.payload # "Json" THEN "CannotEvaluate"
    ELSE IF ~bom.graph \/ Len(bom.serials) # 1 THEN "Fail"
    ELSE IF bom.serials[1] = NotHex THEN "Fail" ELSE "Pass"

(* authenticate: what was not supplied, or cannot be split, is not known   *)
(* to be wrong; everything after that is.                                  *)
ReportState(report, vcek, chain) ==
    IF \/ "Missing" \in {report.file, vcek.file}
       \/ chain # "Two" THEN "CannotEvaluate"
    ELSE IF report.genuine /\ report.generation \in Generations /\ vcek.readable
         THEN "Pass" ELSE "Fail"

Applicable(report, floors) ==
    {i \in DOMAIN floors : floors[i].generation = report.generation}

(* check_tcb: the last floor of the report's generation is compared.       *)
TcbState(report, floors) ==
    LET applicable == Applicable(report, floors)
        last == CHOOSE i \in applicable : \A j \in applicable : j <= i
    IN  IF \E i \in DOMAIN floors : floors[i].generation \notin Generations
        THEN "CannotEvaluate"
        ELSE IF applicable = {} THEN "CannotEvaluate"
        ELSE IF AtLeast(report.tcb, floors[last].tcb) THEN "Pass" ELSE "Fail"

(* Mutant: a nonce of zeros counts as one.                                 *)
MutFreshness(report, nonce) ==
    IF nonce.form # "Fits" THEN "CannotEvaluate"
    ELSE IF report.data = nonce.value THEN "Pass" ELSE "Fail"

(* check_freshness: all zeros is what a guest given no nonce reports.      *)
Freshness(report, nonce) ==
    IF nonce.form # "Fits" \/ nonce.value = 0 THEN "CannotEvaluate"
    ELSE IF report.data = nonce.value THEN "Pass" ELSE "Fail"

(* check_binding: without a hardware ID of one chip (a VLEK is shared by a *)
(* fleet) the signer is no device.                                         *)
NamesChip(report, vcek) == vcek.hwid = "Id" /\ vcek.id # 0 /\ report.matches

DeviceBinding(serial, report, vcek) ==
    IF NamesChip(report, vcek) /\ serial = vcek.id THEN "Pass" ELSE "Fail"

(* Both halves are appraised even when one fails.                          *)
AppraiseSupplied(policy, bom, report, vcek, chain, nonce) ==
    LET authenticated == ReportState(report, vcek, chain) = "Pass"
    IN  [Unevaluated(SNP) EXCEPT
            !["device-claim"] = BomState(bom),
            !["snp-report"]   = ReportState(report, vcek, chain),
            !["tcb-floor"]    = IF authenticated THEN TcbState(report, policy.floors) ELSE @,
            !["freshness"]    = IF authenticated THEN Freshness(report, nonce) ELSE @,
            !["device-binding"] = IF authenticated /\ BomState(bom) = "Pass"
                                  THEN DeviceBinding(bom.serials[1], report, vcek) ELSE @]

(* The launch measurement is a note: it is not compared.                   *)
AppraiseDevice(policy, bom, report, vcek, chain, nonce) ==
    IF "Unusable" \in {report.file, vcek.file, chain, nonce.form} THEN NotAttempted(SNP)
    ELSE IF ~policy.profile THEN Report(SNP, Unevaluated(SNP), 0)
    ELSE Report(SNP, AppraiseSupplied(policy, bom, report, vcek, chain, nonce),
                IF ReportState(report, vcek, chain) = "Pass" THEN 1 ELSE 0)
=============================================================================
