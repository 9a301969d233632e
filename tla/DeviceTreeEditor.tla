-------------------------- MODULE DeviceTreeEditor --------------------------
(***************************************************************************)
(* The life of one editor (editors/DeviceTreeEditor.java): its document,   *)
(* partitioned by PartitionScanner, the viewer's configuration             *)
(* (editors/XMLConfiguration.java) with the two scanners that are made on  *)
(* first use, and the colours (editors/ColorManager.java) they all share.  *)
(* A Color is an operating system resource that must be disposed, and must *)
(* not be used afterwards.                                                 *)
(***************************************************************************)
EXTENDS PartitionScanner

CONSTANT MaxConfigured      \* bound: how often the viewer is configured

ASSUME DeviceTreeEditorAssumption == MaxConfigured \in Nat

VARIABLES
    phase,          \* "none", "open", "disposed"
    fColorTable,    \* the colours the table has
    live,           \* the colours that are not disposed
    tagScanner,     \* the field, as the colours of its tokens; {} is null
    xmlScanner,     \* the field scanner, likewise
    reconciler,     \* for each content type, the colours of its repairer
    configured      \* how often the viewer was configured

editorVars == <<phase, fColorTable, live, tagScanner, xmlScanner, reconciler, configured>>
vars == <<scanVars, editorVars>>

\* IXMLColorConstants.
RGBs == {"XML_COMMENT", "PROC_INSTR", "STRING", "DEFAULT", "TAG"}

DEFAULT_CONTENT_TYPE == "__dftl_partition_content_type"
ContentTypes == LegalContentTypes \cup {DEFAULT_CONTENT_TYPE}

NoReconciler == [type \in ContentTypes |-> {}]

TypeOK ==
    /\ ScannerTypeOK
    /\ phase \in {"none", "open", "disposed"}
    /\ fColorTable \subseteq RGBs /\ live \subseteq RGBs
    /\ tagScanner \subseteq RGBs /\ xmlScanner \subseteq RGBs
    /\ reconciler \in [ContentTypes -> SUBSET RGBs]
    /\ configured \in 0..MaxConfigured

Init ==
    /\ ScannerInit
    /\ phase = "none"
    /\ fColorTable = {} /\ live = {}
    /\ tagScanner = {} /\ xmlScanner = {}
    /\ reconciler = NoReconciler
    /\ configured = 0

-----------------------------------------------------------------------------
(* ColorManager *)

\* Faulty variant: a new colour is not put into the table.
getColor_Unregistered(rgbs) ==
    /\ live' = live \cup rgbs
    /\ UNCHANGED fColorTable

\* Faulty variant: the table is asked under another key than it was filled.
getColor_Swapped(rgbs) ==
    /\ fColorTable' = fColorTable \cup {"colour"}
    /\ live' = live \cup (rgbs \ fColorTable)

\* getColor for each of rgbs: one colour for each that the table lacks.
getColor(rgbs) ==
    /\ fColorTable' = fColorTable \cup rgbs
    /\ live' = live \cup (rgbs \ fColorTable)

\* The colours of the table are disposed; the table keeps them.
disposeColors ==
    /\ live' = live \ fColorTable
    /\ UNCHANGED fColorTable

-----------------------------------------------------------------------------
(* XMLConfiguration *)

\* XMLTagScanner's token and its default token; XMLScanner's likewise.
TagScannerColors == {"STRING", "TAG"}
XMLScannerColors == {"PROC_INSTR", "DEFAULT"}

\* What the lazy getters ask the colour manager for: nothing if the scanner
\* is there.
NewColors ==
    (IF tagScanner = {} THEN TagScannerColors ELSE {})
        \cup (IF xmlScanner = {} THEN XMLScannerColors ELSE {})
        \cup {"XML_COMMENT"}

\* Faulty variant: tags have no repairer.
getPresentationReconciler_NoTag ==
    [type \in ContentTypes |->
        CASE type = DEFAULT_CONTENT_TYPE -> XMLScannerColors
          [] type = XML_COMMENT -> {"XML_COMMENT"}
          [] OTHER -> {}]

\* A damager and repairer for each content type.
getPresentationReconciler ==
    [type \in ContentTypes |->
        CASE type = XML_TAG -> TagScannerColors
          [] type = DEFAULT_CONTENT_TYPE -> XMLScannerColors
          [] type = XML_COMMENT -> {"XML_COMMENT"}]

-----------------------------------------------------------------------------
(* DeviceTreeEditor *)

\* The constructor.
Construct ==
    /\ phase = "none"
    /\ phase' = "open"
    /\ UNCHANGED <<scanVars, fColorTable, live, tagScanner, xmlScanner, reconciler, configured>>

\* createDocument: the document is made and its partitioner connected.
createDocument ==
    /\ phase = "open"
    /\ Connect
    /\ UNCHANGED editorVars

Scan ==
    /\ NextToken
    /\ UNCHANGED editorVars

\* The viewer is configured, for the first time or again.
Configure ==
    /\ phase = "open" /\ scanner # "scanning" /\ configured < MaxConfigured
    /\ getColor(NewColors)
    /\ tagScanner' = TagScannerColors
    /\ xmlScanner' = XMLScannerColors
    /\ reconciler' = getPresentationReconciler
    /\ configured' = configured + 1
    /\ UNCHANGED <<scanVars, phase>>

\* dispose: the colours, and then the viewer with its reconciler.
dispose ==
    /\ phase = "open" /\ scanner # "scanning"
    /\ disposeColors
    /\ phase' = "disposed"
    /\ reconciler' = NoReconciler
    /\ UNCHANGED <<scanVars, tagScanner, xmlScanner, configured>>

Next == Construct \/ createDocument \/ Scan \/ Configure \/ dispose

Spec == Init /\ [][Next]_vars

-----------------------------------------------------------------------------
(* Properties *)

\* Whatever order the document and the configuration come in, and however
\* often the viewer is configured: once the viewer is configured, each
\* partition the scanner found has a repairer, all of whose colours are live.
Painted ==
    phase = "open" /\ configured > 0 =>
        \A type \in {part.type : part \in parts} \cup {DEFAULT_CONTENT_TYPE} :
            reconciler[type] # {} /\ reconciler[type] \subseteq live

\* A disposed editor has disposed every colour it made, those of the lazily
\* made scanners included.
NoColorLeft == phase = "disposed" => live = {}

=============================================================================
