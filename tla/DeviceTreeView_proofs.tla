------------------------ MODULE DeviceTreeView_proofs ------------------------
(***************************************************************************)
(* Proofs about the Device Tree view, for every set of files, names and    *)
(* malformed texts and every bound on the versions.                        *)
(***************************************************************************)
EXTENDS DeviceTreeView, Workbench_proofs

-----------------------------------------------------------------------------
(* What the operators of the model return *)

\* Reading gives nothing, or the current text of the active editor's file.
LEMMA ContentRead ==
    ASSUME NEW d \in [Files -> 0..MaxVersion],
           NEW e \in Files \cup {Null},
           NEW c \in getDeviceTreeEditorContent(e, d)
    PROVE  /\ c \in Texts \cup {Null}
           /\ c # Null => c.version = d[c.file] /\ c.file = e
PROOF
<1>1. CASE c = Null
    BY <1>1
<1>2. CASE c # Null
    <2>1. e # Null /\ e \notin ExternalFiles
        BY <1>2 DEF getDeviceTreeEditorContent
    <2>2. c = Text(e, d[e])
        BY <1>2, <2>1, WorkbenchAssumption DEF getDeviceTreeEditorContent
    <2>3. e \in Files
        BY <2>1
    <2> QED
        BY <2>2, <2>3 DEF Text, Texts
<1> QED
    BY <1>1, <1>2

\* A fresh provider has its type and no tree.
LEMMA ProviderFresh ==
    ASSUME NEW c \in Texts \cup {Null}
    PROVE  /\ DeviceTreeContentProvider(c) \in Providers
           /\ DeviceTreeContentProvider(c)._content = c
           /\ DeviceTreeContentProvider(c).invisibleRoot = Null
PROOF
    BY DEF DeviceTreeContentProvider, Providers

\* A provider that has no tree or the tree of its content.
CacheOK(p) == p.invisibleRoot \in {Null, TreeOf(p._content)}

\* getElements keeps the content, and when the cache is right it ends with
\* the tree of the content.
LEMMA ElementsBuilt ==
    ASSUME NEW p \in Providers
    PROVE  /\ getElements(p) \in Providers
           /\ getElements(p)._content = p._content
           /\ CacheOK(p) => /\ getElements(p).invisibleRoot = TreeOf(p._content)
                            /\ CacheOK(getElements(p))
PROOF
<1>1. getElements(p) \in Providers /\ getElements(p)._content = p._content
    BY DEF getElements, Providers
<1>2. CASE p._content = Null
    <2>1. Null \notin Malformed
        BY DeviceTreeViewAssumption, TextAssumption
    <2>2. TreeOf(p._content) = Null /\ getElements(p) = p
        BY <1>2, <2>1 DEF getElements, TreeOf
    <2> QED
        BY <1>1, <2>2 DEF CacheOK
<1>3. CASE p._content # Null
    <2>1. CASE p._content \in Malformed
        BY <1>1, <1>3, <2>1 DEF getElements, TreeOf, CacheOK, Providers
    <2>2. CASE p._content \notin Malformed
        BY <1>1, <1>3, <2>2 DEF getElements, TreeOf, CacheOK, Providers
    <2> QED
        BY <2>1, <2>2
<1> QED
    BY <1>2, <1>3

-----------------------------------------------------------------------------
(* What the calls on the viewer do *)

\* refresh keeps the content, and on a live view it shows the content's tree.
LEMMA RefreshStep ==
    ASSUME TypeOK, NEW p \in Providers, CacheOK(p), refresh(p)
    PROVE  /\ provider' \in Providers
           /\ shown' \in Texts \cup {Null}
           /\ provider'._content = p._content
           /\ CacheOK(provider)'
           /\ phase = "live" => shown' = TreeOf(p._content)
           /\ phase # "live" => shown' = shown
PROOF
<1>1. CASE phase = "live"
    <2>1. provider' = getElements(p) /\ shown' = getElements(p).invisibleRoot
        BY <1>1 DEF refresh
    <2> QED
        BY <1>1, <2>1, ElementsBuilt DEF CacheOK, TreeOf, Providers
<1>2. CASE phase # "live"
    <2>1. provider' = p /\ shown' = shown
        BY <1>2 DEF refresh
    <2> QED
        BY <1>2, <2>1 DEF CacheOK, TreeOf, TypeOK
<1> QED
    BY <1>1, <1>2

\* Setting a provider with content c, on the UI thread.
LEMMA SetProviderStep ==
    ASSUME TypeOK, NEW c \in Texts \cup {Null}, setContentProvider(c)
    PROVE  /\ provider' \in Providers
           /\ shown' \in Texts \cup {Null}
           /\ provider'._content = c
           /\ CacheOK(provider)'
           /\ phase = "live" => shown' = TreeOf(c)
           /\ phase # "live" => shown' = shown
PROOF
<1> DEFINE p == DeviceTreeContentProvider(c)
<1>1. p \in Providers /\ p._content = c /\ CacheOK(p)
    BY ProviderFresh DEF CacheOK
<1>2. refresh(p)
    BY DEF setContentProvider
<1> HIDE DEF p
<1> QED
    BY <1>1, <1>2, RefreshStep

\* The part listener: types, the content before or a text just read, and on
\* a live view the tree of the content.
LEMMA PartActivatedStep ==
    ASSUME TypeOK, CacheOK(provider), NEW f \in Files, partActivated(f)
    PROVE  /\ page' \in BOOLEAN
           /\ currEditorName' \in Names \cup {Null}
           /\ provider' \in Providers
           /\ shown' \in Texts \cup {Null}
           /\ CacheOK(provider)'
           /\ \/ provider'._content = provider._content
              \/ provider'._content # Null =>
                    provider'._content.version = disk[provider'._content.file]
           /\ ~Listening => provider' = provider
           /\ phase = "live" /\ f \in DTFiles => shown' = TreeOf(provider'._content)
           /\ phase # "live" => shown' = shown
           /\ shown' = shown \/ shown' = TreeOf(provider'._content)
PROOF
<1>1. CASE PartIgnored(f)
    BY <1>1 DEF PartIgnored, Listening, TypeOK, CacheOK, TreeOf
<1>2. CASE SameEditorActivated(f)
    <2>1. refresh(provider) /\ page' = page /\ currEditorName' = currEditorName
        BY <1>2 DEF SameEditorActivated
    <2>2. provider \in Providers /\ Listening
        BY <1>2 DEF TypeOK, SameEditorActivated
    <2> QED
        BY <2>1, <2>2, RefreshStep DEF TypeOK
<1>3. CASE NewEditorActivated(f)
    <2>1. PICK c \in getDeviceTreeEditorContent(f, disk) : setContentProvider(c)
        BY <1>3 DEF NewEditorActivated
    <2>2. disk \in [Files -> 0..MaxVersion] /\ f \in Files \cup {Null}
        BY DEF TypeOK, WorkbenchTypeOK
    <2>3. /\ c \in Texts \cup {Null}
          /\ c # Null => c.version = disk[c.file]
        BY <2>1, <2>2, ContentRead
    <2>4. page' = TRUE /\ currEditorName' = NameOf[f] /\ Listening
        BY <1>3 DEF NewEditorActivated
    <2>5. NameOf[f] \in Names
        BY DEF Names
    <2> QED
        BY <2>1, <2>3, <2>4, <2>5, SetProviderStep
<1> QED
    BY <1>1, <1>2, <1>3 DEF partActivated

-----------------------------------------------------------------------------
(* The inductive invariant *)

\* What a job's listener has read stays current until it is handed over: the
\* announcement holds the workspace lock, so no file is saved in between, and
\* listeners are never removed.
ReadCurrent == notice.at = "read" => Listening /\ Current(notice.text)

\* Before createPartControl has ended the view holds no content.
UnopenedEmpty == phase \in {"closed", "broken"} => provider._content = Null

\* Only a live view shows anything.
HiddenEmpty == phase # "live" => shown = Null

\* Without jobs, no announcement is under way between two steps and the
\* widget shows the tree of the content.
Quiet ==
    ~BackgroundChanges =>
        /\ notice.at = "idle"
        /\ phase = "live" => shown = TreeOf(provider._content)

IInv ==
    /\ TypeOK
    /\ ProviderCurrent
    /\ ReadCurrent
    /\ UnopenedEmpty
    /\ HiddenEmpty
    /\ CacheOK(provider)
    /\ Quiet

LEMMA InitIInv == Init => IInv
PROOF
<1> SUFFICES ASSUME Init PROVE IInv
    OBVIOUS
<1>1. provider \in Providers /\ provider._content = Null /\ provider.invisibleRoot = Null
    BY ProviderFresh DEF Init
<1>2. TypeOK
    <2>1. WorkbenchTypeOK
        BY WorkbenchInitType DEF Init
    <2>2. page \in BOOLEAN /\ currEditorName \in Names \cup {Null}
        BY DEF Init
    <2>3. /\ shown \in Texts \cup {Null}
          /\ notice \in [at : {"idle", "posted", "read"}, text : Texts \cup {Null}]
          /\ selection \in [node : Texts, editor : Files] \cup {Null}
          /\ phase \in {"closed", "live", "broken", "disposed"}
        BY DEF Init
    <2> QED
        BY <1>1, <2>1, <2>2, <2>3 DEF TypeOK
<1>3. ProviderCurrent /\ ReadCurrent /\ UnopenedEmpty /\ HiddenEmpty /\ Quiet
    BY <1>1 DEF Init, ProviderCurrent, ReadCurrent, Listening, Current, UnopenedEmpty, HiddenEmpty, Quiet
<1>4. CacheOK(provider)
    BY <1>1 DEF CacheOK
<1> QED
    BY <1>2, <1>3, <1>4 DEF IInv

\* The steps that leave the files, the view's phase and a job's announcement
\* alone, and give the view nothing but its old content or a current text.
LEMMA PartEventIInv ==
    ASSUME IInv, NEW f \in Files, partActivated(f), WorkbenchTypeOK',
           UNCHANGED <<disk, phase, notice>>,
           selection' \in [node : Texts, editor : Files] \cup {Null}
    PROVE  IInv'
PROOF
<1>1. TypeOK /\ CacheOK(provider)
    BY DEF IInv
<1>2. TypeOK'
    BY <1>1, PartActivatedStep DEF TypeOK
<1>3. ProviderCurrent'
    BY <1>1, PartActivatedStep DEF IInv, ProviderCurrent, Current
<1>4. ReadCurrent'
    BY DEF IInv, ReadCurrent, Listening, Current
<1>5. UnopenedEmpty'
    BY <1>1, PartActivatedStep DEF IInv, UnopenedEmpty, Listening
<1>6. HiddenEmpty'
    BY <1>1, PartActivatedStep DEF IInv, HiddenEmpty
<1>7. CacheOK(provider)'
    BY <1>1, PartActivatedStep
<1>8. Quiet'
    <2>1. PartIgnored(f) => provider' = provider /\ shown' = shown
        BY DEF PartIgnored
    <2>2. SameEditorActivated(f) \/ NewEditorActivated(f) => f \in DTFiles
        BY DEF SameEditorActivated, NewEditorActivated
    <2>3. phase = "live" /\ f \in DTFiles => shown' = TreeOf(provider'._content)
        BY <1>1, PartActivatedStep
    <2>4. Quiet
        BY DEF IInv
    <2> QED
        BY <2>1, <2>2, <2>3, <2>4 DEF Quiet, partActivated, TreeOf
<1> QED
    BY <1>2, <1>3, <1>4, <1>5, <1>6, <1>7, <1>8 DEF IInv

\* Opening the view: it has read the active editor's file or nothing.
LEMMA OpenIInv ==
    ASSUME IInv, OpenWithoutPart \/ OpenOnEditor \/ OpenFails
    PROVE  IInv'
PROOF
<1> DEFINE Fresh(c) == DeviceTreeContentProvider(c)
<1>1. TypeOK /\ WorkbenchTypeOK
    BY DEF IInv, TypeOK
<1>2. WorkbenchTypeOK' /\ UNCHANGED <<disk, notice, selection>>
    BY <1>1, OpeningType DEF OpenWithoutPart, OpenOnEditor, OpenFails
<1>3. ReadCurrent' /\ selection' \in [node : Texts, editor : Files] \cup {Null}
      /\ notice' \in [at : {"idle", "posted", "read"}, text : Texts \cup {Null}]
    <2>1. phase = "closed"
        BY DEF OpenWithoutPart, OpenOnEditor, OpenFails
    <2> QED
        BY <1>1, <1>2, <2>1 DEF IInv, ReadCurrent, Listening, TypeOK
<1>4. ASSUME OpenWithoutPart \/ OpenOnEditor
      PROVE  IInv'
    <2>1. PICK c \in Texts \cup {Null} :
                /\ c # Null => c.version = disk[c.file]
                /\ provider' = getElements(Fresh(c))
                /\ shown' = getElements(Fresh(c)).invisibleRoot
        <3>1. CASE OpenWithoutPart
            <4>1. Fresh(Null) \in Providers /\ Fresh(Null)._content = Null
                  /\ Fresh(Null).invisibleRoot = Null
                BY ProviderFresh
            <4>2. getElements(Fresh(Null)) = Fresh(Null)
                BY <4>1 DEF getElements
            <4> HIDE DEF Fresh
            <4>3. provider' = getElements(Fresh(Null)) /\ shown' = Null
                BY <3>1 DEF OpenWithoutPart, Fresh
            <4> QED
                BY <4>1, <4>2, <4>3
        <3>2. CASE OpenOnEditor
            <4>1. PICK c \in getDeviceTreeEditorContent(activeEditor, disk) :
                        /\ provider' = getElements(Fresh(c))
                        /\ shown' = getElements(Fresh(c)).invisibleRoot
                BY <3>2 DEF OpenOnEditor
            <4>2. disk \in [Files -> 0..MaxVersion] /\ activeEditor \in Files \cup {Null}
                BY <1>1 DEF WorkbenchTypeOK
            <4>3. c \in Texts \cup {Null} /\ (c # Null => c.version = disk[c.file])
                BY <4>2, ContentRead
            <4> QED
                BY <4>1, <4>3
        <3> QED
            BY <1>4, <3>1, <3>2
    <2>2. Fresh(c) \in Providers /\ Fresh(c)._content = c /\ CacheOK(Fresh(c))
        BY ProviderFresh DEF CacheOK
    <2> HIDE DEF Fresh
    <2>3. /\ provider' \in Providers
          /\ provider'._content = c
          /\ shown' = TreeOf(c)
          /\ CacheOK(provider)'
        BY <2>1, <2>2, ElementsBuilt DEF CacheOK, TreeOf
    <2>4. phase' = "live"
        BY <1>4 DEF OpenWithoutPart, OpenOnEditor
    <2>5. page' \in BOOLEAN
        BY <1>1, <1>4 DEF OpenWithoutPart, OpenOnEditor, TypeOK
    <2>6. currEditorName' \in Names \cup {Null}
        BY <1>1, <1>4 DEF OpenWithoutPart, OpenOnEditor, TypeOK, WorkbenchTypeOK, Names
    <2>7. TypeOK'
        BY <1>2, <1>3, <2>3, <2>4, <2>5, <2>6 DEF TypeOK, TreeOf
    <2>8. ProviderCurrent' /\ UnopenedEmpty' /\ HiddenEmpty'
        BY <1>2, <2>1, <2>3, <2>4
        DEF ProviderCurrent, Current, UnopenedEmpty, HiddenEmpty
    <2>9. Quiet'
        BY <1>2, <2>3, <2>4 DEF IInv, Quiet, TreeOf
    <2> QED
        BY <1>3, <2>3, <2>7, <2>8, <2>9 DEF IInv
<1>5. ASSUME OpenFails
      PROVE  IInv'
    <2>1. /\ phase = "closed" /\ phase' = "broken" /\ page' = TRUE
          /\ UNCHANGED <<currEditorName, provider, shown>>
        BY <1>5 DEF OpenFails
    <2>2. TypeOK'
        BY <1>1, <1>2, <1>3, <2>1 DEF TypeOK
    <2>3. ProviderCurrent' /\ UnopenedEmpty' /\ HiddenEmpty' /\ Quiet'
        BY <1>2, <2>1
        DEF IInv, ProviderCurrent, Current, UnopenedEmpty, HiddenEmpty, Quiet
    <2>4. CacheOK(provider)'
        BY <2>1 DEF IInv, CacheOK, TreeOf
    <2> QED
        BY <1>3, <2>2, <2>3, <2>4 DEF IInv
<1> QED
    BY <1>4, <1>5

\* Closing the view.
LEMMA CloseIInv ==
    ASSUME IInv, CloseView
    PROVE  IInv'
PROOF
<1>1. provider' = DeviceTreeContentProvider(Null) /\ shown' = Null /\ phase' = "disposed"
      /\ UNCHANGED <<disk, editors, activeEditor, activePart, page, currEditorName,
                     notice, selection>>
    BY DEF CloseView, wbVars
<1>2. provider' \in Providers /\ provider'._content = Null /\ provider'.invisibleRoot = Null
    BY <1>1, ProviderFresh
<1>3. TypeOK'
    <2>1. WorkbenchTypeOK'
        BY <1>1 DEF IInv, TypeOK, WorkbenchTypeOK
    <2> QED
        BY <1>1, <1>2, <2>1 DEF IInv, TypeOK
<1>4. ProviderCurrent' /\ UnopenedEmpty' /\ HiddenEmpty' /\ CacheOK(provider)' /\ Quiet'
    BY <1>1, <1>2
    DEF IInv, ProviderCurrent, Current, UnopenedEmpty, HiddenEmpty, CacheOK, Quiet
<1>5. ReadCurrent'
    BY <1>1 DEF IInv, ReadCurrent, Listening, Current
<1> QED
    BY <1>3, <1>4, <1>5 DEF IInv

\* A workspace change announced on the UI thread.
LEMMA ChangeInUIIInv ==
    ASSUME IInv, NEW f \in Files \cup {Null}, ChangeInUI(f)
    PROVE  IInv'
PROOF
<1>1. /\ notice.at = "idle" /\ WorkspaceChanged(f) /\ resourceChanged
      /\ UNCHANGED <<phase, page, currEditorName, notice, selection>>
    BY DEF ChangeInUI
<1>2. TypeOK /\ WorkbenchTypeOK
    BY DEF IInv, TypeOK
<1>3. WorkbenchTypeOK'
    BY <1>1, <1>2, ChangeType
<1>4. ReadCurrent'
    BY <1>1 DEF ReadCurrent, Listening
<1>5. CASE Listening
    <2>1. PICK c \in getDeviceTreeEditorContent(PageEditor, disk') : setContentProvider(c)
        BY <1>1, <1>5 DEF resourceChanged
    <2>2. disk' \in [Files -> 0..MaxVersion] /\ PageEditor \in Files \cup {Null}
        BY <1>2, <1>3 DEF WorkbenchTypeOK, PageEditor
    <2>3. c \in Texts \cup {Null} /\ (c # Null => c.version = disk'[c.file])
        BY <2>2, ContentRead
    <2>4. /\ provider' \in Providers
          /\ shown' \in Texts \cup {Null}
          /\ provider'._content = c
          /\ CacheOK(provider)'
          /\ phase = "live" => shown' = TreeOf(c)
          /\ phase # "live" => shown' = shown
        BY <1>2, <2>1, <2>3, SetProviderStep
    <2>5. TypeOK'
        BY <1>1, <1>2, <1>3, <2>4 DEF TypeOK
    <2>6. ProviderCurrent' /\ UnopenedEmpty'
        BY <1>1, <1>5, <2>3, <2>4 DEF ProviderCurrent, Current, UnopenedEmpty, Listening
    <2>7. HiddenEmpty' /\ Quiet'
        BY <1>1, <2>4 DEF IInv, HiddenEmpty, Quiet, TreeOf
    <2> QED
        BY <1>4, <2>4, <2>5, <2>6, <2>7 DEF IInv
<1>6. CASE ~Listening
    <2>1. UNCHANGED <<provider, shown>>
        BY <1>1, <1>6 DEF resourceChanged
    <2>2. phase \in {"closed", "broken"}
        BY <1>2, <1>6 DEF Listening, TypeOK
    <2>3. TypeOK'
        BY <1>1, <1>2, <1>3, <2>1 DEF TypeOK
    <2>4. ProviderCurrent' /\ UnopenedEmpty' /\ HiddenEmpty' /\ Quiet'
        BY <1>1, <2>1, <2>2
        DEF IInv, ProviderCurrent, Current, UnopenedEmpty, HiddenEmpty, Quiet
    <2>5. CacheOK(provider)'
        BY <2>1 DEF IInv, CacheOK, TreeOf
    <2> QED
        BY <1>4, <2>3, <2>4, <2>5 DEF IInv
<1> QED
    BY <1>5, <1>6

\* A workspace change made by a job, and the listener's two steps there.
LEMMA JobIInv ==
    ASSUME IInv,
           \/ \E f \in Files \cup {Null} : ChangeInBackground(f)
           \/ ListenerReads
           \/ ListenerSets
    PROVE  IInv'
PROOF
<1>1. TypeOK /\ WorkbenchTypeOK
    BY DEF IInv, TypeOK
<1>2. BackgroundChanges
    BY DEF IInv, Quiet, ChangeInBackground, ListenerReads, ListenerSets
<1>3. Quiet'
    BY <1>2 DEF Quiet
<1>4. ASSUME NEW f \in Files \cup {Null}, ChangeInBackground(f)
      PROVE  IInv'
    <2>1. /\ WorkspaceChanged(f)
          /\ notice' = [at |-> "posted", text |-> Null]
          /\ UNCHANGED <<phase, page, currEditorName, provider, shown, selection>>
        BY <1>4 DEF ChangeInBackground
    <2>2. TypeOK'
        <3>1. WorkbenchTypeOK'
            BY <1>1, <2>1, ChangeType
        <3> QED
            BY <1>1, <2>1, <3>1 DEF TypeOK
    <2>3. ProviderCurrent' /\ ReadCurrent' /\ UnopenedEmpty' /\ HiddenEmpty'
        BY <2>1 DEF IInv, ProviderCurrent, ReadCurrent, Listening, UnopenedEmpty, HiddenEmpty
    <2>4. CacheOK(provider)'
        BY <2>1 DEF IInv, CacheOK, TreeOf
    <2> QED
        BY <1>3, <2>2, <2>3, <2>4 DEF IInv
<1>5. ASSUME ListenerReads
      PROVE  IInv'
    <2>1. UNCHANGED <<disk, editors, activeEditor, activePart, phase, page,
                      currEditorName, provider, shown, selection>>
        BY <1>5 DEF ListenerReads, wbVars
    <2>2. PICK c \in Texts \cup {Null} :
            /\ c # Null => c.version = disk[c.file]
            /\ \/ notice' = [at |-> "read", text |-> c]
               \/ ~Listening /\ notice' = [at |-> "idle", text |-> Null]
        <3>1. disk \in [Files -> 0..MaxVersion] /\ PageEditor \in Files \cup {Null}
            BY <1>1 DEF WorkbenchTypeOK, PageEditor
        <3>2. \A c \in getDeviceTreeEditorContent(PageEditor, disk) :
                    c \in Texts \cup {Null} /\ (c # Null => c.version = disk[c.file])
            BY <3>1, ContentRead
        <3> QED
            BY <1>5, <3>2 DEF ListenerReads
    <2>3. TypeOK'
        <3>1. WorkbenchTypeOK'
            BY <1>1, <2>1 DEF WorkbenchTypeOK
        <3>2. notice' \in [at : {"idle", "posted", "read"}, text : Texts \cup {Null}]
            BY <2>2
        <3> QED
            BY <1>1, <2>1, <3>1, <3>2 DEF TypeOK
    <2>4. ReadCurrent'
        BY <1>5, <2>1, <2>2 DEF ReadCurrent, Listening, Current, ListenerReads
    <2>5. ProviderCurrent'
        BY <1>1, <2>1, <2>2
        DEF IInv, TypeOK, ProviderCurrent, Current, UnopenedEmpty, Listening
    <2>6. UnopenedEmpty' /\ HiddenEmpty'
        BY <2>1 DEF IInv, UnopenedEmpty, HiddenEmpty
    <2>7. CacheOK(provider)'
        BY <2>1 DEF IInv, CacheOK, TreeOf
    <2> QED
        BY <1>3, <2>3, <2>4, <2>5, <2>6, <2>7 DEF IInv
<1>6. ASSUME ListenerSets
      PROVE  IInv'
    <2>1. /\ notice.at = "read"
          /\ provider' = DeviceTreeContentProvider(notice.text)
          /\ notice' = [at |-> "idle", text |-> Null]
          /\ UNCHANGED <<disk, editors, activeEditor, activePart, phase, page,
                         currEditorName, shown, selection>>
        BY <1>6 DEF ListenerSets, setContentProviderOffThread, wbVars
    <2>2. notice.text \in Texts \cup {Null}
        BY <1>1 DEF TypeOK
    <2>3. provider' \in Providers /\ provider'._content = notice.text
          /\ provider'.invisibleRoot = Null
        BY <2>1, <2>2, ProviderFresh
    <2>4. TypeOK'
        <3>1. WorkbenchTypeOK'
            BY <1>1, <2>1 DEF WorkbenchTypeOK
        <3>2. notice' \in [at : {"idle", "posted", "read"}, text : Texts \cup {Null}]
            BY <2>1
        <3> QED
            BY <1>1, <2>1, <2>3, <3>1, <3>2 DEF TypeOK
    <2>5. ProviderCurrent' /\ ReadCurrent' /\ HiddenEmpty'
        BY <2>1, <2>3 DEF IInv, ProviderCurrent, ReadCurrent, Listening, Current, HiddenEmpty
    <2>6. UnopenedEmpty'
        BY <2>1 DEF IInv, UnopenedEmpty, ReadCurrent, Listening
    <2>7. CacheOK(provider)'
        BY <2>3 DEF CacheOK
    <2> QED
        BY <1>3, <2>4, <2>5, <2>6, <2>7 DEF IInv
<1> QED
    BY <1>4, <1>5, <1>6

\* Every step keeps the invariant.
LEMMA NextIInv ==
    ASSUME IInv, [Next]_vars
    PROVE  IInv'
PROOF
<1>1. TypeOK /\ WorkbenchTypeOK
    BY DEF IInv, TypeOK
<1>2. CASE OpenWithoutPart \/ OpenOnEditor \/ OpenFails
    BY <1>2, OpenIInv
<1>3. CASE CloseView
    BY <1>3, CloseIInv
<1>4. ASSUME NEW f \in Files, ActivateEditor(f)
      PROVE  IInv'
    <2>1. WorkbenchTypeOK' /\ disk' = disk
        BY <1>1, <1>4, ActivationType DEF ActivateEditor
    <2>2. partActivated(f) /\ UNCHANGED <<phase, notice, selection>>
        BY <1>4 DEF ActivateEditor
    <2> QED
        BY <1>1, <2>1, <2>2, PartEventIInv DEF TypeOK
<1>5. ASSUME UNCHANGED <<viewVars, disk>>, WorkbenchTypeOK'
      PROVE  IInv'
    <2>1. UNCHANGED <<disk, phase, page, currEditorName, provider, shown, notice, selection>>
        BY <1>5 DEF viewVars
    <2>2. TypeOK'
        BY <1>1, <1>5, <2>1 DEF TypeOK
    <2>3. ProviderCurrent' /\ ReadCurrent' /\ UnopenedEmpty' /\ HiddenEmpty'
        BY <2>1
        DEF IInv, ProviderCurrent, ReadCurrent, Current, Listening, UnopenedEmpty, HiddenEmpty
    <2>4. CacheOK(provider)' /\ Quiet'
        BY <2>1 DEF IInv, CacheOK, TreeOf, Quiet
    <2> QED
        BY <2>2, <2>3, <2>4 DEF IInv
<1>6. CASE ActivateView
    <2>1. ViewActivated /\ UNCHANGED viewVars
        BY <1>6 DEF ActivateView
    <2>2. UNCHANGED disk /\ WorkbenchTypeOK'
        BY <1>1, <2>1 DEF ViewActivated, WorkbenchTypeOK
    <2> QED
        BY <1>5, <2>1, <2>2
<1>7. ASSUME NEW f \in Files, NEW g \in Files, CloseActiveEditor(f, g)
      PROVE  IInv'
    <2>1. ActiveEditorClosed(f, g) /\ UNCHANGED <<phase, notice, selection>>
        BY <1>7 DEF CloseActiveEditor
    <2>2. WorkbenchTypeOK' /\ disk' = disk
        BY <1>1, <2>1, ClosingType
    <2>3. CASE activePart = "editor"
        BY <1>1, <1>7, <2>1, <2>2, <2>3, PartEventIInv DEF CloseActiveEditor, TypeOK
    <2>4. CASE activePart # "editor"
        BY <1>5, <1>7, <2>1, <2>2, <2>4 DEF CloseActiveEditor, viewVars
    <2> QED
        BY <2>3, <2>4
<1>8. ASSUME NEW f \in Files, CloseEditor(f)
      PROVE  IInv'
    <2>1. EditorClosed(f) /\ UNCHANGED viewVars
        BY <1>8 DEF CloseEditor
    <2>2. WorkbenchTypeOK' /\ disk' = disk
        BY <1>1, <2>1, ClosingType
    <2> QED
        BY <1>5, <2>1, <2>2
<1>9. ASSUME NEW f \in Files \cup {Null}, ChangeInUI(f)
      PROVE  IInv'
    BY <1>9, ChangeInUIIInv
<1>10. CASE (\E f \in Files \cup {Null} : ChangeInBackground(f)) \/ ListenerReads \/ ListenerSets
    BY <1>10, JobIInv
<1>11. CASE DoubleClick
    <2>1. activeEditor \in Files
        BY <1>1, <1>11 DEF DoubleClick, WorkbenchTypeOK
    <2>2. WorkbenchTypeOK' /\ disk' = disk
        BY <1>1, <1>11, <2>1, ActivationType DEF DoubleClick
    <2>3. partActivated(activeEditor) /\ UNCHANGED <<phase, notice>>
        BY <1>11 DEF DoubleClick
    <2>4. selection' \in [node : Texts, editor : Files] \cup {Null}
        BY <1>1, <1>11, <2>1 DEF DoubleClick, TypeOK
    <2> QED
        BY <2>1, <2>2, <2>3, <2>4, PartEventIInv
<1>12. CASE UNCHANGED vars
    <2>1. UNCHANGED <<viewVars, disk>>
        BY <1>12 DEF vars, wbVars
    <2>2. WorkbenchTypeOK'
        BY <1>1, <1>12 DEF vars, wbVars, WorkbenchTypeOK
    <2> QED
        BY <1>5, <2>1, <2>2
<1> QED
    BY <1>2, <1>3, <1>4, <1>6, <1>7, <1>8, <1>9, <1>10, <1>11, <1>12 DEF Next

LEMMA IInvHolds == Spec => []IInv
PROOF
<1>1. Init => IInv
    BY InitIInv
<1>2. IInv /\ [Next]_vars => IInv'
    BY NextIInv
<1> QED
    BY <1>1, <1>2, PTL DEF Spec

-----------------------------------------------------------------------------
(* The theorems *)

\* The fields of the view, its provider and the widget always have their
\* types, whatever is opened, saved, closed or announced, in any order.
THEOREM TypeCorrect == Spec => []TypeOK
PROOF
<1>1. IInv => TypeOK
    BY DEF IInv
<1> QED
    BY <1>1, IInvHolds, PTL

\* Once a workspace change has been announced by resourceChanged, on the UI
\* thread or in a job, the view holds no outdated version of its file.
THEOREM ProviderStaysCurrent == Spec => []ProviderCurrent
PROOF
<1>1. IInv => ProviderCurrent
    BY DEF IInv
<1> QED
    BY <1>1, IInvHolds, PTL

\* When no job changes the workspace, what the widget shows was built from
\* the saved version of its file, through every cache in between.
THEOREM WidgetStaysCurrent == Spec => []WidgetCurrent
PROOF
<1>1. IInv => WidgetCurrent
    <2> SUFFICES ASSUME IInv, ~BackgroundChanges
                 PROVE  /\ Current(shown)
                        /\ phase = "live" => shown = TreeOf(provider._content)
        BY DEF WidgetCurrent
    <2>1. phase = "live" => shown = TreeOf(provider._content)
        BY DEF IInv, Quiet
    <2>2. Current(provider._content)
        BY DEF IInv, Quiet, ProviderCurrent
    <2>3. phase # "live" => shown = Null
        BY DEF IInv, HiddenEmpty
    <2> QED
        BY <2>1, <2>2, <2>3 DEF Current, TreeOf
<1> QED
    BY <1>1, IInvHolds, PTL

\* The refresh in partActivated repairs the widget: after any activation of a
\* device tree editor it shows what the provider holds.
THEOREM ActivationAlwaysRepairs == Spec => ActivationRepairs
PROOF
<1> DEFINE A == /\ phase = "live" /\ activePart' = "editor" /\ activeEditor' \in DTFiles
                /\ <<activePart, activeEditor>>' # <<activePart, activeEditor>>
                => shown' = TreeOf(provider'._content)
<1>1. ASSUME IInv, [Next]_vars
      PROVE  [A]_vars
    <2>1. TypeOK /\ CacheOK(provider) /\ WorkbenchTypeOK
        BY <1>1 DEF IInv, TypeOK
    <2> SUFFICES ASSUME Next, phase = "live", activePart' = "editor",
                        activeEditor' \in DTFiles,
                        <<activePart, activeEditor>>' # <<activePart, activeEditor>>
                 PROVE  shown' = TreeOf(provider'._content)
        BY <1>1
    <2>2. ASSUME NEW f \in Files, partActivated(f), f \in DTFiles
          PROVE  shown' = TreeOf(provider'._content)
        BY <2>1, <2>2, PartActivatedStep
    <2>3. DTFiles \subseteq Files
        BY WorkbenchAssumption
    <2>4. ASSUME NEW f \in Files, ActivateEditor(f)
          PROVE  shown' = TreeOf(provider'._content)
        BY <2>2, <2>4 DEF ActivateEditor, EditorActivated
    <2>5. ASSUME NEW f \in Files, NEW g \in Files, CloseActiveEditor(f, g)
          PROVE  shown' = TreeOf(provider'._content)
        BY <2>2, <2>5 DEF CloseActiveEditor, ActiveEditorClosed
    <2>6. CASE DoubleClick
        BY <2>2, <2>3, <2>6 DEF DoubleClick, EditorActivated
    <2>7. ASSUME NEW f \in Files, CloseEditor(f)
          PROVE  FALSE
        BY <2>1, <2>7 DEF CloseEditor, EditorClosed, WorkbenchTypeOK
    <2>8. ASSUME \/ OpenWithoutPart \/ OpenOnEditor \/ OpenFails \/ CloseView \/ ActivateView
                 \/ \E f \in Files \cup {Null} : ChangeInUI(f) \/ ChangeInBackground(f)
                 \/ ListenerReads \/ ListenerSets
          PROVE  FALSE
        BY <2>8 DEF OpenWithoutPart, OpenOnEditor, OpenFails, CloseView, ActivateView,
                    ViewActivated, ChangeInUI, ChangeInBackground, WorkspaceChanged,
                    ListenerReads, ListenerSets, wbVars
    <2> QED
        BY <2>4, <2>5, <2>6, <2>7, <2>8 DEF Next
<1>2. IInv /\ [Next]_vars => [A]_vars
    BY <1>1
<1> QED
    BY <1>2, IInvHolds, PTL DEF Spec, ActivationRepairs

-----------------------------------------------------------------------------
(* When the view follows the right file *)

\* A session in which only device tree editors are used, on files whose names
\* differ, no editor is closed and no job changes the workspace.  Without any
\* one of the four RightFile is false: the runs tree_samename, tree_reopened
\* and tree_job show three of them, and a change announced with an editor of
\* another kind in front misleads the view as one with no editor does.
Tracked ==
    /\ DTFiles = Files
    /\ \A f, g \in Files : NameOf[f] = NameOf[g] => f = g
    /\ Closable = {}
    /\ ~BackgroundChanges

\* currEditorName and the provider follow the page's active editor e.
Follows(e) ==
    /\ page
    /\ currEditorName = NameOf[e]
    /\ provider._content \in getDeviceTreeEditorContent(e, disk)

\* A live view follows the active editor even while a view is in front, and
\* the field page is set, and the provider given a content, only when there
\* is such an editor.
TrackInv ==
    /\ activePart = "none" => activeEditor = Null
    /\ phase = "live" /\ activeEditor # Null => Follows(activeEditor)
    /\ phase = "live" /\ activeEditor = Null => ~page /\ provider._content = Null
    /\ phase = "closed" => ~page

\* After partActivated(f) on a live view that follows the active editor, the
\* view follows f.
LEMMA PartActivatedFollows ==
    ASSUME Tracked, IInv, TrackInv, NEW f \in Files, partActivated(f),
           phase = "live", disk' = disk
    PROVE  Follows(f)'
PROOF
<1>1. TypeOK /\ CacheOK(provider)
    BY DEF IInv
<1>2. Listening /\ f \in DTFiles
    BY DEF Listening, Tracked
<1>3. CASE PartIgnored(f)
    BY <1>2, <1>3 DEF PartIgnored
<1>4. CASE SameEditorActivated(f)
    <2>1. page /\ currEditorName = NameOf[f] /\ refresh(provider)
          /\ UNCHANGED <<page, currEditorName>>
        BY <1>4 DEF SameEditorActivated
    <2>2. provider \in Providers
        BY <1>1 DEF TypeOK
    <2>3. provider'._content = provider._content
        BY <1>1, <2>1, <2>2, RefreshStep
    <2>4. activeEditor # Null /\ activeEditor \in Files
        BY <1>1, <2>1 DEF TrackInv, TypeOK, WorkbenchTypeOK
    <2>5. Follows(activeEditor)
        BY <2>4 DEF TrackInv
    <2>6. f = activeEditor
        BY <2>1, <2>4, <2>5 DEF Follows, Tracked
    <2> QED
        BY <2>1, <2>3, <2>5, <2>6 DEF Follows, getDeviceTreeEditorContent
<1>5. CASE NewEditorActivated(f)
    <2>1. page' = TRUE /\ currEditorName' = NameOf[f]
        BY <1>5 DEF NewEditorActivated
    <2>2. PICK c \in getDeviceTreeEditorContent(f, disk) : setContentProvider(c)
        BY <1>5 DEF NewEditorActivated
    <2>3. disk \in [Files -> 0..MaxVersion] /\ f \in Files \cup {Null}
        BY <1>1 DEF TypeOK, WorkbenchTypeOK
    <2>4. c \in Texts \cup {Null}
        BY <2>3, ContentRead
    <2>5. provider'._content = c
        BY <1>1, <2>2, <2>4, SetProviderStep
    <2> QED
        BY <2>1, <2>2, <2>5 DEF Follows, getDeviceTreeEditorContent
<1> QED
    BY <1>3, <1>4, <1>5 DEF partActivated

LEMMA InitTrack == Init => TrackInv
PROOF
    BY DEF Init, WorkbenchInit, TrackInv

LEMMA NextTrack ==
    ASSUME Tracked, IInv, TrackInv, [Next]_vars
    PROVE  TrackInv'
PROOF
<1>1. TypeOK /\ WorkbenchTypeOK /\ notice.at = "idle"
    BY DEF IInv, TypeOK, Quiet, Tracked
<1>2. CASE OpenWithoutPart
    <2>1. activeEditor = Null /\ ~page
        BY <1>2 DEF OpenWithoutPart, TrackInv
    <2>2. phase' = "live" /\ activePart' = "view" /\ UNCHANGED <<activeEditor, page>>
        BY <1>2 DEF OpenWithoutPart
    <2>3. provider'._content = Null
        BY <1>2, ProviderFresh, ElementsBuilt DEF OpenWithoutPart
    <2> QED
        BY <2>1, <2>2, <2>3 DEF TrackInv
<1>3. CASE OpenOnEditor
    <2>1. /\ activeEditor # Null /\ activeEditor' = activeEditor /\ disk' = disk
          /\ phase' = "live" /\ activePart' = "view"
          /\ page' = TRUE /\ currEditorName' = NameOf[activeEditor]
        BY <1>3 DEF OpenOnEditor
    <2>2. PICK c \in getDeviceTreeEditorContent(activeEditor, disk) :
                provider' = getElements(DeviceTreeContentProvider(c))
        BY <1>3 DEF OpenOnEditor
    <2>3. disk \in [Files -> 0..MaxVersion] /\ activeEditor \in Files \cup {Null}
        BY <1>1 DEF WorkbenchTypeOK
    <2>4. c \in Texts \cup {Null}
        BY <2>3, ContentRead
    <2>5. provider'._content = c
        BY <2>2, <2>4, ProviderFresh, ElementsBuilt
    <2>6. Follows(activeEditor)'
        BY <2>1, <2>2, <2>5 DEF Follows, getDeviceTreeEditorContent
    <2> QED
        BY <2>1, <2>6 DEF TrackInv
<1>4. CASE OpenFails
    BY <1>4 DEF OpenFails, TrackInv
<1>5. CASE CloseView
    BY <1>5 DEF CloseView, TrackInv, wbVars
<1>6. ASSUME NEW f \in Files, EditorActivated(f), partActivated(f), phase' = phase
      PROVE  TrackInv'
    <2>1. activeEditor' = f /\ activePart' = "editor" /\ disk' = disk /\ f # Null
        BY <1>6, WorkbenchAssumption DEF EditorActivated
    <2>2. phase = "live" => Follows(activeEditor)'
        BY <1>6, <2>1, PartActivatedFollows DEF Follows
    <2>3. phase = "closed" => UNCHANGED page
        BY <1>6 DEF partActivated, PartIgnored, SameEditorActivated, NewEditorActivated, Listening
    <2> QED
        BY <1>6, <2>1, <2>2, <2>3 DEF TrackInv
<1>7. ASSUME UNCHANGED <<viewVars, disk, activeEditor>>,
             activePart' = activePart \/ activePart' = "view"
      PROVE  TrackInv'
    BY <1>7 DEF TrackInv, Follows, viewVars, getDeviceTreeEditorContent
<1>8. CASE ActivateView
    BY <1>7, <1>8 DEF ActivateView, ViewActivated
<1>9. ASSUME NEW f \in Files,
             CloseEditor(f) \/ (\E g \in Files : CloseActiveEditor(f, g))
      PROVE  FALSE
    BY <1>9 DEF CloseEditor, EditorClosed, CloseActiveEditor, ActiveEditorClosed, Tracked
<1>10. ASSUME NEW f \in Files \cup {Null}, ChangeInUI(f)
       PROVE  TrackInv'
    <2>1. /\ WorkspaceChanged(f) /\ resourceChanged
          /\ UNCHANGED <<phase, page, currEditorName>>
        BY <1>10 DEF ChangeInUI
    <2>2. WorkbenchTypeOK' /\ UNCHANGED <<activeEditor, activePart>>
        BY <1>1, <2>1, ChangeType
    <2>3. ASSUME phase = "live", activeEditor # Null
          PROVE  Follows(activeEditor)'
        <3>1. page /\ currEditorName = NameOf[activeEditor]
            BY <2>3 DEF TrackInv, Follows
        <3>2. PICK c \in getDeviceTreeEditorContent(activeEditor, disk') :
                    setContentProvider(c)
            BY <2>1, <2>3, <3>1 DEF resourceChanged, PageEditor, Listening
        <3>3. disk' \in [Files -> 0..MaxVersion] /\ activeEditor \in Files \cup {Null}
            BY <1>1, <2>2 DEF WorkbenchTypeOK
        <3>4. c \in Texts \cup {Null}
            BY <3>3, ContentRead
        <3>5. provider'._content = c
            BY <1>1, <3>2, <3>4, SetProviderStep
        <3> QED
            BY <2>1, <2>2, <3>1, <3>2, <3>5 DEF Follows, getDeviceTreeEditorContent
    <2>4. ASSUME phase = "live", activeEditor = Null
          PROVE  ~page' /\ provider'._content = Null
        <3>1. ~page
            BY <2>4 DEF TrackInv
        <3>2. setContentProvider(Null)
            BY <2>1, <2>4, <3>1
            DEF resourceChanged, PageEditor, Listening, getDeviceTreeEditorContent
        <3> QED
            BY <1>1, <2>1, <3>1, <3>2, SetProviderStep
    <2> QED
        BY <2>1, <2>2, <2>3, <2>4 DEF TrackInv
<1>11. ASSUME \/ \E f \in Files \cup {Null} : ChangeInBackground(f)
              \/ ListenerReads \/ ListenerSets
       PROVE  FALSE
    BY <1>1, <1>11 DEF ChangeInBackground, ListenerReads, ListenerSets, Tracked
<1>12. ASSUME NEW f \in Files, ActivateEditor(f)
       PROVE  TrackInv'
    BY <1>6, <1>12 DEF ActivateEditor
<1>13. CASE DoubleClick
    <2>1. activeEditor \in Files
        BY <1>1, <1>13 DEF DoubleClick, WorkbenchTypeOK
    <2> QED
        BY <1>6, <1>13, <2>1 DEF DoubleClick
<1>14. CASE UNCHANGED vars
    BY <1>7, <1>14 DEF vars, wbVars
<1> QED
    BY <1>2, <1>3, <1>4, <1>5, <1>8, <1>9, <1>10, <1>11, <1>12, <1>13, <1>14 DEF Next

\* In such a session partActivated's name check is right: with a device tree
\* editor in front, the view holds what reading that editor's file gives.
THEOREM TrackedRightFile ==
    ASSUME Tracked
    PROVE  Spec => []RightFile
PROOF
<1>1. Init => TrackInv
    BY InitTrack
<1>2. IInv /\ TrackInv /\ [Next]_vars => TrackInv'
    BY NextTrack
<1>3. IInv /\ TrackInv => RightFile
    <2> SUFFICES ASSUME TrackInv, phase = "live", activeEditor \in DTFiles
                 PROVE  provider._content \in getDeviceTreeEditorContent(activeEditor, disk)
        BY DEF RightFile
    <2>1. activeEditor # Null
        BY WorkbenchAssumption
    <2> QED
        BY <2>1 DEF TrackInv, Follows
<1> QED
    BY <1>1, <1>2, <1>3, IInvHolds, PTL DEF Spec

\* And navigateToLine selects only ranges of the text the editor it reveals
\* has on disk.
THEOREM TrackedRevealsOwnText ==
    ASSUME Tracked
    PROVE  Spec => RevealsOwnText
PROOF
<1> DEFINE A == selection' # selection =>
                    selection'.node = Text(selection'.editor, disk[selection'.editor])
<1>1. Init => TrackInv
    BY InitTrack
<1>2. IInv /\ TrackInv /\ [Next]_vars => TrackInv'
    BY NextTrack
<1>3. ASSUME IInv, TrackInv, [Next]_vars
      PROVE  [A]_vars
    <2>1. ASSUME DoubleClick
          PROVE  A
        <3>1. /\ phase = "live" /\ shown # Null /\ activeEditor # Null
              /\ selection' = [node |-> shown, editor |-> activeEditor]
            BY <2>1 DEF DoubleClick
        <3>2. shown = TreeOf(provider._content)
            BY <1>3, <3>1 DEF IInv, Quiet, Tracked
        <3>3. shown = provider._content
            BY <3>1, <3>2 DEF TreeOf
        <3>4. provider._content \in getDeviceTreeEditorContent(activeEditor, disk)
            BY <1>3, <3>1 DEF TrackInv, Follows
        <3>5. shown = Text(activeEditor, disk[activeEditor])
            BY <3>1, <3>3, <3>4, WorkbenchAssumption DEF getDeviceTreeEditorContent
        <3> QED
            BY <3>1, <3>5
    <2>2. Next /\ ~DoubleClick => UNCHANGED selection
        BY DEF Next, OpenWithoutPart, OpenOnEditor, OpenFails, CloseView, ActivateEditor,
               ActivateView, CloseActiveEditor, CloseEditor, ChangeInUI, ChangeInBackground,
               ListenerReads, ListenerSets, viewVars
    <2> QED
        BY <1>3, <2>1, <2>2
<1>4. IInv /\ TrackInv /\ [Next]_vars => [A]_vars
    BY <1>3
<1> QED
    BY <1>1, <1>2, <1>4, IInvHolds, PTL DEF Spec, RevealsOwnText

-----------------------------------------------------------------------------
(* The view implements FollowView *)

\* What the abstract view shows, in the variables of this one.
ShowsFront ==
    IF phase = "live" THEN shown \in Following!Trees(activeEditor, disk) ELSE shown = Null

\* The tree of a text that was read is one of the trees of that reading.
LEMMA TreeOfReading ==
    ASSUME NEW d, NEW e \in Files \cup {Null},
           NEW c \in getDeviceTreeEditorContent(e, d)
    PROVE  TreeOf(c) \in Following!Trees(e, d)
PROOF
<1>1. Null \notin Malformed
    BY DeviceTreeViewAssumption, TextAssumption
<1>2. CASE c = Null
    BY <1>1, <1>2, WorkbenchAssumption
    DEF TreeOf, getDeviceTreeEditorContent, Following!Trees, Text
<1>3. CASE c # Null
    BY <1>3, WorkbenchAssumption
    DEF TreeOf, getDeviceTreeEditorContent, Following!Trees, Text
<1> QED
    BY <1>2, <1>3

LEMMA TrackedShows ==
    ASSUME Tracked, IInv, TrackInv
    PROVE  ShowsFront
PROOF
<1>1. TypeOK /\ WorkbenchTypeOK
    BY DEF IInv, TypeOK
<1>2. CASE phase # "live"
    BY <1>2 DEF IInv, HiddenEmpty, ShowsFront
<1>3. CASE phase = "live"
    <2>1. shown = TreeOf(provider._content)
        BY <1>3 DEF IInv, Quiet, Tracked
    <2>2. activeEditor \in Files \cup {Null}
        BY <1>1 DEF WorkbenchTypeOK
    <2>3. provider._content \in getDeviceTreeEditorContent(activeEditor, disk)
        BY <1>3, WorkbenchAssumption DEF TrackInv, Follows, getDeviceTreeEditorContent
    <2> QED
        BY <1>3, <2>1, <2>2, <2>3, TreeOfReading DEF ShowsFront
<1> QED
    BY <1>2, <1>3

\* The editor in front is activated again: the widget stays as it is.
LEMMA SameEditorStutters ==
    ASSUME Tracked, IInv, TrackInv, activeEditor \in Files, partActivated(activeEditor)
    PROVE  shown' = shown
PROOF
<1>1. TypeOK /\ CacheOK(provider) /\ provider \in Providers
    BY DEF IInv, TypeOK
<1>2. CASE phase # "live"
    BY <1>1, <1>2, PartActivatedStep
<1>3. CASE phase = "live"
    <2>1. page /\ currEditorName = NameOf[activeEditor]
        BY <1>3, WorkbenchAssumption DEF TrackInv, Follows
    <2>2. refresh(provider)
        BY <1>3, <2>1
        DEF partActivated, PartIgnored, SameEditorActivated, NewEditorActivated, Listening, Tracked
    <2>3. shown = TreeOf(provider._content)
        BY <1>3 DEF IInv, Quiet, Tracked
    <2> QED
        BY <1>1, <1>3, <2>2, <2>3, RefreshStep
<1> QED
    BY <1>2, <1>3

\* Each step of the view is a step of the abstract one, or none.
LEMMA StepFollows ==
    ASSUME Tracked, IInv, TrackInv, ShowsFront', [Next]_vars
    PROVE  [Following!Next]_Following!vars
PROOF
<1>1. TypeOK /\ WorkbenchTypeOK /\ notice.at = "idle"
    BY DEF IInv, TypeOK, Quiet, Tracked
<1>2. Following!Show
    BY DEF ShowsFront, Following!Show
<1>3. CASE OpenWithoutPart \/ OpenOnEditor
    <2>1. phase # "live" /\ phase' = "live" /\ UNCHANGED <<disk, activeEditor>>
        BY <1>3 DEF OpenWithoutPart, OpenOnEditor
    <2> QED
        BY <1>2, <2>1 DEF Following!Next, Following!OpenView
<1>4. CASE OpenFails
    BY <1>4 DEF OpenFails, Following!vars
<1>5. CASE CloseView
    <2>1. phase = "live" /\ phase' # "live" /\ UNCHANGED <<disk, activeEditor>>
        BY <1>5 DEF CloseView, wbVars
    <2> QED
        BY <1>2, <2>1 DEF Following!Next, Following!CloseView
<1>6. ASSUME NEW f \in Files, EditorActivated(f), partActivated(f), phase' = phase
      PROVE  [Following!Next]_Following!vars
    <2>1. activeEditor' = f /\ disk' = disk
        BY <1>6 DEF EditorActivated
    <2>2. CASE f = activeEditor
        <3>1. shown' = shown
            BY <1>6, <2>2, SameEditorStutters
        <3> QED
            BY <1>6, <2>1, <2>2, <3>1 DEF Following!vars
    <2>3. CASE f # activeEditor
        <3>1. Following!Turn(f)
            BY <1>2, <1>6, <2>1, <2>3 DEF Following!Turn
        <3> QED
            BY <3>1 DEF Following!Next
    <2> QED
        BY <2>2, <2>3
<1>7. ASSUME NEW f \in Files, ActivateEditor(f)
      PROVE  [Following!Next]_Following!vars
    BY <1>6, <1>7 DEF ActivateEditor
<1>8. CASE DoubleClick
    <2>1. activeEditor \in Files
        BY <1>1, <1>8 DEF DoubleClick, WorkbenchTypeOK
    <2> QED
        BY <1>6, <1>8, <2>1 DEF DoubleClick
<1>9. CASE ActivateView
    BY <1>9 DEF ActivateView, ViewActivated, viewVars, Following!vars
<1>10. ASSUME NEW f \in Files \cup {Null}, ChangeInUI(f)
       PROVE  [Following!Next]_Following!vars
    <2>1. WorkspaceChanged(f) /\ phase' = phase
        BY <1>10 DEF ChangeInUI
    <2>2. /\ f \in (Files \ ExternalFiles) \cup {Null}
          /\ IF f = Null THEN UNCHANGED disk ELSE disk' = [disk EXCEPT ![f] = @ + 1]
          /\ activeEditor' = activeEditor
        BY <2>1, WorkbenchAssumption DEF WorkspaceChanged
    <2>3. Following!Change(f)
        BY <1>2, <2>1, <2>2 DEF Following!Change
    <2> QED
        BY <2>2, <2>3 DEF Following!Next
<1>11. ASSUME NEW f \in Files,
              CloseEditor(f) \/ (\E g \in Files : CloseActiveEditor(f, g))
       PROVE  FALSE
    BY <1>11 DEF CloseEditor, EditorClosed, CloseActiveEditor, ActiveEditorClosed, Tracked
<1>12. ASSUME \/ \E f \in Files \cup {Null} : ChangeInBackground(f)
              \/ ListenerReads \/ ListenerSets
       PROVE  FALSE
    BY <1>1, <1>12 DEF ChangeInBackground, ListenerReads, ListenerSets, Tracked
<1>13. CASE UNCHANGED vars
    BY <1>13 DEF vars, wbVars, viewVars, Following!vars
<1> QED
    BY <1>3, <1>4, <1>5, <1>7, <1>8, <1>9, <1>10, <1>11, <1>12, <1>13 DEF Next

\* In a tracked session the view, with its name check, its cached tree and
\* its two listeners, implements FollowView: partActivated and resourceChanged
\* keep the widget on the tree of the saved file of the editor in front.
THEOREM TrackedFollowsEditor ==
    ASSUME Tracked
    PROVE  Spec => FollowsEditor
PROOF
<1>1. Init => TrackInv
    BY InitTrack
<1>2. IInv /\ TrackInv /\ [Next]_vars => TrackInv'
    BY NextTrack
<1>3. IInv /\ TrackInv => ShowsFront
    BY TrackedShows
<1>4. Init => Following!Init
    BY DEF Init, WorkbenchInit, Following!Init
<1>5. IInv /\ TrackInv /\ ShowsFront' /\ [Next]_vars => [Following!Next]_Following!vars
    BY StepFollows
<1> QED
    BY <1>1, <1>2, <1>3, <1>4, <1>5, IInvHolds, PTL DEF Spec, FollowsEditor, Following!Spec

=============================================================================
