--------------------------- MODULE RenderPathProofs ---------------------------
(***************************************************************************)
(* Whose pictures are rendered, which ones and in which order, that the    *)
(* graphs that name them can be executed, and what lengths and canvases    *)
(* the adapters choose: for any number of jobs, attempts, file names and   *)
(* requests.                                                               *)
(***************************************************************************)
EXTENDS GraphProofs

-----------------------------------------------------------------------------
(* Lists of pictures.  What the invariants say of a list is that its file   *)
(* names come from a set: it is a member of Seq(Role \X S).                 *)

LEMMA OneRole ==
    ASSUME NEW S, NEW names \in Seq(S), NEW role \in Role
    PROVE  Of(role, names) \in Seq(Role \X S)
<1>1. Len(names) \in Nat /\ \A k \in 1 .. Len(names) : names[k] \in S
  BY LenProperties, ElementOfSeq
<1>2. Of(role, names) \in [1 .. Len(names) -> Role \X S]
  BY <1>1 DEF Of
<1> QED
  BY <1>1, <1>2, SeqDef

LEMMA OneName ==
    ASSUME NEW S, NEW name, name # NoName => name \in S
    PROVE  Option(name) \in Seq(S)
BY DEF Option

LEMMA FewerNames ==
    ASSUME NEW S, NEW T, S \subseteq T, NEW files \in Seq(Role \X S)
    PROVE  files \in Seq(Role \X T)
<1>1. Role \X S \subseteq Role \X T
  OBVIOUS
<1> QED
  BY <1>1, SeqMonotonic

LEMMA RequestType ==
    ASSUME NEW r \in Requests
    PROVE  /\ r.route \in {"multipart", "json"}
           /\ r.workflow \in {FL2VA, R2V, Multishot}
           /\ r.first \in Names \cup {NoName} /\ r.last \in Names \cup {NoName}
           /\ r.start \in Names \cup {NoName} /\ r.refs \in Seq(Names)
           /\ r.half \in Nat /\ r.shot \in Nat \cup {Unset}
           /\ r.width \in Nat \cup {Unset} /\ r.height \in Nat \cup {Unset}
           /\ r.route = "multipart" => r.workflow = FL2VA /\ r.first # NoName
BY DEF Requests

\* The list _submit works through names pictures.
LEMMA FilesOfType ==
    ASSUME NEW r \in Requests
    PROVE  FilesOf(r) \in Seq(Picture)
<1>1. /\ Of("first", Option(r.first)) \in Seq(Picture)
      /\ Of("last", Option(r.last)) \in Seq(Picture)
      /\ Of("start", Option(r.start)) \in Seq(Picture)
      /\ Of("ref", r.refs) \in Seq(Picture)
  <2>1. /\ Option(r.first) \in Seq(Names) /\ Option(r.last) \in Seq(Names)
        /\ Option(r.start) \in Seq(Names) /\ r.refs \in Seq(Names)
    BY RequestType, OneName
  <2>2. {"first", "last", "start", "ref"} \subseteq Role
    BY DEF Role
  <2> QED
    BY <2>1, <2>2, OneRole DEF Picture
<1>2. \A s, t \in Seq(Picture) : s \o t \in Seq(Picture)
  BY ConcatProperties
<1>3. <<>> \in Seq(Picture)
  OBVIOUS
<1>4. r.workflow \in {FL2VA, R2V, Multishot}
  BY RequestType
<1> QED
  BY <1>1, <1>2, <1>3, <1>4 DEF FilesOf, FL2VA, R2V, Multishot

\* The files of a multipart job are the ones its client uploads.
LEMMA FilesOfClient ==
    ASSUME NEW j \in Jobs, request[j] \in Requests, request[j].route = "multipart"
    PROVE  FilesOf(request[j]) \in Seq(Role \X Uploads(j))
<1> DEFINE r == request[j]
<1>1. /\ r.first # NoName => r.first \in Uploads(j)
      /\ r.last # NoName => r.last \in Uploads(j)
  BY DEF Uploads
<1>2. {"first", "last"} \subseteq Role
  BY DEF Role
<1>3. /\ Of("first", Option(r.first)) \in Seq(Role \X Uploads(j))
      /\ Of("last", Option(r.last)) \in Seq(Role \X Uploads(j))
  BY <1>1, <1>2, OneName, OneRole
<1>4. Of("first", Option(r.first)) \o Of("last", Option(r.last)) \in Seq(Role \X Uploads(j))
  BY <1>3, ConcatProperties
<1>5. r.workflow = FL2VA
  BY RequestType
<1>6. FilesOf(r) = Of("first", Option(r.first)) \o Of("last", Option(r.last)) \o <<>>
  BY <1>5 DEF FilesOf, FL2VA, R2V, Multishot
<1> QED
  BY <1>4, <1>6, ConcatEmptySeq

LEMMA CompletedNames ==
    ASSUME NEW S, NEW r, NEW files \in Seq(Role \X S)
    PROVE  Completed(r, files) \in Seq(Role \X S)
<1>1. CASE Len(files) = 1
  <2>1. files[1] \in Role \X S
    BY <1>1, ElementOfSeq
  <2>2. <<"last", files[1][2]>> \in Role \X S
    BY <2>1 DEF Role
  <2> QED
    BY <2>2, AppendProperties DEF Completed
<1>2. CASE Len(files) # 1
  BY <1>2 DEF Completed
<1> QED
  BY <1>1, <1>2

-----------------------------------------------------------------------------
(* Type correctness.                                                       *)

\* What a job has done says something about its request and its attempts.
ShapeOK ==
    /\ \A j \in Jobs :
          /\ request[j] = NoRequest \/ request[j] \in Requests
          /\ phase[j] # "none" => request[j] \in Requests
          /\ phase[j] = "saving" => request[j].route = "multipart" /\ request[j].last # NoName
          /\ phase[j] \in {"none", "saving", "saved"} => tries[j] = 0
          /\ phase[j] = "QUEUED" => tries[j] < MaxTries
          /\ phase[j] \in {"STARTING", "RUNNING"} => tries[j] \in Tries
    /\ sjob # 0 => phase[sjob] = "STARTING"

TypeInv == RenderPathTypeOK /\ ShapeOK

LEMMA TypeInvInit == Init => TypeInv
<1> SUFFICES ASSUME Init PROVE TypeInv
  OBVIOUS
<1> USE RenderPathAssumption
<1>1. RenderPathTypeOK
  <2>1. /\ todo \in Seq(Picture) /\ staged \in Seq(Picture)
        /\ left \in [Renders -> Seq(Picture)] /\ pics \in [Renders -> Seq(Picture)]
        /\ prompt \in [Renders -> Seq(Seq(Picture))]
    BY EmptySeq DEF Init, NoPrompt
  <2>2. uploads \in [Names -> Writers] /\ inputs \in [Names -> Writers]
    BY DEF Init, Writers, NoFile, Earlier
  <2> QED
    BY <2>1, <2>2 DEF Init, RenderPathTypeOK, Phase, Writers, NoFile, NotRendered
<1>2. ShapeOK
  BY DEF Init, ShapeOK
<1> QED
  BY <1>1, <1>2 DEF TypeInv

\* The end of an attempt.
LEMMA OverType ==
    ASSUME TypeInv, NEW j \in Jobs, phase[j] \in {"STARTING", "RUNNING"}, Over(j)
    PROVE  \E p \in {"ended", "QUEUED"} :
              phase' = [phase EXCEPT ![j] = p] /\ (p = "QUEUED" => tries[j] < MaxTries)
BY DEF Over

\* A step that moves one job and leaves requests and attempts alone.
LEMMA PhaseStep ==
    ASSUME TypeInv, NEW j \in Jobs, NEW p \in Phase,
           phase' = [phase EXCEPT ![j] = p],
           UNCHANGED <<request, tries>>,
           sjob' = 0 \/ (sjob' = sjob /\ sjob # j),
           request[j] \in Requests,
           p # "none",
           p = "saving" => request[j].route = "multipart" /\ request[j].last # NoName,
           p \in {"saving", "saved"} => tries[j] = 0,
           p = "QUEUED" => tries[j] < MaxTries,
           p \in {"STARTING", "RUNNING"} => tries[j] \in Tries
    PROVE  phase' \in [Jobs -> Phase] /\ ShapeOK'
<1> USE DEF TypeInv, RenderPathTypeOK
<1>1. phase' \in [Jobs -> Phase] /\ phase'[j] = p /\ \A i \in Jobs \ {j} : phase'[i] = phase[i]
  OBVIOUS
<1>2. sjob' # 0 => phase'[sjob'] = "STARTING"
  BY <1>1 DEF ShapeOK
<1> QED
  BY <1>1, <1>2 DEF ShapeOK

LEMMA TypeInvStep ==
    ASSUME TypeInv, [Next]_vars
    PROVE  TypeInv'
<1> USE RenderPathAssumption DEF TypeInv, RenderPathTypeOK
<1>w. /\ \A j \in Jobs : j \in Writers
      /\ Jobs \subseteq Nat \ {0}
      /\ \A id \in Renders : id[1] \in Jobs /\ id[2] \in Tries
      /\ \A j \in Jobs, k \in Tries : <<j, k>> \in Renders
  BY DEF Writers, Jobs, Renders
<1>m. /\ \A j \in Jobs : request[j].route = "multipart" \/ request[j].route = "json"
            => request[j] \in Requests
      /\ \A j \in Jobs : request[j] \in Requests
            => /\ request[j].first \in Names \cup {NoName}
               /\ request[j].last \in Names \cup {NoName}
               /\ request[j].route = "multipart" => request[j].first # NoName
  BY RequestType DEF ShapeOK, NoRequest
<1>1. ASSUME NEW j \in Jobs, SaveFirst(j)
      PROVE  TypeInv'
  <2>1. request[j] \in Requests /\ request[j].first \in Names
    BY <1>1, <1>m DEF SaveFirst
  <2>2. uploads' \in [Names -> Writers]
    BY <1>1, <2>1, <1>w DEF SaveFirst, Write
  <2>3. PICK p \in {"saving", "saved"} :
            /\ phase' = [phase EXCEPT ![j] = p]
            /\ p = "saving" => request[j].last # NoName
    BY <1>1 DEF SaveFirst
  <2>4. sjob # j /\ tries[j] = 0
    BY <1>1, <1>w DEF SaveFirst, ShapeOK
  <2>5. phase' \in [Jobs -> Phase] /\ ShapeOK'
    BY <1>1, <2>1, <2>3, <2>4, PhaseStep DEF SaveFirst, Phase, submitVars
  <2> QED
    BY <1>1, <2>2, <2>5 DEF SaveFirst, submitVars, agentVars, comfyVars
<1>2. ASSUME NEW j \in Jobs, SaveLast(j)
      PROVE  TypeInv'
  <2>1. request[j] \in Requests /\ request[j].last \in Names
    BY <1>2, <1>m DEF SaveLast, ShapeOK
  <2>2. uploads' \in [Names -> Writers]
    BY <1>2, <2>1, <1>w DEF SaveLast, Write
  <2>4. sjob # j /\ tries[j] = 0
    BY <1>2, <1>w DEF SaveLast, ShapeOK
  <2>5. phase' \in [Jobs -> Phase] /\ ShapeOK'
    BY <1>2, <2>1, <2>4, PhaseStep DEF SaveLast, Phase, submitVars
  <2> QED
    BY <1>2, <2>2, <2>5 DEF SaveLast, submitVars, agentVars, comfyVars
<1>3. ASSUME NEW j \in Jobs, CreateJob(j)
      PROVE  TypeInv'
  <2>1. request[j] \in Requests /\ tries[j] = 0 /\ sjob # j
    BY <1>3, <1>m, <1>w DEF CreateJob, ShapeOK
  <2>2. 0 < MaxTries /\ tries[j] < MaxTries /\ "QUEUED" \in Phase
    BY <2>1 DEF Phase
  <2>3. phase' \in [Jobs -> Phase] /\ ShapeOK'
    BY <1>3, <2>1, <2>2, PhaseStep DEF CreateJob, submitVars
  <2> QED
    BY <1>3, <2>3 DEF CreateJob, submitVars, agentVars, comfyVars
<1>4. ASSUME NEW j \in Jobs, PickJob(j)
      PROVE  TypeInv'
  <2>1. request[j] \in Requests /\ tries[j] < MaxTries
    BY <1>4 DEF PickJob, ShapeOK
  <2>2. todo' \in Seq(Picture) /\ staged' \in Seq(Picture)
    BY <1>4, <2>1, FilesOfType, EmptySeq DEF PickJob
  <2>3. tries' \in [Jobs -> 0 .. MaxTries] /\ tries'[j] \in Tries
    BY <1>4, <2>1 DEF PickJob, Tries
  <2>4. phase' \in [Jobs -> Phase]
    BY <1>4 DEF PickJob, Phase
  <2>5. ShapeOK'
    BY <1>4, <2>1, <2>3 DEF PickJob, ShapeOK
  <2> QED
    BY <1>4, <2>2, <2>3, <2>4, <2>5 DEF PickJob, agentVars, comfyVars
<1>5. CASE StageFile
  <2>1. Head(todo) \in Picture /\ Tail(todo) \in Seq(Picture)
    BY <1>5, HeadTailProperties DEF StageFile
  <2>2. inputs' \in [Names -> Writers]
    BY <1>5, <2>1 DEF StageFile, Picture
  <2>3. todo' \in Seq(Picture) /\ staged' \in Seq(Picture)
    BY <1>5, <2>1, AppendProperties DEF StageFile
  <2> QED
    BY <1>5, <2>2, <2>3 DEF StageFile, ShapeOK, clientVars, comfyVars
<1>6. CASE SkipFile
  <2>1. Tail(todo) \in Seq(Picture)
    BY <1>6, HeadTailProperties DEF SkipFile
  <2> QED
    BY <1>6, <2>1 DEF SkipFile, ShapeOK, clientVars, agentVars, comfyVars
<1>7. CASE Submit
  <2>1. sjob \in Jobs /\ phase[sjob] = "STARTING"
    BY <1>7 DEF Submit, ShapeOK
  <2>2. request[sjob] \in Requests /\ tries[sjob] \in Tries
    BY <2>1 DEF ShapeOK
  <2>3. Completed(request[sjob], staged) \in Seq(Picture)
    BY CompletedNames DEF Picture
  <2>4. /\ thread' \in [Renders -> {"none", "new", "prepare", "wait", "ended"}]
        /\ left' \in [Renders -> Seq(Picture)]
    BY <1>7, <2>1, <2>2, <2>3, <1>w DEF Submit
  <2>5. PICK p \in {"RUNNING", "ended", "QUEUED"} :
            phase' = [phase EXCEPT ![sjob] = p] /\ (p = "QUEUED" => tries[sjob] < MaxTries)
    BY <1>7, <2>1, OverType DEF Submit
  <2>6. phase' \in [Jobs -> Phase] /\ ShapeOK'
    BY <1>7, <2>1, <2>2, <2>5, PhaseStep DEF Submit, EmptyHands, Phase
  <2>7. todo' \in Seq(Picture) /\ staged' \in Seq(Picture) /\ sjob' = 0
    BY <1>7, EmptySeq DEF Submit, EmptyHands
  <2> QED
    BY <1>7, <2>4, <2>6, <2>7 DEF Submit, comfyVars
<1>8. CASE SubmitFails
  <2>1. sjob \in Jobs /\ phase[sjob] = "STARTING" /\ request[sjob] \in Requests
    BY <1>8 DEF SubmitFails, ShapeOK
  <2>2. PICK p \in {"ended", "QUEUED"} :
            phase' = [phase EXCEPT ![sjob] = p] /\ (p = "QUEUED" => tries[sjob] < MaxTries)
    BY <1>8, <2>1, OverType DEF SubmitFails
  <2>3. phase' \in [Jobs -> Phase] /\ ShapeOK'
    BY <1>8, <2>1, <2>2, PhaseStep DEF SubmitFails, EmptyHands, Phase
  <2>4. todo' \in Seq(Picture) /\ staged' \in Seq(Picture) /\ sjob' = 0
    BY <1>8, EmptySeq DEF SubmitFails, EmptyHands
  <2> QED
    BY <1>8, <2>3, <2>4 DEF SubmitFails, agentVars, comfyVars
<1>9. ASSUME NEW j \in Jobs, Settle(j)
      PROVE  TypeInv'
  <2>1. request[j] \in Requests /\ sjob # j
    BY <1>9, <1>w DEF Settle, ShapeOK
  <2>2. PICK p \in {"ended", "QUEUED"} :
            phase' = [phase EXCEPT ![j] = p] /\ (p = "QUEUED" => tries[j] < MaxTries)
    BY <1>9, OverType DEF Settle
  <2>3. phase' \in [Jobs -> Phase] /\ ShapeOK'
    BY <1>9, <2>1, <2>2, PhaseStep DEF Settle, submitVars, Phase
  <2> QED
    BY <1>9, <2>3 DEF Settle, submitVars, agentVars, comfyVars
<1>10. ASSUME NEW id \in Renders, Begin(id) \/ EndThread(id)
       PROVE  TypeInv'
  BY <1>10 DEF Begin, EndThread, ShapeOK, clientVars, submitVars, comfyVars
<1>11. ASSUME NEW id \in Renders, UploadImage(id)
       PROVE  TypeInv'
  <2>1. Head(left[id]) \in Picture /\ Tail(left[id]) \in Seq(Picture)
    BY <1>11, HeadTailProperties DEF UploadImage
  <2>2. comfy' \in [Names -> Writers]
    BY <1>11, <2>1 DEF UploadImage, Picture
  <2>3. left' \in [Renders -> Seq(Picture)]
    BY <1>11, <2>1 DEF UploadImage
  <2>4. Append(pics[id], Head(left[id])) \in Seq(Picture)
    BY <2>1, AppendProperties
  <2>5. pics' \in [Renders -> Seq(Picture)]
    BY <1>11, <2>4 DEF UploadImage
  <2> QED
    BY <1>11, <2>2, <2>3, <2>5 DEF UploadImage, ShapeOK, clientVars, submitVars
<1>12. ASSUME NEW id \in Renders, SubmitPrompt(id)
       PROVE  TypeInv'
  <2>1. Completed(request[id[1]], pics[id]) \in Seq(Picture)
    BY CompletedNames DEF Picture
  <2>2. prompt' \in [Renders -> Seq(Seq(Picture))]
    BY <1>12, <2>1 DEF SubmitPrompt
  <2> QED
    BY <1>12, <2>2 DEF SubmitPrompt, ShapeOK, clientVars, submitVars
<1>13. ASSUME NEW id \in Renders, RenderPrompt(id)
       PROVE  TypeInv'
  <2>1. prompt[id] # <<>> /\ prompt[id][1] \in Seq(Picture)
    BY <1>13, EmptySeq, ElementOfSeq DEF RenderPrompt, NoPrompt
  <2>2. Loaded(request[id[1]], prompt[id][1]) \subseteq Names
    BY <2>1, ElementOfSeq DEF Loaded, Picture
  <2>3. rendered' \in [Renders -> SUBSET (Names \X Writers)]
    BY <1>13, <2>2 DEF RenderPrompt
  <2> QED
    BY <1>13, <2>3 DEF RenderPrompt, ShapeOK, clientVars, submitVars, agentVars
<1>14. CASE UNCHANGED vars
  BY <1>14 DEF vars, clientVars, submitVars, agentVars, comfyVars, ShapeOK
<1> QED
  BY <1>1, <1>2, <1>3, <1>4, <1>5, <1>6, <1>7, <1>8, <1>9, <1>10, <1>11, <1>12,
     <1>13, <1>14 DEF Next

\* A job's attempts stay within its budget, and whatever is staged, uploaded or
\* rendered is a file some client or somebody before them wrote (_submit,
\* upload_input, upload_image).
THEOREM RenderPathTypeCorrect == Spec => []RenderPathTypeOK
<1>1. TypeInv => RenderPathTypeOK
  BY DEF TypeInv
<1> QED
  BY <1>1, TypeInvInit, TypeInvStep, PTL DEF Spec

-----------------------------------------------------------------------------
(* ComfyUI has the files its prompts name.                                 *)

There(dir) == {n \in Names : dir[n] # NoFile}

PicturesThere ==
    \A id \in Renders :
        /\ pics[id] \in Seq(Role \X There(comfy))
        /\ prompt[id] \in Seq(Seq(Role \X There(comfy)))

LEMMA FewerPrompts ==
    ASSUME NEW S, NEW T, S \subseteq T, NEW p \in Seq(Seq(Role \X S))
    PROVE  p \in Seq(Seq(Role \X T))
<1>1. Seq(Role \X S) \subseteq Seq(Role \X T)
  BY FewerNames
<1> QED
  BY <1>1, SeqMonotonic

LEMMA PromptNames ==
    ASSUME NEW S, NEW p \in Seq(Seq(Role \X S)), p # NoPrompt, NEW r
    PROVE  Loaded(r, p[1]) \subseteq S
<1>1. p[1] \in Seq(Role \X S)
  BY EmptySeq, ElementOfSeq DEF NoPrompt
<1> QED
  BY <1>1, ElementOfSeq DEF Loaded

LEMMA PicturesThereStep ==
    ASSUME TypeInv, PicturesThere, [Next]_vars
    PROVE  PicturesThere'
<1> USE DEF TypeInv, RenderPathTypeOK
<1>1. ASSUME UNCHANGED <<pics, comfy, prompt>>
      PROVE  PicturesThere'
  BY <1>1 DEF PicturesThere, There
<1>2. ASSUME NEW id \in Renders, UploadImage(id)
      PROVE  PicturesThere'
  <2>1. Head(left[id]) \in Picture
    BY <1>2, HeadTailProperties DEF UploadImage
  <2>2. There(comfy) \subseteq There(comfy)'
    BY <1>2, <2>1 DEF UploadImage, There, Picture
  <2>3. \A i \in Renders : /\ pics[i] \in Seq(Role \X There(comfy)')
                          /\ prompt[i] \in Seq(Seq(Role \X There(comfy)'))
    BY <2>2, FewerNames, FewerPrompts DEF PicturesThere
  <2>4. CASE inputs[Head(left[id])[2]] = NoFile
    BY <1>2, <2>3, <2>4 DEF UploadImage, PicturesThere
  <2>5. CASE inputs[Head(left[id])[2]] # NoFile
    <3>1. /\ comfy' = [comfy EXCEPT ![Head(left[id])[2]] = inputs[Head(left[id])[2]]]
          /\ pics' = [pics EXCEPT ![id] = Append(@, Head(left[id]))]
          /\ prompt' = prompt
      BY <1>2, <2>5 DEF UploadImage
    <3>2. Head(left[id]) \in Role \X There(comfy)'
      BY <2>1, <2>5, <3>1 DEF There, Picture
    <3>3. Append(pics[id], Head(left[id])) \in Seq(Role \X There(comfy)')
      BY <2>3, <3>2, AppendProperties
    <3> QED
      BY <2>3, <3>1, <3>3 DEF PicturesThere
  <2> QED
    BY <2>4, <2>5
<1>3. ASSUME NEW id \in Renders, SubmitPrompt(id)
      PROVE  PicturesThere'
  <2>1. Completed(request[id[1]], pics[id]) \in Seq(Role \X There(comfy))
    BY CompletedNames DEF PicturesThere
  <2>2. <<Completed(request[id[1]], pics[id])>> \in Seq(Seq(Role \X There(comfy)))
    BY <2>1
  <2> QED
    BY <1>3, <2>2 DEF SubmitPrompt, PicturesThere, There
<1>4. ASSUME NEW j \in Jobs,
             SaveFirst(j) \/ SaveLast(j) \/ CreateJob(j) \/ PickJob(j) \/ Settle(j)
      PROVE  PicturesThere'
  BY <1>1, <1>4 DEF SaveFirst, SaveLast, CreateJob, PickJob, Settle, agentVars, comfyVars
<1>5. CASE StageFile \/ SkipFile \/ Submit \/ SubmitFails
  BY <1>1, <1>5 DEF StageFile, SkipFile, Submit, SubmitFails, agentVars, comfyVars
<1>6. ASSUME NEW id \in Renders, Begin(id) \/ EndThread(id) \/ RenderPrompt(id)
      PROVE  PicturesThere'
  BY <1>1, <1>6 DEF Begin, EndThread, RenderPrompt, agentVars, comfyVars
<1>7. CASE UNCHANGED vars
  BY <1>1, <1>7 DEF vars, agentVars, comfyVars
<1> QED
  BY <1>2, <1>3, <1>4, <1>5, <1>6, <1>7 DEF Next

\* _execute uploads every picture before it submits the graph that names it:
\* ComfyUI finds what its prompts name, for any number of jobs and failures.
THEOREM PromptImagesExistAlways == Spec => []PromptImagesExist
<1>1. Init => PicturesThere
  <2>1. <<>> \in Seq(Role \X There(comfy)) /\ <<>> \in Seq(Seq(Role \X There(comfy)))
    BY EmptySeq
  <2> QED
    BY <2>1 DEF Init, PicturesThere, NoPrompt
<1>2. PicturesThere => PromptImagesExist
  <2> SUFFICES ASSUME PicturesThere, NEW id \in Renders, prompt[id] # NoPrompt
               PROVE  Loaded(request[id[1]], prompt[id][1]) \subseteq There(comfy)
    BY DEF PromptImagesExist, There
  <2> QED
    BY PromptNames DEF PicturesThere
<1>3. TypeInv /\ PicturesThere /\ [Next]_vars => (TypeInv /\ PicturesThere)'
  BY TypeInvStep, PicturesThereStep
<1> QED
  BY <1>1, <1>2, <1>3, TypeInvInit, PTL DEF Spec

-----------------------------------------------------------------------------
(* Own names mean own pictures.  A file of the client of job j that reached *)
(* one directory reached those before it, and no step takes it back: who    *)
(* uploads under another name does not touch it, and who copies it copies   *)
(* the same file.                                                          *)

Own(j) == request[j].route = "multipart" /\ OwnNames(j)

Saved(j) == {n \in Uploads(j) : uploads[n] = j}
Arrived(j) == {n \in Saved(j) : inputs[n] = j}
Received(j) == {n \in Arrived(j) : comfy[n] = j}

SavedInv(j) ==
    /\ phase[j] = "saving" => request[j].first \in Saved(j)
    /\ phase[j] \notin {"none", "saving"} => Uploads(j) \subseteq Saved(j)

SubmitInv(j) ==
    sjob = j => /\ todo \in Seq(Role \X Uploads(j))
                /\ staged \in Seq(Role \X Arrived(j))

RenderInv(j) ==
    \A k \in Tries :
        /\ left[<<j, k>>] \in Seq(Role \X Arrived(j))
        /\ pics[<<j, k>>] \in Seq(Role \X Received(j))
        /\ prompt[<<j, k>>] \in Seq(Seq(Role \X Received(j)))
        /\ \A file \in rendered[<<j, k>>] : file[2] = j

OwnInv == \A j \in Jobs : Own(j) => SavedInv(j) /\ SubmitInv(j) /\ RenderInv(j)

LEMMA OwnRequest ==
    ASSUME TypeInv, NEW j \in Jobs, Own(j)
    PROVE  /\ request[j] \in Requests /\ request[j].first \in Uploads(j)
           /\ Uploads(j) \subseteq Names
BY RequestType DEF TypeInv, ShapeOK, Own, NoRequest, Uploads

\* What a step writes, and whose it is.
LEMMA OneWriter ==
    ASSUME TypeInv, [Next]_vars, NEW j \in Jobs, Own(j), NEW n \in Uploads(j)
    PROVE  /\ request' = request
           /\ uploads'[n] \in {uploads[n], j}
           /\ inputs'[n] \in {inputs[n], uploads[n]}
           /\ comfy'[n] \in {comfy[n], inputs[n]}
<1> USE DEF TypeInv, RenderPathTypeOK
<1>n. n \in Names
  BY OwnRequest
<1> DEFINE Goal == /\ request' = request
                   /\ uploads'[n] \in {uploads[n], j}
                   /\ inputs'[n] \in {inputs[n], uploads[n]}
                   /\ comfy'[n] \in {comfy[n], inputs[n]}
<1>1. ASSUME NEW i \in Jobs, NEW m \in Uploads(i), m # NoName, Write(m, i),
             UNCHANGED <<request, inputs, comfy>>
      PROVE  Goal
  <2>1. i # j => m # n
    BY <1>1 DEF Own, OwnNames
  <2> QED
    BY <1>1, <1>n, <2>1 DEF Write
<1>2. ASSUME NEW i \in Jobs, SaveFirst(i)
      PROVE  Goal
  <2>1. request[i] \in Requests /\ request[i].first \in Uploads(i) \ {NoName}
    BY <1>2, RequestType DEF SaveFirst, ShapeOK, NoRequest, Uploads
  <2> QED
    BY <1>1, <1>2, <2>1 DEF SaveFirst, agentVars, comfyVars
<1>3. ASSUME NEW i \in Jobs, SaveLast(i)
      PROVE  Goal
  <2>1. request[i].last \in Uploads(i) \ {NoName}
    BY <1>3 DEF SaveLast, ShapeOK, Uploads
  <2> QED
    BY <1>1, <1>3, <2>1 DEF SaveLast, agentVars, comfyVars
<1>4. CASE StageFile
  BY <1>4, <1>n DEF StageFile, clientVars, comfyVars
<1>5. ASSUME NEW id \in Renders, UploadImage(id)
      PROVE  Goal
  BY <1>5, <1>n DEF UploadImage, clientVars
<1>6. ASSUME NEW i \in Jobs, CreateJob(i) \/ PickJob(i) \/ Settle(i)
      PROVE  Goal
  BY <1>6 DEF CreateJob, PickJob, Settle, agentVars, comfyVars
<1>7. CASE SkipFile \/ Submit \/ SubmitFails
  BY <1>7 DEF SkipFile, Submit, SubmitFails, clientVars, agentVars, comfyVars
<1>8. ASSUME NEW id \in Renders,
             Begin(id) \/ SubmitPrompt(id) \/ EndThread(id) \/ RenderPrompt(id)
      PROVE  Goal
  BY <1>8 DEF Begin, SubmitPrompt, EndThread, RenderPrompt, clientVars, agentVars, comfyVars
<1>9. CASE UNCHANGED vars
  BY <1>9 DEF vars, clientVars, agentVars, comfyVars
<1> QED
  BY <1>2, <1>3, <1>4, <1>5, <1>6, <1>7, <1>8, <1>9 DEF Next

LEMMA NothingIsTakenBack ==
    ASSUME TypeInv, [Next]_vars, NEW j \in Jobs, Own(j)
    PROVE  /\ request' = request /\ Uploads(j)' = Uploads(j) /\ Own(j)'
           /\ Saved(j) \subseteq Saved(j)'
           /\ Arrived(j) \subseteq Arrived(j)'
           /\ Received(j) \subseteq Received(j)'
<1>1. request' = request
  <2>1. PICK n : n \in Uploads(j)
    BY OwnRequest
  <2> QED
    BY <2>1, OneWriter
<1>2. Uploads(j)' = Uploads(j) /\ Own(j)'
  BY <1>1 DEF Uploads, Own, OwnNames
<1>3. Saved(j) \subseteq Saved(j)'
  BY <1>2, OneWriter DEF Saved
<1>4. Arrived(j) \subseteq Arrived(j)'
  BY <1>3, OneWriter DEF Arrived, Saved
<1>5. Received(j) \subseteq Received(j)'
  BY <1>4, OneWriter DEF Received, Arrived, Saved
<1> QED
  BY <1>1, <1>2, <1>3, <1>4, <1>5

LEMMA SavedStep ==
    ASSUME TypeInv, [Next]_vars, NEW j \in Jobs, Own(j), SavedInv(j)
    PROVE  SavedInv(j)'
<1> USE DEF TypeInv, RenderPathTypeOK
<1>0. /\ request[j] \in Requests /\ request[j].first \in Uploads(j)
      /\ Uploads(j) \subseteq Names
      /\ request' = request /\ Uploads(j)' = Uploads(j) /\ Saved(j) \subseteq Saved(j)'
  BY OwnRequest, NothingIsTakenBack
<1>1. ASSUME phase'[j] = phase[j] \/ phase[j] \notin {"none", "saving"} 
      PROVE  SavedInv(j)'
  BY <1>0, <1>1 DEF SavedInv
<1>2. CASE SaveFirst(j)
  <2>1. request[j].first \in Saved(j)'
    BY <1>0, <1>2 DEF SaveFirst, Write, Saved
  <2>2. request[j].last = NoName => Uploads(j) = {request[j].first}
    BY <1>0, RequestType DEF Uploads, Own
  <2> QED
    BY <1>0, <1>2, <2>1, <2>2 DEF SaveFirst, SavedInv
<1>3. CASE SaveLast(j)
  <2>1. request[j].last \in Uploads(j)
    BY <1>3 DEF SaveLast, ShapeOK, Uploads
  <2>2. request[j].last \in Saved(j)'
    BY <1>0, <1>3, <2>1 DEF SaveLast, Write, Saved
  <2>3. request[j].first \in Saved(j)'
    BY <1>0, <1>3 DEF SaveLast, SavedInv
  <2>4. Uploads(j) \subseteq {request[j].first, request[j].last}
    BY DEF Uploads
  <2>5. phase'[j] = "saved"
    BY <1>3 DEF SaveLast
  <2>6. Uploads(j)' \subseteq Saved(j)'
    BY <1>0, <2>2, <2>3, <2>4
  <2> QED
    BY <2>5, <2>6 DEF SavedInv
<1>4. CASE CreateJob(j)
  BY <1>1, <1>4 DEF CreateJob, Own
<1>5. ASSUME NEW i \in Jobs, i # j, SaveFirst(i) \/ SaveLast(i) \/ CreateJob(i)
      PROVE  phase'[j] = phase[j]
  BY <1>5 DEF SaveFirst, SaveLast, CreateJob
<1>6. ASSUME NEW i \in Jobs, PickJob(i) \/ Settle(i)
      PROVE  phase'[j] = phase[j] \/ phase[j] \notin {"none", "saving"}
  BY <1>6 DEF PickJob, Settle, Over
<1>7. CASE Submit \/ SubmitFails
  <2>1. phase[sjob] = "STARTING" /\ sjob \in Jobs
    BY <1>7 DEF Submit, SubmitFails, ShapeOK
  <2>2. phase'[j] = phase[j] \/ phase[j] \notin {"none", "saving"}
    BY <1>7, <2>1 DEF Submit, SubmitFails, Over
  <2> QED
    BY <1>1, <2>2
<1>8. CASE StageFile \/ SkipFile \/ UNCHANGED vars
  BY <1>1, <1>8 DEF StageFile, SkipFile, vars, clientVars
<1>9. ASSUME NEW id \in Renders,
             \/ Begin(id) \/ UploadImage(id) \/ SubmitPrompt(id)
             \/ EndThread(id) \/ RenderPrompt(id)
      PROVE  phase' = phase
  BY <1>9 DEF Begin, UploadImage, SubmitPrompt, EndThread, RenderPrompt, clientVars
<1> QED
  BY <1>1, <1>2, <1>3, <1>4, <1>5, <1>6, <1>7, <1>8, <1>9 DEF Next

LEMMA SubmitStep ==
    ASSUME TypeInv, [Next]_vars, NEW j \in Jobs, Own(j), SavedInv(j), SubmitInv(j)
    PROVE  SubmitInv(j)'
<1> USE DEF TypeInv, RenderPathTypeOK
<1>0. /\ request[j] \in Requests /\ request[j].route = "multipart"
      /\ request' = request /\ Uploads(j)' = Uploads(j)
      /\ Saved(j) \subseteq Saved(j)' /\ Arrived(j) \subseteq Arrived(j)'
  BY OwnRequest, NothingIsTakenBack DEF Own
<1>1. ASSUME UNCHANGED submitVars
      PROVE  SubmitInv(j)'
  BY <1>0, <1>1, FewerNames DEF SubmitInv, submitVars
<1>2. ASSUME NEW i \in Jobs, PickJob(i)
      PROVE  SubmitInv(j)'
  BY <1>0, <1>2, FilesOfClient, EmptySeq DEF PickJob, SubmitInv
<1>3. CASE StageFile
  <2> SUFFICES ASSUME sjob = j
               PROVE  SubmitInv(j)'
    BY <1>3 DEF StageFile, SubmitInv
  <2>1. Head(todo) \in Role \X Uploads(j) /\ Tail(todo) \in Seq(Role \X Uploads(j))
    BY <1>3, HeadTailProperties DEF StageFile, SubmitInv
  <2>2. Head(todo)[2] \in Names
    BY <1>3, HeadTailProperties DEF StageFile, Picture
  <2>3. Head(todo)[2] \in Saved(j) /\ Head(todo)[2] \in Saved(j)'
    BY <1>0, <2>1 DEF SavedInv, ShapeOK, Jobs
  <2>4. Head(todo)[2] \in Arrived(j)'
    BY <1>3, <2>2, <2>3 DEF StageFile, Arrived, Saved
  <2>5. Head(todo) \in Role \X Arrived(j)'
    BY <2>1, <2>4
  <2>6. staged \in Seq(Role \X Arrived(j)')
    BY <1>0, FewerNames DEF SubmitInv
  <2>7. staged' \in Seq(Role \X Arrived(j)')
    BY <1>3, <2>5, <2>6, AppendProperties DEF StageFile
  <2> QED
    BY <1>0, <1>3, <2>1, <2>7 DEF StageFile, SubmitInv
<1>4. CASE SkipFile
  <2> SUFFICES ASSUME sjob = j
               PROVE  SubmitInv(j)'
    BY <1>4 DEF SkipFile, SubmitInv
  <2>1. Tail(todo) \in Seq(Role \X Uploads(j))
    BY <1>4, HeadTailProperties DEF SkipFile, SubmitInv
  <2>2. staged \in Seq(Role \X Arrived(j)')
    BY <1>0, FewerNames DEF SubmitInv
  <2> QED
    BY <1>0, <1>4, <2>1, <2>2 DEF SkipFile, SubmitInv
<1>5. CASE Submit \/ SubmitFails
  BY <1>5 DEF Submit, SubmitFails, EmptyHands, SubmitInv, Jobs
<1>6. ASSUME NEW i \in Jobs, SaveFirst(i) \/ SaveLast(i) \/ CreateJob(i) \/ Settle(i)
      PROVE  SubmitInv(j)'
  BY <1>1, <1>6 DEF SaveFirst, SaveLast, CreateJob, Settle
<1>7. ASSUME NEW id \in Renders,
             \/ Begin(id) \/ UploadImage(id) \/ SubmitPrompt(id)
             \/ EndThread(id) \/ RenderPrompt(id)
      PROVE  SubmitInv(j)'
  BY <1>1, <1>7 DEF Begin, UploadImage, SubmitPrompt, EndThread, RenderPrompt
<1>8. CASE UNCHANGED vars
  BY <1>1, <1>8 DEF vars
<1> QED
  BY <1>2, <1>3, <1>4, <1>5, <1>6, <1>7, <1>8 DEF Next

LEMMA RenderStep ==
    ASSUME TypeInv, [Next]_vars, NEW j \in Jobs, Own(j), SubmitInv(j), RenderInv(j)
    PROVE  RenderInv(j)'
<1> USE DEF TypeInv, RenderPathTypeOK
<1> DEFINE A == Arrived(j)'
           O == Received(j)'
<1>0. /\ Arrived(j) \subseteq A /\ Received(j) \subseteq O
      /\ A \subseteq Names /\ j \in Writers
  BY OwnRequest, NothingIsTakenBack DEF Writers, Arrived, Saved
<1>1. \A k \in Tries :
        /\ <<j, k>> \in Renders
        /\ left[<<j, k>>] \in Seq(Role \X A)
        /\ pics[<<j, k>>] \in Seq(Role \X O)
        /\ prompt[<<j, k>>] \in Seq(Seq(Role \X O))
        /\ \A file \in rendered[<<j, k>>] : file[2] = j
  BY <1>0, FewerNames, FewerPrompts DEF RenderInv, Renders
<1> HIDE DEF A, O
<1>2. ASSUME UNCHANGED <<left, pics, prompt, rendered>>
      PROVE  RenderInv(j)'
  BY <1>1, <1>2 DEF RenderInv, A, O
<1>3. CASE Submit
  <2>1. ASSUME sjob = j
        PROVE  Completed(request[sjob], staged) \in Seq(Role \X A)
    BY <1>0, <2>1, CompletedNames, FewerNames DEF SubmitInv
  <2>2. \A k \in Tries : left'[<<j, k>>] \in Seq(Role \X A)
    BY <1>1, <1>3, <2>1 DEF Submit, Renders
  <2> QED
    BY <1>1, <1>3, <2>2 DEF Submit, RenderInv, comfyVars, A, O
<1>4. ASSUME NEW id \in Renders, UploadImage(id)
      PROVE  RenderInv(j)'
  <2>1. CASE id[1] # j
    <3>1. \A k \in Tries : <<j, k>> # id
      BY <2>1
    <3>2. \A k \in Tries : /\ left'[<<j, k>>] = left[<<j, k>>]
                           /\ pics'[<<j, k>>] = pics[<<j, k>>]
      BY <1>1, <1>4, <3>1 DEF UploadImage
    <3> QED
      BY <1>1, <1>4, <3>2 DEF UploadImage, RenderInv, A, O
  <2>2. CASE id[1] = j
    <3>1. id[2] \in Tries /\ id = <<j, id[2]>>
      BY <2>2 DEF Renders
    <3>2. left[id] \in Seq(Role \X Arrived(j))
      BY <3>1 DEF RenderInv
    <3>3. Head(left[id]) \in Role \X Arrived(j) /\ Tail(left[id]) \in Seq(Role \X A)
      BY <1>0, <1>4, <3>2, HeadTailProperties, FewerNames DEF UploadImage
    <3>4. Head(left[id])[2] \in Arrived(j) /\ Head(left[id])[2] \in A
      BY <1>0, <3>3
    <3>5. inputs[Head(left[id])[2]] = j /\ Head(left[id])[2] \in Names /\ j # NoFile
      BY <1>0, <3>4 DEF Arrived, Jobs, NoFile
    <3>6. /\ comfy'[Head(left[id])[2]] = j
          /\ pics' = [pics EXCEPT ![id] = Append(@, Head(left[id]))]
      BY <1>4, <3>5 DEF UploadImage
    <3>7. Head(left[id]) \in Role \X O
      BY <3>3, <3>4, <3>6 DEF O, Received, A
    <3>8. Append(pics[id], Head(left[id])) \in Seq(Role \X O)
      BY <1>1, <3>1, <3>7, AppendProperties
    <3>9. \A k \in Tries : /\ left'[<<j, k>>] \in Seq(Role \X A)
                           /\ pics'[<<j, k>>] \in Seq(Role \X O)
      BY <1>1, <1>4, <3>3, <3>6, <3>8 DEF UploadImage
    <3> QED
      BY <1>1, <1>4, <3>9 DEF UploadImage, RenderInv, A, O
  <2> QED
    BY <2>1, <2>2
<1>5. ASSUME NEW id \in Renders, SubmitPrompt(id)
      PROVE  RenderInv(j)'
  <2>1. ASSUME id[1] = j
        PROVE  <<Completed(request[id[1]], pics[id])>> \in Seq(Seq(Role \X O))
    <3>1. id[2] \in Tries /\ id = <<j, id[2]>>
      BY <2>1 DEF Renders
    <3>2. Completed(request[id[1]], pics[id]) \in Seq(Role \X O)
      BY <1>1, <3>1, CompletedNames
    <3> QED
      BY <3>2
  <2>2. ASSUME NEW k \in Tries
        PROVE  prompt'[<<j, k>>] \in Seq(Seq(Role \X O))
    <3>1. CASE id = <<j, k>>
      BY <1>1, <1>5, <2>1, <3>1 DEF SubmitPrompt
    <3>2. CASE id # <<j, k>>
      BY <1>1, <1>5, <3>2 DEF SubmitPrompt
    <3> QED
      BY <3>1, <3>2
  <2> QED
    BY <1>1, <1>5, <2>2 DEF SubmitPrompt, RenderInv, A, O
<1>6. ASSUME NEW id \in Renders, RenderPrompt(id)
      PROVE  RenderInv(j)'
  <2>1. ASSUME id[1] = j
        PROVE  \A n \in Loaded(request[id[1]], prompt[id][1]) : comfy[n] = j
    <3>1. id[2] \in Tries /\ id = <<j, id[2]>>
      BY <2>1 DEF Renders
    <3>2. prompt[id] \in Seq(Seq(Role \X Received(j)))
      BY <3>1 DEF RenderInv
    <3>3. Loaded(request[id[1]], prompt[id][1]) \subseteq Received(j)
      BY <1>6, <3>2, PromptNames DEF RenderPrompt
    <3> QED
      BY <3>3 DEF Received
  <2>2. \A k \in Tries : \A file \in rendered'[<<j, k>>] : file[2] = j
    BY <1>1, <1>6, <2>1 DEF RenderPrompt, Renders
  <2> QED
    BY <1>1, <1>6, <2>2 DEF RenderPrompt, RenderInv, agentVars, A, O
<1>7. ASSUME NEW i \in Jobs,
             SaveFirst(i) \/ SaveLast(i) \/ CreateJob(i) \/ PickJob(i) \/ Settle(i)
      PROVE  RenderInv(j)'
  BY <1>2, <1>7 DEF SaveFirst, SaveLast, CreateJob, PickJob, Settle, agentVars, comfyVars
<1>8. CASE StageFile \/ SkipFile \/ SubmitFails \/ UNCHANGED vars
  BY <1>2, <1>8 DEF StageFile, SkipFile, SubmitFails, vars, agentVars, comfyVars
<1>9. ASSUME NEW id \in Renders, Begin(id) \/ EndThread(id)
      PROVE  RenderInv(j)'
  BY <1>2, <1>9 DEF Begin, EndThread, comfyVars
<1> QED
  BY <1>3, <1>4, <1>5, <1>6, <1>7, <1>8, <1>9 DEF Next

LEMMA OwnInvStep ==
    ASSUME TypeInv, OwnInv, [Next]_vars
    PROVE  OwnInv'
<1> SUFFICES ASSUME NEW j \in Jobs, Own(j)'
             PROVE  SavedInv(j)' /\ SubmitInv(j)' /\ RenderInv(j)'
  BY DEF OwnInv
<1>1. request' = request
  BY DEF Next, vars, clientVars, SaveFirst, SaveLast, CreateJob, PickJob, Settle, StageFile,
         SkipFile, Submit, SubmitFails, Begin, UploadImage, SubmitPrompt, EndThread, RenderPrompt
<1>2. Own(j)
  BY <1>1 DEF Own, OwnNames, Uploads
<1> QED
  BY <1>2, SavedStep, SubmitStep, RenderStep DEF OwnInv

\* create_job_multipart saves before it inserts, _submit and _execute copy before
\* they hand on, and nobody else writes under the name: a client whose file names
\* are its own is rendered its own pictures, whatever the others do.
THEOREM OwnNamesOwnFramesHolds == Spec => []OwnNamesOwnFrames
<1>1. Init => OwnInv
  <2> SUFFICES ASSUME Init, NEW j \in Jobs
               PROVE  SavedInv(j) /\ SubmitInv(j) /\ RenderInv(j)
    BY DEF OwnInv
  <2>1. \A S : <<>> \in Seq(Role \X S) /\ <<>> \in Seq(Seq(Role \X S))
    BY EmptySeq
  <2> QED
    BY <2>1 DEF Init, SavedInv, SubmitInv, RenderInv, Jobs, Renders, NoPrompt, NotRendered
<1>2. OwnInv => OwnNamesOwnFrames
  BY DEF OwnInv, RenderInv, OwnNamesOwnFrames, OwnFiles, Own
<1>3. TypeInv /\ OwnInv /\ [Next]_vars => (TypeInv /\ OwnInv)'
  BY TypeInvStep, OwnInvStep
<1> QED
  BY <1>1, <1>2, <1>3, TypeInvInit, PTL DEF Spec

-----------------------------------------------------------------------------
(* Lengths and sizes.                                                      *)

LEMMA RoundBounds ==
    ASSUME NEW half \in Nat
    PROVE  Round(half) \in Nat /\ 2 * Round(half) \in half - 1 .. half + 1
BY DEF Round

\* The distance to the grid, as Python and TLA+ take remainders.
LEMMA GridDistance ==
    ASSUME NEW base \in Nat
    PROVE  LET d == (5 - (base % 17)) % 17 IN
           d \in 0 .. 16 /\ (base + d) % 17 = 5
OBVIOUS

LEMMA OnGridAlways ==
    ASSUME NEW half \in Nat
    PROVE  OnGrid(half)
<1> DEFINE base == Larger(5, Round(half))
           d == (5 - (base % 17)) % 17
<1>1. base \in Nat /\ 2 * base >= half - 1 /\ 2 * base <= Larger(half, 10) + 1
  BY RoundBounds DEF Larger
<1>2. d \in 0 .. 16 /\ (base + d) % 17 = 5
  BY <1>1, GridDistance
<1>3. SnapToGrid(half) = base + d
  BY DEF SnapToGrid
<1> HIDE DEF base, d
<1>4. Larger(half, 10) \in Nat
  BY DEF Larger
<1> QED
  BY <1>1, <1>2, <1>3, <1>4 DEF OnGrid

LEMMA AlignBounds ==
    ASSUME NEW n \in Nat
    PROVE  /\ Align(n) \in Nat /\ Align(n) % 32 = 0 /\ Align(n) >= 32
           /\ n >= 32 => Align(n) \in n - 31 .. n
<1> DEFINE q == n \div 32
<1>1. q \in Nat /\ 32 * q <= n /\ n < 32 * q + 32
  OBVIOUS
<1>2. Align(n) = IF 32 < q * 32 THEN q * 32 ELSE 32
  BY DEF Align, Larger
<1> HIDE DEF q
<1> QED
  BY <1>1, <1>2

LEMMA ShotFitsAlways ==
    ASSUME NEW asked \in Nat
    PROVE  ShotFits(asked)
<1> DEFINE q == asked \div 17
<1>1. q \in Nat /\ 17 * q <= asked /\ asked < 17 * q + 17
  OBVIOUS
<1>2. ShotLength(asked) = IF 5 < q * 17 THEN IF q * 17 < 481 THEN q * 17 ELSE 481 ELSE 5
  BY <1>1 DEF ShotLength, Larger, Smaller
<1> HIDE DEF q
<1> QED
  BY <1>1, <1>2 DEF ShotFits

LEMMA LengthFitsAlways ==
    ASSUME NEW r \in Requests
    PROVE  LengthFits(r)
<1>1. Or(r.shot, 243) \in Nat /\ r.half \in Nat
  BY RequestType DEF Or, Unset
<1> QED
  BY <1>1, ShotFitsAlways, OnGridAlways DEF LengthFits

LEMMA BuildsFits ==
    ASSUME NEW r \in Requests, NEW by, Builds(r, by),
           by \in {"controller", "agent"}
    PROVE  Fits(r, by)
<1> DEFINE w == IF Defaulted(r, by) THEN Or(r.width, Fallback(r).w) ELSE r.width
           h == IF Defaulted(r, by) THEN Or(r.height, Fallback(r).h) ELSE r.height
<1>1. /\ r.width \in Nat \cup {Unset} /\ r.height \in Nat \cup {Unset}
      /\ r.workflow \in {FL2VA, R2V, Multishot}
  BY RequestType
<1>2. Fallback(r).w \in Nat /\ Fallback(r).h \in Nat
  BY <1>1 DEF Fallback, Template, T4Safe, Square, FL2VA, R2V, Multishot
<1>3. ~Defaulted(r, by) => r.width # Unset /\ r.height # Unset
  BY DEF Defaulted, Builds
<1>4. /\ w \in Nat /\ (r.width >= 32 => w = r.width)
      /\ h \in Nat /\ (r.height >= 32 => h = r.height)
  BY <1>1, <1>2, <1>3 DEF Or, Unset
<1>5. Width(r, by) = Align(w) /\ Height(r, by) = Align(h)
  BY DEF Width, Height
<1> HIDE DEF w, h
<1>6. /\ Width(r, by) \in Nat /\ Width(r, by) % 32 = 0 /\ Width(r, by) >= 32
      /\ r.width >= 32 => Width(r, by) \in r.width - 31 .. r.width
  BY <1>4, <1>5, AlignBounds
<1>7. /\ Height(r, by) \in Nat /\ Height(r, by) % 32 = 0 /\ Height(r, by) >= 32
      /\ r.height >= 32 => Height(r, by) \in r.height - 31 .. r.height
  BY <1>4, <1>5, AlignBounds
<1>8. CASE r.workflow = Multishot
  BY <1>6, <1>7, <1>8 DEF Builds, Fits
<1>9. CASE r.workflow # Multishot
  BY <1>6, <1>7, <1>9 DEF Builds, Fits
<1> QED
  BY <1>8, <1>9

\* Only what a client asked for is rendered.
Asking == \A id \in Renders : thread[id] # "none" => request[id[1]] \in Requests

LEMMA PromptFitsStep ==
    ASSUME TypeInv, Asking, PromptFits, [Next]_vars
    PROVE  Asking' /\ PromptFits'
<1> USE DEF TypeInv, RenderPathTypeOK
<1>1. ASSUME UNCHANGED <<request, thread, prompt>>
      PROVE  Asking' /\ PromptFits'
  BY <1>1 DEF Asking, PromptFits
<1>2. CASE Submit
  <2>1. sjob \in Jobs /\ request[sjob] \in Requests
    BY <1>2 DEF Submit, ShapeOK
  <2> QED
    BY <1>2, <2>1 DEF Submit, Asking, PromptFits, comfyVars
<1>3. ASSUME NEW id \in Renders, SubmitPrompt(id)
      PROVE  Asking' /\ PromptFits'
  <2>1. request[id[1]] \in Requests
    BY <1>3 DEF SubmitPrompt, Asking
  <2>2. PICK files : /\ prompt' = [prompt EXCEPT ![id] = <<files>>]
                     /\ Builds(request[id[1]], Builder(request[id[1]], files))
    BY <1>3 DEF SubmitPrompt
  <2>3. /\ Fits(request[id[1]], Builder(request[id[1]], files))
        /\ LengthFits(request[id[1]])
    BY <2>1, <2>2, BuildsFits, LengthFitsAlways DEF Builder
  <2>4. /\ request' = request
        /\ prompt'[id] = <<files>> /\ prompt'[id][1] = files
        /\ \A i \in Renders : i # id => prompt'[i] = prompt[i]
        /\ \A i \in Renders : thread'[i] # "none" => thread[i] # "none"
    BY <1>3, <2>2 DEF SubmitPrompt, clientVars
  <2> QED
    BY <2>3, <2>4 DEF Asking, PromptFits
<1>4. ASSUME NEW id \in Renders, Begin(id) \/ EndThread(id)
      PROVE  Asking' /\ PromptFits'
  BY <1>4 DEF Begin, EndThread, Asking, PromptFits, clientVars, comfyVars
<1>5. ASSUME NEW j \in Jobs,
             SaveFirst(j) \/ SaveLast(j) \/ CreateJob(j) \/ PickJob(j) \/ Settle(j)
      PROVE  Asking' /\ PromptFits'
  BY <1>1, <1>5 DEF SaveFirst, SaveLast, CreateJob, PickJob, Settle, agentVars, comfyVars
<1>6. CASE StageFile \/ SkipFile \/ SubmitFails \/ UNCHANGED vars
  BY <1>1, <1>6 DEF StageFile, SkipFile, SubmitFails, vars, clientVars, agentVars, comfyVars
<1>7. ASSUME NEW id \in Renders, UploadImage(id) \/ RenderPrompt(id)
      PROVE  Asking' /\ PromptFits'
  BY <1>1, <1>7 DEF UploadImage, RenderPrompt, clientVars, agentVars
<1> QED
  BY <1>2, <1>3, <1>4, <1>5, <1>6, <1>7 DEF Next

\* For every length and every size the two sides accept, a queued FL2VA or R2V
\* prompt renders a video on the model's grid 17k + 5, half a frame shorter than
\* asked for at most and less than 17 frames longer (duration_to_frames); a queued
\* multishot prompt renders shots of a multiple of 17 frames, less than 17 shorter
\* than asked for, or of 5 or 481 at the ends of the range; and every canvas is
\* aligned and in range (_resolve_resolution, build_prompt).
THEOREM PromptFitsAlways == Spec => []PromptFits
<1>1. Init => Asking /\ PromptFits
  BY DEF Init, Asking, PromptFits
<1>2. TypeInv /\ Asking /\ PromptFits /\ [Next]_vars => (TypeInv /\ Asking /\ PromptFits)'
  BY TypeInvStep, PromptFitsStep
<1> QED
  BY <1>1, <1>2, TypeInvInit, PTL DEF Spec

-----------------------------------------------------------------------------
(* The order of the pictures, from the request to the prompt.              *)

\* Every picture of s comes before those of t.
Precede(s, t) == \A i \in 1 .. Len(s), k \in 1 .. Len(t) : Before(s[i], t[k])

\* A list that is taken apart from its front, and what was taken for a request.
InOrder(r, done, rest) ==
    Sorted(done) /\ Sorted(rest) /\ Precede(done, rest) /\ Fitting(r, done)

\* Nothing is taken yet.
LEMMA InOrderNone ==
    ASSUME NEW r, NEW rest, Sorted(rest)
    PROVE  InOrder(r, <<>>, rest)
BY DEF InOrder, Sorted, Precede, Fitting

\* The next picture is passed over.
LEMMA InOrderPass ==
    ASSUME NEW r, NEW done \in Seq(Picture), NEW rest \in Seq(Picture), rest # <<>>,
           InOrder(r, done, rest)
    PROVE  InOrder(r, done, Tail(rest))
<1> DEFINE L == Len(rest)
<1>1. /\ L \in Nat /\ L # 0 /\ Len(Tail(rest)) = L - 1
      /\ \A k \in 1 .. L - 1 : Tail(rest)[k] = rest[k + 1]
  BY HeadTailProperties, EmptySeq, LenProperties
<1>2. /\ \A i, k \in 1 .. L : i < k => Before(rest[i], rest[k])
      /\ \A i \in 1 .. Len(done), k \in 1 .. L : Before(done[i], rest[k])
  BY DEF InOrder, Sorted, Precede
<1>3. \A k \in 1 .. L - 1 : k + 1 \in 1 .. L
  BY <1>1
<1> HIDE DEF L
<1>4. \A i, k \in 1 .. L - 1 : i < k => i + 1 < k + 1
  BY <1>1
<1>5. Sorted(Tail(rest)) /\ Precede(done, Tail(rest))
  BY <1>1, <1>2, <1>3, <1>4 DEF Sorted, Precede
<1> QED
  BY <1>5 DEF InOrder

\* The next picture is taken.
LEMMA InOrderTake ==
    ASSUME NEW r, NEW done \in Seq(Picture), NEW rest \in Seq(Picture), rest # <<>>,
           InOrder(r, done, rest), Head(rest)[1] \in Roles(r)
    PROVE  InOrder(r, Append(done, Head(rest)), Tail(rest))
<1> DEFINE L == Len(rest)
           D == Len(done)
           more == Append(done, Head(rest))
<1>1. /\ L \in Nat /\ L # 0 /\ Len(Tail(rest)) = L - 1
      /\ \A k \in 1 .. L - 1 : Tail(rest)[k] = rest[k + 1]
      /\ Head(rest) = rest[1]
  BY HeadTailProperties, EmptySeq, LenProperties
<1>2. /\ D \in Nat /\ Len(more) = D + 1 /\ more[D + 1] = rest[1]
      /\ \A k \in 1 .. D : more[k] = done[k]
  BY <1>1, LenProperties
<1>3. /\ \A i, k \in 1 .. L : i < k => Before(rest[i], rest[k])
      /\ \A i \in 1 .. D, k \in 1 .. L : Before(done[i], rest[k])
      /\ \A i, k \in 1 .. D : i < k => Before(done[i], done[k])
      /\ \A k \in 1 .. D : done[k][1] \in Roles(r)
  BY DEF InOrder, Sorted, Precede, Fitting
<1>4. Sorted(Tail(rest))
  BY InOrderPass DEF InOrder
<1>5. rest[1][1] \in Roles(r)
  BY <1>1
<1> HIDE DEF L, D, more
<1>6. 1 \in 1 .. L /\ \A k \in 1 .. L - 1 : k + 1 \in 1 .. L /\ 1 < k + 1
  BY <1>1
<1>7. \A k \in 1 .. D + 1 : k \in 1 .. D \/ k = D + 1
  BY <1>2
<1>8. Fitting(r, more)
  BY <1>2, <1>3, <1>5, <1>7 DEF Fitting
<1>9. Sorted(more)
  <2> SUFFICES ASSUME NEW i \in 1 .. D + 1, NEW k \in 1 .. D + 1, i < k
               PROVE  Before(more[i], more[k])
    BY <1>2 DEF Sorted
  <2>1. i \in 1 .. D
    BY <1>2
  <2>2. CASE k \in 1 .. D
    BY <1>2, <1>3, <2>1, <2>2
  <2>3. CASE k = D + 1
    BY <1>2, <1>3, <1>6, <2>1, <2>3
  <2> QED
    BY <1>7, <2>2, <2>3
<1>10. Precede(more, Tail(rest))
  <2> SUFFICES ASSUME NEW i \in 1 .. D + 1, NEW k \in 1 .. L - 1
               PROVE  Before(more[i], rest[k + 1])
    BY <1>1, <1>2 DEF Precede
  <2>2. CASE i \in 1 .. D
    BY <1>2, <1>3, <1>6, <2>2
  <2>3. CASE i = D + 1
    BY <1>2, <1>3, <1>6, <2>3
  <2> QED
    BY <1>7, <2>2, <2>3
<1> QED
  BY <1>4, <1>8, <1>9, <1>10 DEF InOrder, more

\* A part whose pictures have one role, one of them at most or references.
Block(s, role) == /\ \A k \in 1 .. Len(s) : s[k][1] = role
                  /\ role = "ref" \/ Len(s) <= 1

\* The pictures of one field of a request.
LEMMA BlockOf ==
    ASSUME NEW S, NEW names \in Seq(S), NEW role, role = "ref" \/ Len(names) <= 1
    PROVE  Block(Of(role, names), role)
<1>1. Len(Of(role, names)) = Len(names)
  BY LenProperties DEF Of
<1>2. \A k \in 1 .. Len(names) : Of(role, names)[k][1] = role
  BY DEF Of
<1> QED
  BY <1>1, <1>2 DEF Block

\* A field that names one picture at most.
LEMMA OptionLength ==
    ASSUME NEW name
    PROVE  Option(name) \in Seq({name}) /\ Len(Option(name)) <= 1
<1>1. CASE name = NoName
  <2>1. Option(name) = <<>>
    BY <1>1 DEF Option
  <2> QED
    BY <2>1
<1>2. CASE name # NoName
  <2>1. Option(name) = <<name>>
    BY <1>2 DEF Option
  <2> QED
    BY <2>1
<1> QED
  BY <1>1, <1>2

\* Blocks put one behind the other.
LEMMA SortedConcat ==
    ASSUME NEW s \in Seq(Picture), NEW t \in Seq(Picture), Sorted(s), Sorted(t), Precede(s, t)
    PROVE  Sorted(s \o t)
<1> DEFINE A == Len(s)
           B == Len(t)
           u == s \o t
<1>1. /\ A \in Nat /\ B \in Nat /\ Len(u) = A + B
      /\ \A k \in 1 .. A : u[k] = s[k]
      /\ \A k \in A + 1 .. A + B : u[k] = t[k - A]
  BY LenProperties, ConcatProperties
<1>2. /\ \A i, k \in 1 .. A : i < k => Before(s[i], s[k])
      /\ \A i, k \in 1 .. B : i < k => Before(t[i], t[k])
      /\ \A i \in 1 .. A, k \in 1 .. B : Before(s[i], t[k])
  BY DEF Sorted, Precede
<1> HIDE DEF A, B, u
<1> SUFFICES ASSUME NEW i \in 1 .. A + B, NEW k \in 1 .. A + B, i < k PROVE Before(u[i], u[k])
  BY <1>1 DEF Sorted, u
<1>3. CASE k \in 1 .. A
  <2>1. i \in 1 .. A
    BY <1>1, <1>3
  <2> QED
    BY <1>1, <1>2, <1>3, <2>1
<1>4. CASE i \in 1 .. A /\ k \in A + 1 .. A + B
  <2>1. k - A \in 1 .. B
    BY <1>1, <1>4
  <2> QED
    BY <1>1, <1>2, <1>4, <2>1
<1>5. CASE i \in A + 1 .. A + B
  <2>1. i - A \in 1 .. B /\ k - A \in 1 .. B /\ i - A < k - A /\ k \in A + 1 .. A + B
    BY <1>1, <1>5
  <2> QED
    BY <1>1, <1>2, <1>5, <2>1
<1> QED
  BY <1>1, <1>3, <1>4, <1>5

\* A block is in order.
LEMMA BlockSorted ==
    ASSUME NEW s \in Seq(Picture), NEW role, Block(s, role)
    PROVE  Sorted(s)
<1>1. Len(s) \in Nat
  BY LenProperties
<1>2. CASE role = "ref"
  BY <1>2 DEF Sorted, Block, Before
<1>3. CASE Len(s) <= 1
  <2> DEFINE L == Len(s)
  <2>1. L \in Nat /\ L <= 1
    BY <1>1, <1>3
  <2> HIDE DEF L
  <2>2. \A i, k \in 1 .. L : ~ (i < k)
    BY <2>1
  <2> QED
    BY <2>2 DEF Sorted, L
<1> QED
  BY <1>2, <1>3 DEF Block

\* A list comes before another if its parts do.
LEMMA PrecedeConcat ==
    ASSUME NEW s \in Seq(Picture), NEW t \in Seq(Picture), NEW u \in Seq(Picture)
    PROVE  /\ Precede(s, u) /\ Precede(t, u) => Precede(s \o t, u)
           /\ Precede(s, t) /\ Precede(s, u) => Precede(s, t \o u)
<1> DEFINE A == Len(s)
           B == Len(t)
           C == Len(u)
           st == s \o t
           tu == t \o u
<1>1. /\ A \in Nat /\ B \in Nat /\ C \in Nat /\ Len(st) = A + B /\ Len(tu) = B + C
      /\ \A k \in 1 .. A : st[k] = s[k]
      /\ \A k \in A + 1 .. A + B : st[k] = t[k - A]
      /\ \A k \in 1 .. B : tu[k] = t[k]
      /\ \A k \in B + 1 .. B + C : tu[k] = u[k - B]
  BY LenProperties, ConcatProperties
<1>2. ASSUME Precede(s, u), Precede(t, u) PROVE Precede(st, u)
  <2>1. /\ \A i \in 1 .. A, k \in 1 .. C : Before(s[i], u[k])
        /\ \A i \in 1 .. B, k \in 1 .. C : Before(t[i], u[k])
    BY <1>2 DEF Precede
  <2> HIDE DEF A, B, C, st, tu
  <2> SUFFICES ASSUME NEW i \in 1 .. A + B, NEW k \in 1 .. C PROVE Before(st[i], u[k])
    BY <1>1 DEF Precede, C
  <2>2. CASE i \in 1 .. A
    BY <1>1, <2>1, <2>2
  <2>3. CASE i \in A + 1 .. A + B
    <3>1. i - A \in 1 .. B
      BY <1>1, <2>3
    <3> QED
      BY <1>1, <2>1, <2>3, <3>1
  <2> QED
    BY <1>1, <2>2, <2>3
<1>3. ASSUME Precede(s, t), Precede(s, u) PROVE Precede(s, tu)
  <2>1. /\ \A i \in 1 .. A, k \in 1 .. B : Before(s[i], t[k])
        /\ \A i \in 1 .. A, k \in 1 .. C : Before(s[i], u[k])
    BY <1>3 DEF Precede
  <2> HIDE DEF A, B, C, st, tu
  <2> SUFFICES ASSUME NEW i \in 1 .. A, NEW k \in 1 .. B + C PROVE Before(s[i], tu[k])
    BY <1>1 DEF Precede, A
  <2>2. CASE k \in 1 .. B
    BY <1>1, <2>1, <2>2
  <2>3. CASE k \in B + 1 .. B + C
    <3>1. k - B \in 1 .. C
      BY <1>1, <2>3
    <3> QED
      BY <1>1, <2>1, <2>3, <3>1
  <2> QED
    BY <1>1, <2>2, <2>3
<1> QED
  BY <1>2, <1>3

\* One role comes before another.
LEMMA BlocksPrecede ==
    ASSUME NEW s, NEW t, NEW p, NEW q, Block(s, p), Block(t, q), Place(p) < Place(q)
    PROVE  Precede(s, t)
BY DEF Block, Precede, Before

\* The order of the roles.
LEMMA Places == /\ Place("first") < Place("last") /\ Place("first") < Place("start")
                /\ Place("first") < Place("ref") /\ Place("last") < Place("start")
                /\ Place("last") < Place("ref") /\ Place("start") < Place("ref")
BY DEF Place

\* The blocks FilesOf puts one behind the other.
LEMMA FilesOfBlocks ==
    ASSUME NEW r \in Requests
    PROVE  /\ Of("first", Option(r.first)) \in Seq(Picture)
           /\ Block(Of("first", Option(r.first)), "first")
           /\ Of("last", Option(r.last)) \in Seq(Picture)
           /\ Block(Of("last", Option(r.last)), "last")
           /\ Of("start", Option(r.start)) \in Seq(Picture)
           /\ Block(Of("start", Option(r.start)), "start")
           /\ Of("ref", r.refs) \in Seq(Picture) /\ Block(Of("ref", r.refs), "ref")
<1>1. /\ Option(r.first) \in Seq(Names) /\ Option(r.last) \in Seq(Names)
      /\ Option(r.start) \in Seq(Names) /\ r.refs \in Seq(Names)
  BY RequestType, OneName
<1>2. {"first", "last", "start", "ref"} \subseteq Role
  BY DEF Role
<1>3. /\ Of("first", Option(r.first)) \in Seq(Picture)
      /\ Of("last", Option(r.last)) \in Seq(Picture)
      /\ Of("start", Option(r.start)) \in Seq(Picture) /\ Of("ref", r.refs) \in Seq(Picture)
  BY <1>1, <1>2, OneRole DEF Picture
<1>4. Block(Of("first", Option(r.first)), "first") /\ Block(Of("last", Option(r.last)), "last")
      /\ Block(Of("start", Option(r.start)), "start")
  BY OptionLength, BlockOf
<1>5. Block(Of("ref", r.refs), "ref")
  BY <1>1, BlockOf
<1> QED
  BY <1>3, <1>4, <1>5

\* _submit stages frames before the start image before the references.
LEMMA FilesOfSorted ==
    ASSUME NEW r \in Requests
    PROVE  Sorted(FilesOf(r))
<1> DEFINE first == Of("first", Option(r.first))
           last == Of("last", Option(r.last))
           start == Of("start", Option(r.start))
           refs == Of("ref", r.refs)
<1>1. /\ first \in Seq(Picture) /\ Block(first, "first") /\ last \in Seq(Picture)
      /\ Block(last, "last")
      /\ start \in Seq(Picture) /\ Block(start, "start") /\ refs \in Seq(Picture)
      /\ Block(refs, "ref")
  BY FilesOfBlocks
<1>2. r.workflow \in {FL2VA, R2V, Multishot}
  BY RequestType
<1>3. FilesOf(r) = CASE r.workflow = FL2VA -> (first \o last) \o <<>>
                     [] r.workflow = R2V -> (first \o last) \o refs
                     [] r.workflow = Multishot -> (first \o last) \o (start \o refs)
  BY <1>2 DEF FilesOf, FL2VA, R2V, Multishot
<1> HIDE DEF first, last, start, refs
<1>4. Sorted(first) /\ Sorted(last) /\ Sorted(start) /\ Sorted(refs)
  BY <1>1, BlockSorted
<1>5. /\ Precede(first, last) /\ Precede(first, start) /\ Precede(first, refs)
      /\ Precede(last, start) /\ Precede(last, refs) /\ Precede(start, refs)
  BY <1>1, Places, BlocksPrecede
<1>6. first \o last \in Seq(Picture) /\ start \o refs \in Seq(Picture)
  BY <1>1, ConcatProperties
<1>7. Sorted(first \o last) /\ Sorted(start \o refs)
  BY <1>1, <1>4, <1>5, SortedConcat
<1>8. Precede(first \o last, refs) /\ Precede(first \o last, start)
  BY <1>1, <1>5, PrecedeConcat
<1>9. Precede(first \o last, start \o refs)
  BY <1>1, <1>6, <1>8, PrecedeConcat
<1>10. Sorted((first \o last) \o refs) /\ Sorted((first \o last) \o (start \o refs))
  BY <1>1, <1>4, <1>6, <1>7, <1>8, <1>9, SortedConcat
<1>11. (first \o last) \o <<>> = first \o last
  BY <1>6, ConcatEmptySeq
<1> QED
  BY <1>2, <1>3, <1>7, <1>10, <1>11 DEF FL2VA, R2V, Multishot

\* Completing a list that starts with its first frame makes a prompt of it.
LEMMA CompletedOrder ==
    ASSUME NEW r, NEW s \in Seq(Picture), Sorted(s), Fitting(r, s), FrameOK(r, s)
    PROVE  Prompting(r, Completed(r, s))
<1>1. CASE r.workflow = FL2VA /\ Len(s) = 1
  <2> DEFINE t == Completed(r, s)
             last == <<"last", s[1][2]>>
  <2>1. t = Append(s, last) /\ s[1][1] = "first"
    BY <1>1 DEF Completed, FrameOK
  <2>2. s[1] \in Picture
    BY <1>1, ElementOfSeq
  <2>3. last \in Picture /\ last[1] = "last"
    BY <2>2 DEF Picture, Role
  <2> HIDE DEF last, t
  <2>4. t \in Seq(Picture) /\ Len(t) = 2 /\ t[1] = s[1] /\ t[2] = last
    <3>0. 1 \in 1 .. Len(s)
      BY <1>1
    <3>1. Len(t) = Len(s) + 1 /\ t \in Seq(Picture) /\ t[1] = s[1] /\ t[Len(s) + 1] = last
      BY <2>1, <2>3, <3>0, AppendProperties
    <3> QED
      BY <1>1, <3>1
  <2>5. 1 .. 2 = {1, 2}
    OBVIOUS
  <2>6. Sorted(t) /\ Fitting(r, t)
    BY <1>1, <2>1, <2>3, <2>4, <2>5 DEF Sorted, Fitting, Before, Place, Roles, FL2VA, R2V, Multishot
  <2>7. t # <<>>
    <3>1. Len(t) >= 1
      BY <2>4
    <3> QED
      BY <2>4, <3>1, NonEmpty
  <2> QED
    BY <2>1, <2>4, <2>6, <2>7 DEF Prompting, FrameOK, t
<1>2. CASE ~ (r.workflow = FL2VA /\ Len(s) = 1)
  <2>1. Completed(r, s) = s
    BY <1>2 DEF Completed
  <2> QED
    BY <1>2, <2>1 DEF Prompting
<1> QED
  BY <1>1, <1>2

\* The pictures of a render: uploaded, and still to upload.
RenderOrder(id) ==
    /\ InOrder(request[id[1]], pics[id], left[id]) /\ Fitting(request[id[1]], left[id])
    /\ thread[id] = "none" => pics[id] = <<>>
    /\ thread[id] # "none" =>
          /\ request[id[1]] \in Requests
          /\ id[2] <= tries[id[1]] /\ (sjob = id[1] => id[2] < tries[id[1]])

\* _submit's hand and every render are in order.
OrderInv ==
    /\ sjob # 0 => InOrder(request[sjob], staged, todo)
    /\ \A id \in Renders : RenderOrder(id)

\* Nothing is in hand.
LEMMA OrderInit == Init => OrderInv
<1> SUFFICES ASSUME Init PROVE OrderInv
  OBVIOUS
<1>1. Sorted(<<>>) /\ \A r : Fitting(r, <<>>)
  BY DEF Sorted, Fitting
<1>2. \A r : InOrder(r, <<>>, <<>>)
  BY <1>1, InOrderNone
<1> QED
  BY <1>1, <1>2 DEF Init, OrderInv, RenderOrder

\* Every step keeps the order.
LEMMA OrderStep ==
    ASSUME TypeInv, OrderInv, [Next]_vars
    PROVE  OrderInv'
<1> USE DEF TypeInv, RenderPathTypeOK
<1>0. /\ \A id \in Renders : id[1] \in Jobs /\ id[2] \in Tries
      /\ Jobs \subseteq Nat \ {0} /\ Tries \subseteq Nat
      /\ \A j \in Jobs, k \in Tries : <<j, k>> \in Renders
  BY RenderPathAssumption DEF Renders, Jobs, Tries
<1>1. ASSUME UNCHANGED <<request, tries, sjob, todo, staged, thread, left, pics>>
      PROVE  OrderInv'
  BY <1>1 DEF OrderInv, RenderOrder
<1>2. ASSUME NEW j \in Jobs, PickJob(j)
      PROVE  OrderInv'
  <2>1. request[j] \in Requests /\ request' = request
    BY <1>2 DEF PickJob, ShapeOK
  <2>2. InOrder(request[j], <<>>, FilesOf(request[j]))
    BY <2>1, FilesOfSorted, InOrderNone
  <2>3. /\ sjob' = j /\ todo' = FilesOf(request[j]) /\ staged' = <<>>
        /\ UNCHANGED <<thread, left, pics>>
    BY <1>2 DEF PickJob, agentVars
  <2>4. ASSUME NEW id \in Renders PROVE RenderOrder(id)'
    <3>1. tries'[id[1]] = IF id[1] = j THEN tries[id[1]] + 1 ELSE tries[id[1]]
      BY <1>0, <1>2 DEF PickJob
    <3>2. tries[id[1]] \in Nat /\ id[2] \in Nat
      <4>1. id[1] \in Jobs /\ id[2] \in Nat
        BY <1>0
      <4>2. tries[id[1]] \in 0 .. MaxTries /\ 0 .. MaxTries \subseteq Nat
        BY <4>1, RenderPathAssumption
      <4> QED
        BY <4>1, <4>2
    <3>3. RenderOrder(id)
      BY DEF OrderInv
    <3> QED
      BY <2>1, <2>3, <3>1, <3>2, <3>3 DEF RenderOrder
  <2> QED
    BY <2>1, <2>2, <2>3, <2>4 DEF OrderInv
<1>3. CASE StageFile
  <2>1. /\ sjob # 0 /\ todo # <<>> /\ todo' = Tail(todo)
        /\ UNCHANGED <<sjob, request, tries, thread, left, pics>>
        /\ staged' = IF Head(todo)[1] \in Roles(request[sjob])
                     THEN Append(staged, Head(todo)) ELSE staged
    BY <1>3 DEF StageFile, clientVars
  <2>2. InOrder(request[sjob], staged, todo)
    BY <2>1 DEF OrderInv
  <2>3. InOrder(request[sjob], staged', todo')
    BY <2>1, <2>2, InOrderPass, InOrderTake
  <2>4. \A id \in Renders : RenderOrder(id)'
    BY <2>1 DEF OrderInv, RenderOrder
  <2> QED
    BY <2>1, <2>3, <2>4 DEF OrderInv
<1>4. CASE SkipFile
  <2>1. /\ sjob # 0 /\ todo # <<>> /\ todo' = Tail(todo)
        /\ UNCHANGED <<sjob, staged, request, tries, thread, left, pics>>
    BY <1>4 DEF SkipFile, clientVars, agentVars
  <2>2. InOrder(request[sjob], staged, todo)
    BY <2>1 DEF OrderInv
  <2>3. InOrder(request[sjob], staged', todo')
    BY <2>1, <2>2, InOrderPass
  <2>4. \A id \in Renders : RenderOrder(id)'
    BY <2>1 DEF OrderInv, RenderOrder
  <2> QED
    BY <2>1, <2>3, <2>4 DEF OrderInv
<1>5. CASE Submit
  <2> DEFINE id == <<sjob, tries[sjob]>>
             r == request[sjob]
  <2>1. /\ sjob \in Jobs /\ r \in Requests /\ tries[sjob] \in Tries /\ id \in Renders
    BY <1>0, <1>5 DEF Submit, ShapeOK
  <2>2. /\ sjob' = 0 /\ UNCHANGED <<request, tries, pics>> /\ FrameOK(r, staged)
        /\ thread' = [thread EXCEPT ![id] = "new"]
        /\ left' = [left EXCEPT ![id] = Completed(r, staged)]
    BY <1>5 DEF Submit, EmptyHands
  <2>3. InOrder(r, staged, todo)
    BY <2>1, <1>0 DEF OrderInv
  <2>4. Prompting(r, Completed(r, staged))
    BY <2>2, <2>3, CompletedOrder DEF InOrder
  <2>5. pics[id] = <<>>
    <3>1. RenderOrder(id)
      BY <2>1 DEF OrderInv
    <3>2. ~ (tries[sjob] < tries[sjob])
      BY <1>0, <2>1
    <3>3. id[1] = sjob /\ id[2] = tries[sjob]
      OBVIOUS
    <3>4. thread[id] = "none"
      BY <3>1, <3>2, <3>3 DEF RenderOrder
    <3> QED
      BY <3>1, <3>4 DEF RenderOrder
  <2>6. InOrder(r, <<>>, Completed(r, staged)) /\ Fitting(r, Completed(r, staged))
    BY <2>4, InOrderNone DEF Prompting
  <2>7. ASSUME NEW i \in Renders, i = id PROVE RenderOrder(i)'
    <3>1. pics'[i] = <<>> /\ left'[i] = Completed(r, staged) /\ thread'[i] = "new"
      BY <2>2, <2>5, <2>7
    <3>2. tries[sjob] <= tries[sjob] /\ sjob' # sjob
      BY <1>0, <2>1, <2>2
    <3>3. i[1] = sjob /\ i[2] = tries[sjob]
      BY <2>7
    <3>4. InOrder(request'[i[1]], pics'[i], left'[i]) /\ Fitting(request'[i[1]], left'[i])
      BY <2>2, <2>6, <3>1, <3>3
    <3>5. request'[i[1]] \in Requests /\ i[2] <= tries'[i[1]] /\ sjob' # i[1]
      BY <2>1, <2>2, <3>2, <3>3
    <3> QED
      BY <3>1, <3>4, <3>5 DEF RenderOrder
  <2>8. ASSUME NEW i \in Renders, i # id PROVE RenderOrder(i)'
    <3>1. RenderOrder(i) /\ left'[i] = left[i] /\ thread'[i] = thread[i]
      BY <2>2, <2>8 DEF OrderInv
    <3>2. sjob' # i[1]
      BY <1>0, <2>2
    <3> QED
      BY <2>2, <3>1, <3>2 DEF RenderOrder
  <2> QED
    BY <2>2, <2>7, <2>8 DEF OrderInv
<1>6. CASE SubmitFails
  <2>1. sjob' = 0 /\ UNCHANGED <<request, tries, thread, left, pics>>
    BY <1>6 DEF SubmitFails, EmptyHands, agentVars
  <2>2. ASSUME NEW i \in Renders PROVE RenderOrder(i)'
    <3>1. RenderOrder(i) /\ sjob' # i[1]
      BY <1>0, <2>1 DEF OrderInv
    <3> QED
      BY <2>1, <3>1 DEF RenderOrder
  <2> QED
    BY <2>1, <2>2 DEF OrderInv
<1>7. ASSUME NEW id \in Renders, UploadImage(id)
      PROVE  OrderInv'
  <2> DEFINE r == request[id[1]]
  <2>1. /\ left[id] # <<>> /\ left' = [left EXCEPT ![id] = Tail(@)]
        /\ pics' = pics \/ pics' = [pics EXCEPT ![id] = Append(@, Head(left[id]))]
        /\ UNCHANGED <<request, tries, sjob, todo, staged, thread>> /\ thread[id] = "prepare"
    BY <1>7 DEF UploadImage, clientVars, submitVars
  <2>2. RenderOrder(id)
    BY DEF OrderInv
  <2>3. pics[id] \in Seq(Picture) /\ left[id] \in Seq(Picture)
    OBVIOUS
  <2>4. /\ left[id][1][1] \in Roles(r) /\ Head(left[id]) = left[id][1]
        /\ Fitting(r, Tail(left[id]))
    <3> DEFINE L == Len(left[id])
               rest == left[id]
    <3>1. /\ L \in Nat /\ L >= 1 /\ Len(Tail(rest)) = L - 1 /\ Head(rest) = rest[1]
          /\ \A k \in 1 .. L - 1 : Tail(rest)[k] = rest[k + 1]
      BY <2>1, <2>3, HeadTailProperties, NonEmpty
    <3>2. \A k \in 1 .. L : rest[k][1] \in Roles(r)
      BY <2>2 DEF RenderOrder, Fitting
    <3> HIDE DEF L, rest
    <3>3. 1 \in 1 .. L /\ \A k \in 1 .. L - 1 : k + 1 \in 1 .. L
      BY <3>1
    <3>4. Fitting(r, Tail(rest)) /\ rest[1][1] \in Roles(r)
      BY <3>1, <3>2, <3>3 DEF Fitting
    <3> QED
      BY <3>1, <3>4 DEF rest
  <2>5. /\ InOrder(r, pics[id], Tail(left[id]))
        /\ InOrder(r, Append(pics[id], Head(left[id])), Tail(left[id]))
    BY <2>1, <2>2, <2>3, <2>4, InOrderPass, InOrderTake DEF RenderOrder
  <2>6. RenderOrder(id)'
    <3>1. /\ left'[id] = Tail(left[id])
          /\ pics'[id] \in {pics[id], Append(pics[id], Head(left[id]))}
      BY <2>1
    <3> QED
      BY <2>1, <2>2, <2>4, <2>5, <3>1 DEF RenderOrder
  <2>7. ASSUME NEW i \in Renders, i # id PROVE RenderOrder(i)'
    <3>1. RenderOrder(i) /\ left'[i] = left[i] /\ pics'[i] = pics[i]
      BY <2>1, <2>7 DEF OrderInv
    <3> QED
      BY <2>1, <3>1 DEF RenderOrder
  <2> QED
    BY <2>1, <2>6, <2>7 DEF OrderInv
<1>8. ASSUME NEW id \in Renders, Begin(id) \/ SubmitPrompt(id) \/ EndThread(id)
      PROVE  OrderInv'
  <2>1. /\ UNCHANGED <<request, tries, sjob, todo, staged, left, pics>>
        /\ \A i \in Renders : thread'[i] = "none" <=> thread[i] = "none"
    BY <1>8 DEF Begin, SubmitPrompt, EndThread, clientVars, submitVars
  <2> QED
    BY <2>1 DEF OrderInv, RenderOrder
<1>9. ASSUME NEW j \in Jobs, SaveFirst(j) \/ SaveLast(j) \/ CreateJob(j) \/ Settle(j)
      PROVE  OrderInv'
  BY <1>1, <1>9 DEF SaveFirst, SaveLast, CreateJob, Settle, submitVars, agentVars
<1>10. ASSUME NEW id \in Renders, RenderPrompt(id)
       PROVE  OrderInv'
  BY <1>1, <1>10 DEF RenderPrompt, clientVars, submitVars, agentVars
<1>11. CASE UNCHANGED vars
  BY <1>1, <1>11 DEF vars, clientVars, submitVars, agentVars
<1> QED
  BY <1>2, <1>3, <1>4, <1>5, <1>6, <1>7, <1>8, <1>9, <1>10, <1>11 DEF Next

\* Only _execute queues a prompt, and with the pictures of its workflow.
LEMMA QueuedPrompting ==
    ASSUME TypeInv, OrderInv, [Next]_vars, NEW id \in Renders, Queued(id)
    PROVE  /\ request[id[1]] \in Requests /\ request' = request
           /\ Prompting(request[id[1]], prompt'[id][1])
           /\ prompt'[id][1] = Completed(request[id[1]], pics[id])
           /\ thread[id] = "prepare" /\ left[id] = <<>>
<1> USE DEF TypeInv, RenderPathTypeOK
<1>1. PICK i \in Renders : SubmitPrompt(i)
  <2>1. prompt' # prompt
    BY DEF Queued
  <2> QED
    BY <2>1 DEF Next, vars, clientVars, submitVars, agentVars, comfyVars, SaveFirst, SaveLast,
       CreateJob, PickJob, Settle, StageFile, SkipFile, Submit, SubmitFails, Begin, UploadImage,
       EndThread, RenderPrompt
<1>2. i = id
  BY <1>1 DEF SubmitPrompt, Queued
<1>3. /\ thread[id] = "prepare" /\ left[id] = <<>> /\ request' = request
      /\ prompt'[id] = <<Completed(request[id[1]], pics[id])>>
      /\ FrameOK(request[id[1]], Completed(request[id[1]], pics[id]))
  BY <1>1, <1>2 DEF SubmitPrompt, clientVars
<1>4. RenderOrder(id)
  BY DEF OrderInv
<1>5. FrameOK(request[id[1]], pics[id])
  <2> DEFINE s == pics[id]
             r == request[id[1]]
  <2> SUFFICES ASSUME r.workflow = FL2VA PROVE s # <<>> /\ s[1][1] = "first"
    BY DEF FrameOK
  <2>1. CASE Len(s) = 1
    <3>1. Append(s, <<"last", s[1][2]>>)[1] = s[1]
      <4>1. s \in Seq(Picture)
        OBVIOUS
      <4>2. s[1] \in Picture /\ 1 \in 1 .. Len(s)
        <5> HIDE DEF s
        <5>1. 1 \in 1 .. Len(s)
          BY <2>1
        <5> QED
          BY <4>1, <5>1, ElementOfSeq
      <4>3. <<"last", s[1][2]>> \in Picture
        BY <4>2 DEF Picture, Role
      <4> HIDE DEF s
      <4> QED
        BY <4>1, <4>2, <4>3, AppendProperties
    <3>2. s # <<>>
      <4>1. Len(<<>>) = 0
        OBVIOUS
      <4> SUFFICES ASSUME s = <<>> PROVE FALSE
        OBVIOUS
      <4>2. Len(s) = 0
        BY <4>1, Zenon
      <4> QED
        BY ONLY <2>1, <4>2
    <3> QED
      BY <1>3, <2>1, <3>1, <3>2 DEF Completed, FrameOK
  <2>2. CASE Len(s) # 1
    BY <1>3, <2>2 DEF Completed, FrameOK
  <2> QED
    BY <2>1, <2>2
<1>6. Prompting(request[id[1]], Completed(request[id[1]], pics[id]))
  BY <1>4, <1>5, CompletedOrder DEF RenderOrder, InOrder
<1> QED
  BY <1>3, <1>4, <1>6 DEF RenderOrder

\* _execute queues what _build_workflow_for_job returns: for any request, any list of
\* pictures and any number of jobs, failures and retries, the graph's links lead to
\* nodes that are there and executed before, with outputs of the ports' types, no node
\* is built in vain, and it opens the pictures it shows.
THEOREM PromptIsWiredAlways == Spec => PromptIsWired
<1>1. ASSUME TypeInv, OrderInv, [Next]_vars
      PROVE  \A id \in Renders : Queued(id) => \A G \in {GraphOf(id)} :
                 Wired(G, Loaded(request[id[1]], prompt'[id][1]))
  BY <1>1, QueuedPrompting, PromptWired DEF GraphOf
<1>2. TypeInv /\ OrderInv /\ [Next]_vars => (TypeInv /\ OrderInv)'
  BY TypeInvStep, OrderStep
<1>3. Init => TypeInv /\ OrderInv
  BY TypeInvInit, OrderInit
<1> QED
  BY <1>1, <1>2, <1>3, PTL DEF Spec, PromptIsWired

\* workflow_i2v.py and workflow_r2v.py: whichever branch the options choose, guidance
\* and noise schedule come from one model, the turbo LoRA is not stacked on PDD, and
\* sound and pictures are decoded by the VAEs made for them.
THEOREM OneModelAlways == Spec => OneModel
<1>1. ASSUME TypeInv, OrderInv, [Next]_vars
      PROVE  \A id \in Renders : Queued(id) /\ request[id[1]].workflow # Multishot =>
             \A G \in {GraphOf(id)} : Consistent(G, request[id[1]])
  BY <1>1, QueuedPrompting, PromptConsistent DEF GraphOf
<1>2. TypeInv /\ OrderInv /\ [Next]_vars => (TypeInv /\ OrderInv)'
  BY TypeInvStep, OrderStep
<1>3. Init => TypeInv /\ OrderInv
  BY TypeInvInit, OrderInit
<1> QED
  BY <1>1, <1>2, <1>3, PTL DEF Spec, OneModel

-----------------------------------------------------------------------------
(* What is asked for is what a complete prompt shows.                      *)

\* The pictures of a request that _submit hands to the agent, if it finds them.
Wanted(r) ==
    CASE r.workflow = FL2VA -> FilesOf(r)
      [] r.workflow = R2V -> Of("ref", r.refs)
      [] r.workflow = Multishot -> Of("start", Option(r.start)) \o Of("ref", r.refs)

\* What is taken from a list of names.
LEMMA FirstNIs ==
    ASSUME NEW S, NEW names \in Seq(S), NEW m \in Nat
    PROVE  /\ FirstN(names, m) = Front(names, Smaller(Len(names), m))
           /\ Smaller(Len(names), m) \in Nat /\ Smaller(Len(names), m) <= Len(names)
<1> DEFINE L == Len(names)
           c == Smaller(L, m)
           f == SubSeq(names, 1, c)
<1>1. L \in Nat /\ \A i \in 1 .. L : names[i] \in S
  BY LenProperties, ElementOfSeq
<1> HIDE DEF L
<1>2. c \in Nat /\ c <= L
  BY <1>1 DEF Smaller
<1> HIDE DEF c
<1>3. \A i \in 1 .. c : names[i] \in S
  BY <1>1, <1>2
<1>4. f \in Seq(S) /\ Len(f) = c /\ \A i \in 1 .. c : f[i] = names[i]
  BY <1>2, <1>3, SubSeqProperties
<1> HIDE DEF f
<1>5. f = [i \in 1 .. c |-> f[i]]
  BY <1>4
<1>6. f = Front(names, c)
  BY <1>4, <1>5 DEF Front
<1> QED
  BY <1>2, <1>6 DEF f, c, L, FirstN

\* A frame that may be missing.
LEMMA OfOption ==
    ASSUME NEW role, NEW name
    PROVE  Of(role, Option(name)) = IF name = NoName THEN <<>> ELSE <<<<role, name>>>>
<1>1. CASE name = NoName
  <2>1. Len(<<>>) = 0 /\ 1 .. 0 = {}
    OBVIOUS
  <2>2. Of(role, <<>>) = [k \in {} |-> <<role, <<>>[k]>>]
    BY <2>1 DEF Of
  <2>3. [k \in {} |-> <<role, <<>>[k]>>] = <<>>
    OBVIOUS
  <2> QED
    BY <1>1, <2>2, <2>3 DEF Option
<1>2. CASE name # NoName
  <2>1. Len(<<name>>) = 1 /\ 1 .. 1 = {1}
    OBVIOUS
  <2>2. Of(role, <<name>>) = [k \in {1} |-> <<role, <<name>>[k]>>]
    BY <2>1 DEF Of
  <2>3. Of(role, <<name>>) = <<<<role, name>>>>
    BY <2>2
  <2> QED
    BY <1>2, <2>3 DEF Option
<1> QED
  BY <1>1, <1>2

\* An FL2VA client is shown its first frame and its last one, or its first frame
\* twice.
LEMMA FL2VAAsked ==
    ASSUME NEW r \in Requests, r.workflow = FL2VA, NEW s, s = Completed(r, Wanted(r)),
           Prompting(r, s)
    PROVE  Pictures(Graph(r, s), r) = Asked(r)
<1> DEFINE files == Wanted(r)
<1>1. /\ Len(s) = 2 /\ s[1][1] = "first" /\ s[2][1] = "last"
      /\ Named(s, "first") = Run(s, 0, 1) /\ Named(s, "last") = Run(s, 1, 1)
  BY FramePair
<1>2. Named(s, "first")[1] = s[1][2] /\ Named(s, "last")[1] = s[2][2]
  BY <1>1 DEF Run
<1>3. Graph(r, s) = FL2VAGraph(s)
  BY DEF Graph, FL2VA, R2V, Multishot
<1>4. FL2VAIn(FL2VAGraph(s), s[1][2], s[2][2])
  BY <1>2, FL2VAIs
<1>5. Pictures(Graph(r, s), r) = <<s[1][2], s[2][2]>>
  BY <1>3, <1>4, FL2VAPictures
<1>6. files = (IF r.first = NoName THEN <<>> ELSE <<<<"first", r.first>>>>)
              \o (IF r.last = NoName THEN <<>> ELSE <<<<"last", r.last>>>>)
  <2>1. files = Of("first", Option(r.first)) \o Of("last", Option(r.last)) \o <<>>
    BY DEF Wanted, FilesOf, FL2VA, R2V, Multishot
  <2>2. /\ Of("first", Option(r.first)) \in Seq(Picture)
        /\ Of("last", Option(r.last)) \in Seq(Picture)
    <3>1. Option(r.first) \in Seq(Names) /\ Option(r.last) \in Seq(Names)
      BY RequestType, OneName
    <3>2. "first" \in Role /\ "last" \in Role
      BY DEF Role
    <3> QED
      BY <3>1, <3>2, OneRole DEF Picture
  <2>3. Of("first", Option(r.first)) \o Of("last", Option(r.last)) \in Seq(Picture)
    BY <2>2, ConcatProperties
  <2>4. files = Of("first", Option(r.first)) \o Of("last", Option(r.last))
    BY <2>1, <2>3, ConcatEmptySeq
  <2> QED
    BY <2>4, OfOption
<1> HIDE DEF files
<1>7. CASE r.first # NoName /\ r.last # NoName
  <2> DEFINE a == <<"first", r.first>>
             b == <<"last", r.last>>
  <2>1. files = <<a>> \o <<b>>
    BY <1>6, <1>7
  <2> HIDE DEF a, b
  <2>2. files = <<a, b>>
    BY <2>1, TwoSingles
  <2>3. s = <<a, b>>
    BY <2>2 DEF Completed, files
  <2> QED
    BY <1>5, <1>7, <2>3 DEF Asked, a, b, FL2VA, R2V, Multishot
<1>8. CASE r.first # NoName /\ r.last = NoName
  <2> DEFINE a == <<"first", r.first>>
             b == <<"last", r.first>>
  <2>1. files = <<a>>
    BY <1>6, <1>8
  <2>2. s = Append(<<a>>, b)
    BY <2>1 DEF Completed, files
  <2> HIDE DEF a, b
  <2>3. s = <<a, b>>
    <3> DEFINE single == <<a>>
               S == {a, b}
    <3>1. single \in Seq(S) /\ b \in S
      OBVIOUS
    <3> HIDE DEF single, S
    <3>2. Append(single, b) = single \o <<b>>
      BY ONLY <3>1, AppendIsConcat
    <3> QED
      BY <2>2, <3>2, TwoSingles DEF single
  <2> USE DEF a, b
  <2> QED
    BY <1>5, <1>8, <2>3 DEF Asked, FL2VA, R2V, Multishot
<1>9. CASE r.first = NoName /\ r.last # NoName
  <2> DEFINE b == <<"last", r.last>>
  <2>1. files = <<b>>
    BY <1>6, <1>9
  <2>2. s = Append(<<b>>, <<"last", b[2]>>)
    BY <2>1 DEF Completed, files
  <2>3. s[1] = b
    BY <2>2
  <2> QED
    BY <1>1, <2>3
<1>10. CASE r.first = NoName /\ r.last = NoName
  <2>1. files = <<>>
    BY <1>6, <1>10
  <2>2. s = <<>>
    BY <2>1 DEF Completed, files
  <2> QED
    BY <1>1, <2>2
<1> QED
  BY <1>7, <1>8, <1>9, <1>10

\* The names of a list of references.
LEMMA RefNames ==
    ASSUME NEW S, NEW names \in Seq(S)
    PROVE  /\ Len(Of("ref", names)) = Len(names) /\ Len(names) \in Nat
           /\ \A i \in 1 .. Len(names) : Of("ref", names)[i] = <<"ref", names[i]>>
<1> QED
  BY LenProperties DEF Of

\* An R2V client is shown its first three references.
LEMMA R2VAsked ==
    ASSUME NEW r \in Requests, r.workflow = R2V, NEW s, s = Completed(r, Wanted(r)),
           Prompting(r, s)
    PROVE  Pictures(Graph(r, s), r) = Asked(r)
<1> DEFINE n == Smaller(Len(s), 3)
           names == Run(s, 0, n)
<1>1. /\ Graph(r, s) = R2VGraph(r, s)
      /\ n \in Nat /\ n <= 3 /\ Len(names) <= 3 /\ names \in Seq(NamesOf(s, 0, n))
      /\ R2VIn(R2VGraph(r, s), names, R2VModel(r))
  BY R2VNames
<1>2. r.pdd \in BOOLEAN /\ r.turbo \in BOOLEAN
  BY DEF Requests
<1>3. Pictures(Graph(r, s), r) = names
  <2> HIDE DEF n, names
  <2> QED
    BY <1>1, <1>2, R2VPictures
<1>4. s = Of("ref", r.refs) /\ r.refs \in Seq(Names)
  BY RequestType DEF Completed, Wanted, FL2VA, R2V, Multishot
<1>5. Len(s) = Len(r.refs) /\ \A i \in 1 .. Len(r.refs) : s[i][2] = r.refs[i]
  BY <1>4, RefNames
<1>6. FirstN(r.refs, 3) = Front(r.refs, n) /\ n <= Len(r.refs) /\ Len(r.refs) \in Nat
  BY <1>4, <1>5, FirstNIs, LenProperties
<1>7. names = Front(r.refs, n)
  <2> HIDE DEF n
  <2>1. \A i \in 1 .. n : 0 + i = i /\ i \in 1 .. Len(r.refs)
    BY <1>1, <1>6
  <2>2. \A i \in 1 .. n : s[0 + i][2] = r.refs[i]
    BY <1>5, <2>1
  <2> QED
    BY <2>2 DEF Run, Front
<1> QED
  BY <1>3, <1>6, <1>7 DEF Asked, FL2VA, R2V, Multishot

\* A multishot client is shown its start image and its first nine references.
LEMMA MultishotAsked ==
    ASSUME NEW r \in Requests, r.workflow = Multishot, NEW s, s = Completed(r, Wanted(r)),
           Prompting(r, s)
    PROVE  Pictures(Graph(r, s), r) = Asked(r)
<1> DEFINE a == Starts(s)
           n == Smaller(Len(s) - a, 9)
           names == Run(s, a, n)
           start == Run(s, 0, a)
           u == Of("start", Option(r.start))
           t == Of("ref", r.refs)
<1>1. /\ Graph(r, s) = MultishotGraph(r, s)
      /\ a \in 0 .. 1 /\ a <= Len(s) /\ Len(s) \in Nat /\ a \in Nat /\ n \in Nat /\ n <= 9
      /\ Len(names) = n /\ names \in Seq(NamesOf(s, a, n))
      /\ Len(start) = a /\ (start = <<>> <=> a = 0) /\ (a # 0 => start[1] = s[1][2])
      /\ MultishotIn(MultishotGraph(r, s), r.cache \/ s # <<>>, start, names)
  BY MultishotNames
<1>2. Pictures(Graph(r, s), r) = StartPicture(start) \o names
  <2>1. Len(names) <= 9
    BY <1>1
  <2> HIDE DEF n, names, start, a
  <2> DEFINE cached == r.cache \/ s # <<>>
  <2>2. MultishotIn(MultishotGraph(r, s), cached, start, names)
    BY <1>1
  <2> HIDE DEF cached
  <2>3. names \in Seq(NamesOf(s, a, n)) /\ Graph(r, s) = MultishotGraph(r, s)
    BY <1>1
  <2>4. Pictures(MultishotGraph(r, s), r) = StartPicture(start) \o names
    BY ONLY <2>1, <2>2, <2>3, r.workflow = Multishot, MultishotPictures
  <2> QED
    BY <2>3, <2>4
<1>3. s = u \o t /\ r.refs \in Seq(Names)
  BY RequestType DEF Completed, Wanted, FL2VA, R2V, Multishot
<1>4. u = IF r.start = NoName THEN <<>> ELSE <<<<"start", r.start>>>>
  BY OfOption
<1>5. /\ u \in Seq(Picture) /\ t \in Seq(Picture)
      /\ Len(t) = Len(r.refs) /\ Len(r.refs) \in Nat
      /\ \A i \in 1 .. Len(r.refs) : t[i] = <<"ref", r.refs[i]>>
  <2>1. Option(r.start) \in Seq(Names)
    BY RequestType, OneName
  <2>2. "start" \in Role /\ "ref" \in Role
    BY DEF Role
  <2> QED
    BY <1>3, <2>1, <2>2, OneRole, RefNames DEF Picture
<1> HIDE DEF u, t
<1> DEFINE A == Len(u)
           B == Len(r.refs)
<1>6. /\ A \in Nat /\ B \in Nat /\ Len(s) = A + B
      /\ \A k \in 1 .. A : s[k] = u[k]
      /\ \A k \in A + 1 .. A + B : s[k] = t[k - A]
  <2>1. /\ Len(u \o t) = Len(u) + Len(t)
        /\ \A k \in 1 .. Len(u) : (u \o t)[k] = u[k]
        /\ \A k \in Len(u) + 1 .. Len(u) + Len(t) : (u \o t)[k] = t[k - Len(u)]
    <3>1. u \in Seq(Picture) /\ t \in Seq(Picture)
      BY <1>5
    <3> QED
      BY ONLY <3>1, ConcatProperties
  <2>2. Len(u) \in Nat
    BY <1>5, LenProperties
  <2> QED
    BY <1>3, <1>5, <2>1, <2>2
<1>7. /\ A = IF r.start = NoName THEN 0 ELSE 1
      /\ r.start # NoName => u[1] = <<"start", r.start>>
  BY <1>4
<1>l. Len(s) \in Nat /\ (Len(s) >= 1 <=> s # <<>>)
  BY NonEmpty DEF Prompting
<1> HIDE DEF A, B
<1>8. \A i \in 1 .. B : s[A + i] = <<"ref", r.refs[i]>>
  <2> SUFFICES ASSUME NEW i \in 1 .. B PROVE s[A + i] = <<"ref", r.refs[i]>>
    OBVIOUS
  <2>1. A + i \in A + 1 .. A + B /\ (A + i) - A = i
    BY <1>6
  <2> QED
    BY <1>5, <1>6, <2>1 DEF B
<1>9. a = A /\ (A = 1 => s[1] = <<"start", r.start>>)
  <2>1. CASE r.start = NoName
    <3>1. A = 0
      BY <1>7, <2>1
    <3>2. s # <<>> => s[1][1] = "ref"
      <4> SUFFICES ASSUME s # <<>> PROVE s[1][1] = "ref"
        OBVIOUS
      <4>1. A + B >= 1
        BY <1>6, <1>l
      <4>2. 1 \in 1 .. B /\ A + 1 = 1
        BY <1>6, <3>1, <4>1
      <4> QED
        BY <1>8, <4>2
    <3> QED
      BY <3>1, <3>2 DEF Starts
  <2>2. CASE r.start # NoName
    <3>1. A = 1
      BY <1>7, <2>2
    <3>2. A + B >= 1 /\ 1 \in 1 .. A
      BY <1>6, <3>1
    <3>3. s # <<>>
      BY <1>6, <1>l, <3>2
    <3>4. s[1] = <<"start", r.start>>
      BY <1>6, <1>7, <2>2, <3>2
    <3> QED
      BY <3>1, <3>3, <3>4 DEF Starts
  <2> QED
    BY <2>1, <2>2
<1>10. /\ FirstN(r.refs, 9) = Front(r.refs, Smaller(B, 9)) /\ Smaller(B, 9) <= B
       /\ Smaller(B, 9) \in Nat
  BY <1>3, FirstNIs DEF B
<1>11. names = FirstN(r.refs, 9)
  <2>1. n = Smaller(B, 9)
    <3>1. Len(s) - a = B
      BY <1>6, <1>9
    <3> QED
      BY <3>1
  <2> HIDE DEF n, a
  <2>2. \A i \in 1 .. n : i \in 1 .. B
    BY <1>6, <1>10, <2>1
  <2>3. \A i \in 1 .. n : s[a + i][2] = r.refs[i]
    BY <1>8, <1>9, <2>2
  <2> QED
    BY <1>10, <2>1, <2>3 DEF Run, Front
<1>12. StartPicture(start) = Option(r.start)
  <2> HIDE DEF a, start
  <2>1. CASE r.start = NoName
    BY <1>1, <1>7, <1>9, <2>1 DEF Option, StartPicture
  <2>2. CASE r.start # NoName
    BY <1>1, <1>7, <1>9, <2>2 DEF Option, StartPicture
  <2> QED
    BY <2>1, <2>2
<1> QED
  BY <1>2, <1>11, <1>12 DEF Asked, FL2VA, R2V, Multishot

\* What is wanted is asked for, and shown.
LEMMA AskedIsShown ==
    ASSUME NEW r \in Requests, Prompting(r, Completed(r, Wanted(r)))
    PROVE  Pictures(Graph(r, Completed(r, Wanted(r))), r) = Asked(r)
<1>1. r.workflow \in {FL2VA, R2V, Multishot}
  BY DEF Requests
<1> QED
  BY <1>1, FL2VAAsked, R2VAsked, MultishotAsked

-----------------------------------------------------------------------------
(* What is staged and uploaded is what is asked for.                       *)

-----------------------------------------------------------------------------
(* A list that is handed over one by one.                                  *)

\* What is taken from the front of one list and put behind another.
LEMMA HandOver ==
    ASSUME NEW S, NEW done \in Seq(S), NEW rest \in Seq(S), rest # <<>>
    PROVE  /\ Append(done, Head(rest)) \o Tail(rest) = done \o rest
           /\ <<Head(rest)>> \o Tail(rest) = rest
<1> DEFINE one == <<Head(rest)>>
<1>1. Head(rest) \in S /\ Tail(rest) \in Seq(S)
  BY HeadTailProperties
<1>2. one \in Seq(S)
  BY <1>1
<1>3. one \o Tail(rest) = rest
  <2> DEFINE L == Len(rest)
             tail == Tail(rest)
             u == one \o tail
  <2>1. /\ L \in Nat /\ L >= 1 /\ Len(tail) = L - 1 /\ \A i \in 1 .. L - 1 : tail[i] = rest[i + 1]
        /\ Head(rest) = rest[1]
    BY HeadTailProperties, NonEmpty
  <2>2. Len(one) = 1 /\ one[1] = rest[1]
    BY <2>1
  <2> HIDE DEF one, tail
  <2>3. one \in Seq(S) /\ tail \in Seq(S)
    BY <1>1, <1>2 DEF tail
  <2>4. /\ u \in Seq(S) /\ Len(u) = Len(one) + Len(tail)
        /\ \A i \in 1 .. Len(one) + Len(tail) :
              u[i] = IF i <= Len(one) THEN one[i] ELSE tail[i - Len(one)]
    BY ONLY <2>3, ConcatProperties
  <2> HIDE DEF u, L
  <2>5. Len(u) = L /\ \A i \in 1 .. L : u[i] = IF i <= 1 THEN one[i] ELSE tail[i - 1]
    BY <2>1, <2>2, <2>4
  <2>6. \A i \in 1 .. L : i = 1 \/ (i - 1 \in 1 .. L - 1 /\ ~ (i <= 1) /\ (i - 1) + 1 = i)
    BY <2>1
  <2>7. \A i \in 1 .. L : u[i] = rest[i]
    <3> SUFFICES ASSUME NEW i \in 1 .. L PROVE u[i] = rest[i]
      OBVIOUS
    <3>1. CASE i = 1
      BY <2>2, <2>5, <3>1
    <3>2. CASE i # 1
      BY <2>1, <2>5, <2>6, <3>2
    <3> QED
      BY <3>1, <3>2
  <2>8. Len(u) = Len(rest) /\ \A i \in 1 .. Len(u) : u[i] = rest[i]
    BY <2>5, <2>7 DEF L
  <2>9. u = rest
    BY <2>4, <2>8, SeqEqual
  <2> QED
    BY <2>9 DEF u, tail
<1>4. Append(done, Head(rest)) = done \o one
  BY <1>1, AppendIsConcat
<1> HIDE DEF one
<1>5. (done \o one) \o Tail(rest) = done \o (one \o Tail(rest))
  BY <1>1, <1>2, ConcatAssociative
<1> QED
  BY <1>3, <1>4, <1>5 DEF one

\* A list is for a workflow if its parts are.
LEMMA FittingConcat ==
    ASSUME NEW r, NEW s \in Seq(Picture), NEW t \in Seq(Picture)
    PROVE  /\ Fitting(r, s) /\ Fitting(r, t) => Fitting(r, s \o t)
           /\ Fitting(r, s \o t) => Fitting(r, t)
<1> DEFINE A == Len(s)
           B == Len(t)
           u == s \o t
<1>1. /\ A \in Nat /\ B \in Nat /\ Len(u) = A + B
      /\ \A i \in 1 .. A + B : u[i] = IF i <= A THEN s[i] ELSE t[i - A]
  BY LenProperties, ConcatProperties
<1> HIDE DEF A, B, u
<1>2. ASSUME Fitting(r, s), Fitting(r, t) PROVE Fitting(r, u)
  <2>1. \A i \in 1 .. A + B : i <= A => i \in 1 .. A
    BY <1>1
  <2>2. \A i \in 1 .. A + B : ~ (i <= A) => i - A \in 1 .. B
    BY <1>1
  <2> QED
    BY <1>1, <1>2, <2>1, <2>2 DEF Fitting, A, B
<1>3. ASSUME Fitting(r, u) PROVE Fitting(r, t)
  <2> SUFFICES ASSUME NEW k \in 1 .. B PROVE t[k][1] \in Roles(r)
    BY DEF Fitting, B
  <2>1. A + k \in 1 .. A + B /\ ~ (A + k <= A) /\ (A + k) - A = k
    BY <1>1
  <2>2. u[A + k] = t[k]
    BY <1>1, <2>1
  <2> QED
    BY <1>1, <1>3, <2>1, <2>2 DEF Fitting
<1> QED
  BY <1>2, <1>3 DEF u

\* What a request wants is for its workflow.
LEMMA WantedFits ==
    ASSUME NEW r \in Requests
    PROVE  Wanted(r) \in Seq(Picture) /\ Fitting(r, Wanted(r))
<1> DEFINE first == Of("first", Option(r.first))
           last == Of("last", Option(r.last))
           start == Of("start", Option(r.start))
           refs == Of("ref", r.refs)
<1>1. /\ first \in Seq(Picture) /\ Block(first, "first") /\ last \in Seq(Picture)
      /\ Block(last, "last")
      /\ start \in Seq(Picture) /\ Block(start, "start") /\ refs \in Seq(Picture)
      /\ Block(refs, "ref")
  BY FilesOfBlocks
<1>2. first \o last \in Seq(Picture) /\ start \o refs \in Seq(Picture)
  <2> HIDE DEF first, last, start, refs
  <2> QED
    BY <1>1, ConcatProperties
<1>3. CASE r.workflow = FL2VA
  <2>1. Wanted(r) = (first \o last) \o <<>>
    BY <1>3 DEF Wanted, FilesOf, FL2VA, R2V, Multishot
  <2>2. Roles(r) = {"first", "last"}
    BY <1>3 DEF Roles, FL2VA, R2V, Multishot
  <2> HIDE DEF first, last, start, refs
  <2>3. Wanted(r) = first \o last
    BY <1>2, <2>1, ConcatEmptySeq
  <2>4. Fitting(r, first) /\ Fitting(r, last)
    BY <1>1, <2>2 DEF Block, Fitting
  <2> QED
    BY <1>1, <1>2, <2>3, <2>4, FittingConcat
<1>4. CASE r.workflow = R2V
  <2>1. Wanted(r) = refs /\ Roles(r) = {"ref"}
    BY <1>4 DEF Wanted, Roles, FL2VA, R2V, Multishot
  <2> HIDE DEF refs
  <2> QED
    BY <1>1, <2>1 DEF Block, Fitting
<1>5. CASE r.workflow = Multishot
  <2>1. Wanted(r) = start \o refs /\ Roles(r) = {"start", "ref"}
    BY <1>5 DEF Wanted, Roles, FL2VA, R2V, Multishot
  <2> HIDE DEF start, refs
  <2>2. Fitting(r, start) /\ Fitting(r, refs)
    BY <1>1, <2>1 DEF Block, Fitting
  <2> QED
    BY <1>1, <1>2, <2>1, <2>2, FittingConcat
<1> QED
  BY <1>3, <1>4, <1>5, RequestType

\* Its pictures have roles the workflow makes no use of.
Unfit(r, s) == \A k \in 1 .. Len(s) : s[k][1] \notin Roles(r)

\* What is staged and what is still to stage make up what is wanted; frames
\* the workflow does not take come before.
Due(r, done, rest) ==
    \/ done \o rest = Wanted(r)
    \/ done = <<>> /\ \E skip \in Seq(Picture) : Unfit(r, skip) /\ rest = skip \o Wanted(r)

\* The list PickJob makes is due.
LEMMA DueFirst ==
    ASSUME NEW r \in Requests
    PROVE  Due(r, <<>>, FilesOf(r))
<1> DEFINE first == Of("first", Option(r.first))
           last == Of("last", Option(r.last))
<1>1. /\ first \in Seq(Picture) /\ Block(first, "first") /\ last \in Seq(Picture)
      /\ Block(last, "last")
  BY FilesOfBlocks
<1>2. CASE r.workflow = FL2VA
  <2>1. Wanted(r) = FilesOf(r) /\ FilesOf(r) \in Seq(Picture)
    BY <1>2, FilesOfType DEF Wanted, FL2VA, R2V, Multishot
  <2> QED
    BY <2>1, ConcatEmptySeq DEF Due
<1>3. CASE r.workflow \in {R2V, Multishot}
  <2>1. FilesOf(r) = (first \o last) \o Wanted(r)
    BY <1>3 DEF Wanted, FilesOf, FL2VA, R2V, Multishot
  <2>2. "first" \notin Roles(r) /\ "last" \notin Roles(r)
    BY <1>3 DEF Roles, FL2VA, R2V, Multishot
  <2> HIDE DEF first, last
  <2> DEFINE A == Len(first)
             B == Len(last)
             skip == first \o last
  <2>3. /\ A \in Nat /\ B \in Nat /\ skip \in Seq(Picture) /\ Len(skip) = A + B
        /\ \A i \in 1 .. A + B : skip[i] = IF i <= A THEN first[i] ELSE last[i - A]
    BY <1>1, LenProperties, ConcatProperties
  <2>4. /\ \A i \in 1 .. A : first[i][1] \notin Roles(r)
        /\ \A i \in 1 .. B : last[i][1] \notin Roles(r)
    BY <1>1, <2>2 DEF Block
  <2> HIDE DEF A, B, skip
  <2>5. Unfit(r, skip)
    <3>1. \A i \in 1 .. A + B : i <= A => i \in 1 .. A
      BY <2>3
    <3>2. \A i \in 1 .. A + B : ~ (i <= A) => i - A \in 1 .. B
      BY <2>3
    <3> QED
      BY <2>3, <2>4, <3>1, <3>2 DEF Unfit
  <2> QED
    BY <2>1, <2>3, <2>5 DEF Due, skip
<1> QED
  BY <1>2, <1>3, RequestType

\* Staging the next file, or leaving a frame aside the workflow does not take.
LEMMA DueStep ==
    ASSUME NEW r \in Requests, NEW done \in Seq(Picture), NEW rest \in Seq(Picture), rest # <<>>,
           Due(r, done, rest)
    PROVE  Due(r, IF Head(rest)[1] \in Roles(r) THEN Append(done, Head(rest)) ELSE done, Tail(rest))
<1>1. Wanted(r) \in Seq(Picture) /\ Fitting(r, Wanted(r))
  BY WantedFits
<1>2. CASE done \o rest = Wanted(r)
  <2>1. Fitting(r, rest)
    BY <1>1, <1>2, FittingConcat
  <2>2. Head(rest)[1] \in Roles(r)
    <3>1. Len(rest) >= 1 /\ Len(rest) \in Nat /\ Head(rest) = rest[1]
      BY NonEmpty
    <3>2. 1 \in 1 .. Len(rest)
      <4> DEFINE L == Len(rest)
      <4>1. L >= 1 /\ L \in Nat
        BY <3>1
      <4> HIDE DEF L
      <4>2. 1 \in 1 .. L
        BY <4>1
      <4> QED
        BY <4>2 DEF L
    <3> QED
      BY <2>1, <3>1, <3>2 DEF Fitting
  <2>3. Append(done, Head(rest)) \o Tail(rest) = done \o rest
    BY HandOver
  <2> QED
    BY <1>2, <2>2, <2>3 DEF Due
<1>3. ASSUME done = <<>>, NEW skip \in Seq(Picture), Unfit(r, skip), rest = skip \o Wanted(r)
      PROVE  Due(r, IF Head(rest)[1] \in Roles(r) THEN Append(done, Head(rest)) ELSE done, Tail(rest))
  <2>1. CASE skip = <<>>
    <3>1. rest = Wanted(r)
      BY <1>1, <1>3, <2>1, ConcatEmptySeq
    <3>2. done \o rest = Wanted(r)
      BY <1>3, <3>1, ConcatEmptySeq
    <3> QED
      BY <1>2, <3>2
  <2>2. CASE skip # <<>>
    <3> DEFINE head == Head(skip)
               tail == Tail(skip)
               one == <<head>>
    <3>1. head \in Picture /\ tail \in Seq(Picture) /\ one \o tail = skip
      BY <2>2, HeadTailProperties, HandOver
    <3>2. one \in Seq(Picture)
      BY <3>1
    <3>3. rest = one \o (tail \o Wanted(r))
      <4> HIDE DEF one, tail
      <4> QED
        <5>1. Wanted(r) \in Seq(Picture) /\ one \in Seq(Picture) /\ tail \in Seq(Picture)
          BY <1>1, <3>1, <3>2
        <5>2. (one \o tail) \o Wanted(r) = one \o (tail \o Wanted(r))
          BY ONLY <5>1, ConcatAssociative
        <5> QED
          BY <1>3, <3>1, <5>2
    <3>4. tail \o Wanted(r) \in Seq(Picture)
      <4> HIDE DEF tail
      <4> QED
        BY <1>1, <3>1, ConcatProperties
    <3>5. Head(rest) = head /\ Tail(rest) = tail \o Wanted(r)
      <4> DEFINE t == tail \o Wanted(r)
      <4>1. t \in Seq(Picture) /\ head \in Picture /\ rest = <<head>> \o t
        BY <3>1, <3>3, <3>4
      <4> HIDE DEF t, head
      <4>2. \A h \in Picture, u \in Seq(Picture) : Head(<<h>> \o u) = h /\ Tail(<<h>> \o u) = u
        OBVIOUS
      <4> QED
        BY <4>1, <4>2 DEF t
    <3>6. head[1] \notin Roles(r) /\ Unfit(r, tail)
      <4> DEFINE L == Len(skip)
      <4>1. L \in Nat /\ L >= 1 /\ Len(tail) = L - 1 /\ head = skip[1] /\ \A i \in 1 .. L - 1 : tail[i] = skip[i + 1]
        BY <2>2, HeadTailProperties, NonEmpty
      <4>2. \A i \in 1 .. L : skip[i][1] \notin Roles(r)
        BY <1>3 DEF Unfit
      <4> HIDE DEF L, head, tail
      <4>3. 1 \in 1 .. L /\ \A i \in 1 .. L - 1 : i + 1 \in 1 .. L
        BY <4>1
      <4> QED
        BY <4>1, <4>2, <4>3 DEF Unfit
    <3> HIDE DEF head, tail
    <3> QED
      BY <1>3, <3>1, <3>5, <3>6 DEF Due
  <2> QED
    BY <2>1, <2>2
<1> QED
  BY <1>2, <1>3 DEF Due

\* When nothing is left to stage, what is wanted is staged.
LEMMA DueEnd ==
    ASSUME NEW r \in Requests, NEW done \in Seq(Picture), Due(r, done, <<>>)
    PROVE  done = Wanted(r)
<1>1. Wanted(r) \in Seq(Picture)
  BY WantedFits
<1>2. ASSUME NEW skip \in Seq(Picture), <<>> = skip \o Wanted(r) PROVE Wanted(r) = <<>>
  <2> DEFINE w == Wanted(r)
             e == skip \o w
  <2>1. skip \in Seq(Picture) /\ w \in Seq(Picture) /\ e = <<>>
    BY <1>1, <1>2
  <2>2. e = <<>> <=> skip = <<>> /\ w = <<>>
    <3> HIDE DEF w
    <3> QED
      BY <2>1, ConcatEqualIffEmpty
  <2> QED
    BY <2>1, <2>2
<1> QED
  BY <1>2, ConcatEmptySeq DEF Due

\* Completing what is complete changes nothing.
LEMMA CompletedTwice ==
    ASSUME NEW r, NEW s \in Seq(Picture)
    PROVE  Completed(r, Completed(r, s)) = Completed(r, s)
<1>1. CASE r.workflow = FL2VA /\ Len(s) = 1
  <2>1. s[1] \in Picture
    <3>1. 1 \in 1 .. Len(s)
      BY <1>1
    <3> QED
      BY <3>1, ElementOfSeq
  <2>2. <<"last", s[1][2]>> \in Picture
    BY <2>1 DEF Picture, Role
  <2>3. Len(Append(s, <<"last", s[1][2]>>)) = 2
    <3>1. Len(Append(s, <<"last", s[1][2]>>)) = Len(s) + 1
      BY <2>2, AppendProperties
    <3> QED
      BY <1>1, <3>1
  <2> QED
    BY <1>1, <2>3 DEF Completed
<1>2. CASE ~ (r.workflow = FL2VA /\ Len(s) = 1)
  BY <1>2 DEF Completed
<1> QED
  BY <1>1, <1>2

\* The multipart handler saves before it inserts; a JSON job may only hope.
StoreOK ==
    /\ Stocked \subseteq There(uploads)
    /\ \A j \in Jobs : request[j].route = "multipart" =>
          /\ phase[j] = "saving" => request[j].first \in There(uploads)
          /\ phase[j] \notin {"none", "saving"} => Uploads(j) \subseteq There(uploads)

\* The job _submit has in hand: every file still to stage is there, and what is
\* staged with what is to be staged is what the request wants.
HandOK ==
    /\ staged \in Seq(Role \X There(inputs))
    /\ sjob # 0 /\ AllThere(request[sjob]) =>
          /\ todo \in Seq(Role \X There(uploads))
          /\ Due(request[sjob], staged, todo)

\* What a render has uploaded and has still to upload is all that was wanted.
Complete(id) ==
    /\ left[id] \in Seq(Role \X There(inputs))
    /\ thread[id] # "none" /\ AllThere(request[id[1]])
          => pics[id] \o left[id] = Completed(request[id[1]], Wanted(request[id[1]]))

\* The inductive invariant of PicturesInOrder, together with OrderInv.
ExactInv == StoreOK /\ HandOK /\ \A id \in Renders : Complete(id)

\* Nothing is in hand, and the stock is there.
LEMMA ExactInit == Init => ExactInv
<1> SUFFICES ASSUME Init PROVE ExactInv
  OBVIOUS
<1> USE RenderPathAssumption
<1>1. \A S : <<>> \in Seq(Role \X S)
  BY EmptySeq
<1>2. StoreOK
  BY DEF Init, StoreOK, There, NoFile, Earlier
<1>3. HandOK
  BY <1>1 DEF Init, HandOK
<1>4. \A id \in Renders : Complete(id)
  BY <1>1 DEF Init, Complete
<1> QED
  BY <1>2, <1>3, <1>4 DEF ExactInv

\* No step removes a file or changes a request, and a directory changes by the
\* step that writes it only.
LEMMA MoreFiles ==
    ASSUME TypeInv, [Next]_vars
    PROVE  /\ request' = request
           /\ There(uploads) \subseteq There(uploads)'
           /\ There(inputs) \subseteq There(inputs)'
<1> USE DEF TypeInv, RenderPathTypeOK
<1>0. Jobs \subseteq Nat \ {0}
  BY DEF Jobs
<1> DEFINE Goal == /\ request' = request
                   /\ There(uploads) \subseteq There(uploads)'
                   /\ There(inputs) \subseteq There(inputs)'
<1>1. ASSUME UNCHANGED <<request, uploads, inputs>> PROVE Goal
  BY <1>1 DEF There
<1>2. ASSUME NEW j \in Jobs, SaveFirst(j) \/ SaveLast(j) PROVE Goal
  <2>1. PICK n : uploads' = [uploads EXCEPT ![n] = j]
    BY <1>2 DEF SaveFirst, SaveLast, Write
  <2>2. UNCHANGED <<request, inputs>>
    BY <1>2 DEF SaveFirst, SaveLast, agentVars
  <2> QED
    BY <1>0, <2>1, <2>2 DEF There, NoFile
<1>3. CASE StageFile
  BY <1>3 DEF StageFile, clientVars, There
<1>4. ASSUME NEW j \in Jobs, CreateJob(j) \/ PickJob(j) \/ Settle(j) PROVE Goal
  BY <1>1, <1>4 DEF CreateJob, PickJob, Settle, agentVars
<1>5. CASE SkipFile \/ Submit \/ SubmitFails \/ UNCHANGED vars
  BY <1>1, <1>5 DEF SkipFile, Submit, SubmitFails, vars, clientVars, agentVars
<1>6. ASSUME NEW id \in Renders,
             \/ Begin(id) \/ UploadImage(id) \/ SubmitPrompt(id)
             \/ EndThread(id) \/ RenderPrompt(id)
      PROVE  Goal
  BY <1>1, <1>6 DEF Begin, UploadImage, SubmitPrompt, EndThread, RenderPrompt, clientVars, agentVars
<1> QED
  BY <1>2, <1>3, <1>4, <1>5, <1>6 DEF Next

\* Every step keeps what was promised of the uploads.
LEMMA StoreStep ==
    ASSUME TypeInv, StoreOK, [Next]_vars
    PROVE  StoreOK'
<1> USE DEF TypeInv, RenderPathTypeOK
<1>0. /\ request' = request /\ There(uploads) \subseteq There(uploads)'
      /\ \A j \in Jobs : Uploads(j)' = Uploads(j)
  BY MoreFiles DEF Uploads
<1>a. Stocked \subseteq There(uploads)'
  BY <1>0 DEF StoreOK
<1> SUFFICES ASSUME NEW j \in Jobs, request[j].route = "multipart"
             PROVE  /\ phase'[j] = "saving" => request[j].first \in There(uploads)'
                    /\ phase'[j] \notin {"none", "saving"} => Uploads(j) \subseteq There(uploads)'
  BY <1>0, <1>a DEF StoreOK
<1> DEFINE Goal == /\ phase'[j] = "saving" => request[j].first \in There(uploads)'
                   /\ phase'[j] \notin {"none", "saving"} => Uploads(j) \subseteq There(uploads)'
<1>b. /\ phase[j] = "saving" => request[j].first \in There(uploads)
      /\ phase[j] \notin {"none", "saving"} => Uploads(j) \subseteq There(uploads)
  BY DEF StoreOK
<1>c. /\ request[j] \in Requests /\ request[j].first \in Names
      /\ request[j].last \in Names \cup {NoName}
  <2>1. request[j] \in Requests
    BY DEF ShapeOK, NoRequest
  <2> QED
    BY <2>1, RequestType
<1>d. j # NoFile
  BY DEF Jobs, NoFile
<1>1. ASSUME phase'[j] = phase[j] \/ phase[j] \notin {"none", "saving"}, phase'[j] # "saving" \/ phase'[j] = phase[j]
      PROVE  Goal
  BY <1>0, <1>b, <1>1
<1>2. CASE SaveFirst(j)
  <2>1. request[j].first \in There(uploads)'
    BY <1>2, <1>c, <1>d DEF SaveFirst, Write, There
  <2>2. request[j].last = NoName => Uploads(j) \subseteq {request[j].first}
    BY DEF Uploads
  <2> QED
    BY <1>2, <2>1, <2>2 DEF SaveFirst
<1>3. CASE SaveLast(j)
  <2>1. request[j].last \in There(uploads)'
    <3>1. request[j].last \in Names
      BY <1>3, <1>c DEF SaveLast, ShapeOK
    <3> QED
      BY <1>3, <3>1, <1>d DEF SaveLast, Write, There
  <2>2. request[j].first \in There(uploads)'
    BY <1>0, <1>3, <1>b DEF SaveLast
  <2>3. Uploads(j) \subseteq {request[j].first, request[j].last}
    BY DEF Uploads
  <2> QED
    BY <1>3, <2>1, <2>2, <2>3 DEF SaveLast
<1>4. CASE CreateJob(j)
  BY <1>1, <1>4 DEF CreateJob
<1>5. ASSUME NEW i \in Jobs, i # j, SaveFirst(i) \/ SaveLast(i) \/ CreateJob(i)
      PROVE  phase'[j] = phase[j]
  BY <1>5 DEF SaveFirst, SaveLast, CreateJob
<1>6. ASSUME NEW i \in Jobs, PickJob(i) \/ Settle(i)
      PROVE  Goal
  <2>1. phase'[j] = phase[j] \/ (phase[j] \notin {"none", "saving"} /\ phase'[j] # "saving")
    BY <1>6 DEF PickJob, Settle, Over
  <2> QED
    BY <1>1, <2>1
<1>7. CASE Submit \/ SubmitFails
  <2>1. phase[sjob] = "STARTING" /\ sjob \in Jobs
    BY <1>7 DEF Submit, SubmitFails, ShapeOK
  <2>2. phase'[j] = phase[j] \/ (phase[j] \notin {"none", "saving"} /\ phase'[j] # "saving")
    BY <1>7, <2>1 DEF Submit, SubmitFails, Over
  <2> QED
    BY <1>1, <2>2
<1>8. CASE StageFile \/ SkipFile \/ UNCHANGED vars
  BY <1>1, <1>8 DEF StageFile, SkipFile, vars, clientVars
<1>9. ASSUME NEW id \in Renders,
             \/ Begin(id) \/ UploadImage(id) \/ SubmitPrompt(id)
             \/ EndThread(id) \/ RenderPrompt(id)
      PROVE  phase' = phase
  BY <1>9 DEF Begin, UploadImage, SubmitPrompt, EndThread, RenderPrompt, clientVars
<1> QED
  BY <1>1, <1>2, <1>3, <1>4, <1>5, <1>6, <1>7, <1>8, <1>9 DEF Next

\* The files of a job that names only what is there are there when it is taken
\* up.
LEMMA FilesThere ==
    ASSUME TypeInv, StoreOK, NEW j \in Jobs, phase[j] = "QUEUED", AllThere(request[j])
    PROVE  FilesOf(request[j]) \in Seq(Role \X There(uploads))
<1> DEFINE r == request[j]
           files == FilesOf(r)
<1>1. r \in Requests
  BY DEF TypeInv, ShapeOK
<1>2. CASE r.route = "multipart"
  <2>1. Uploads(j) \subseteq There(uploads)
    BY <1>2 DEF StoreOK
  <2>2. FilesOf(r) \in Seq(Role \X Uploads(j))
    BY <1>1, <1>2, FilesOfClient
  <2> QED
    BY <2>1, <2>2, FewerNames
<1>3. CASE r.route # "multipart"
  <2>1. files \in Seq(Picture)
    BY <1>1, FilesOfType
  <2>2. \A k \in 1 .. Len(files) : files[k][2] \in Stocked
    BY <1>3 DEF AllThere
  <2> HIDE DEF files
  <2> DEFINE T == There(uploads)
             L == Len(files)
  <2>3. Stocked \subseteq T
    BY DEF StoreOK
  <2>4. L \in Nat /\ \A k \in 1 .. L : files[k] \in Picture
    BY <2>1, LenProperties, ElementOfSeq
  <2>5. files = [k \in 1 .. L |-> files[k]]
    BY <2>1, LenProperties
  <2>6. \A k \in 1 .. L : files[k] \in Role \X T
    BY <2>2, <2>3, <2>4 DEF Picture
  <2> HIDE DEF L, T
  <2>7. files \in [1 .. L -> Role \X T]
    BY <2>5, <2>6
  <2>8. files \in Seq(Role \X T)
    BY <2>4, <2>7, SeqDef
  <2> QED
    BY <2>8 DEF T, files
<1> QED
  BY <1>2, <1>3

\* _submit, file by file.
LEMMA HandStep ==
    ASSUME TypeInv, StoreOK, HandOK, [Next]_vars
    PROVE  HandOK'
<1> USE DEF TypeInv, RenderPathTypeOK
<1>0. /\ request' = request
      /\ There(uploads) \subseteq There(uploads)' /\ There(inputs) \subseteq There(inputs)'
      /\ Jobs \subseteq Nat \ {0}
  BY MoreFiles DEF Jobs
<1>1. staged \in Seq(Role \X There(inputs)')
  BY <1>0, FewerNames DEF HandOK
<1>2. ASSUME UNCHANGED submitVars PROVE HandOK'
  <2>1. todo \in Seq(Role \X There(uploads)) => todo \in Seq(Role \X There(uploads)')
    BY <1>0, FewerNames
  <2> QED
    BY <1>0, <1>1, <1>2, <2>1 DEF HandOK, submitVars, AllThere
<1>3. ASSUME NEW j \in Jobs, PickJob(j) PROVE HandOK'
  <2>1. /\ request[j] \in Requests /\ phase[j] = "QUEUED"
        /\ sjob' = j /\ todo' = FilesOf(request[j]) /\ staged' = <<>> /\ uploads' = uploads
    BY <1>3 DEF PickJob, ShapeOK
  <2>2. AllThere(request[j]) => todo' \in Seq(Role \X There(uploads)')
    <3>1. There(uploads)' = There(uploads)
      BY <2>1 DEF There
    <3> QED
      BY <2>1, <3>1, FilesThere
  <2>3. Due(request[j], staged', todo')
    BY <2>1, DueFirst
  <2>4. staged' \in Seq(Role \X There(inputs)')
    BY <2>1, EmptySeq
  <2> QED
    BY <1>0, <2>1, <2>2, <2>3, <2>4 DEF HandOK
<1>4. CASE StageFile
  <2> DEFINE r == request[sjob]
             head == Head(todo)
  <2>1. /\ sjob \in Jobs /\ r \in Requests /\ todo # <<>>
        /\ todo' = Tail(todo) /\ sjob' = sjob
        /\ uploads[head[2]] # NoFile /\ inputs' = [inputs EXCEPT ![head[2]] = uploads[head[2]]]
        /\ staged' = IF head[1] \in Roles(r) THEN Append(staged, head) ELSE staged
    BY <1>4 DEF StageFile, ShapeOK
  <2>2. head \in Picture
    BY <2>1, HeadTailProperties
  <2>3. head \in Role \X There(inputs)'
    BY <2>1, <2>2 DEF Picture, There
  <2>4. staged' \in Seq(Role \X There(inputs)')
    BY <1>1, <2>1, <2>3, AppendProperties
  <2>5. ASSUME AllThere(r)
        PROVE  todo' \in Seq(Role \X There(uploads)') /\ Due(r, staged', todo')
    <3>1. todo \in Seq(Role \X There(uploads)) /\ Due(r, staged, todo)
      BY <1>0, <2>1, <2>5 DEF HandOK
    <3>2. Tail(todo) \in Seq(Role \X There(uploads)')
      BY <1>0, <2>1, <3>1, FewerNames, HeadTailProperties
    <3>3. Due(r, staged', todo')
      BY <2>1, <3>1, DueStep
    <3> QED
      BY <2>1, <3>2, <3>3
  <2> QED
    BY <1>0, <2>1, <2>4, <2>5 DEF HandOK
<1>5. CASE SkipFile
  <2>1. /\ sjob' = sjob /\ staged' = staged /\ sjob # 0 /\ todo # <<>>
        /\ uploads[Head(todo)[2]] = NoFile
    BY <1>5 DEF SkipFile
  <2>2. ~ AllThere(request[sjob])
    <3> SUFFICES ASSUME AllThere(request[sjob]) PROVE FALSE
      OBVIOUS
    <3>1. Head(todo) \in Role \X There(uploads)
      BY <2>1, HeadTailProperties DEF HandOK
    <3> QED
      BY <2>1, <3>1 DEF There
  <2> QED
    BY <1>0, <1>1, <2>1, <2>2 DEF HandOK
<1>6. CASE Submit \/ SubmitFails
  <2>1. sjob' = 0 /\ staged' = <<>>
    BY <1>6 DEF Submit, SubmitFails, EmptyHands
  <2> QED
    BY <2>1, EmptySeq DEF HandOK
<1>7. ASSUME NEW i \in Jobs, SaveFirst(i) \/ SaveLast(i) \/ CreateJob(i) \/ Settle(i)
      PROVE  HandOK'
  BY <1>2, <1>7 DEF SaveFirst, SaveLast, CreateJob, Settle
<1>8. ASSUME NEW id \in Renders,
             \/ Begin(id) \/ UploadImage(id) \/ SubmitPrompt(id)
             \/ EndThread(id) \/ RenderPrompt(id)
      PROVE  HandOK'
  BY <1>2, <1>8 DEF Begin, UploadImage, SubmitPrompt, EndThread, RenderPrompt
<1>9. CASE UNCHANGED vars
  BY <1>2, <1>9 DEF vars
<1> QED
  BY <1>3, <1>4, <1>5, <1>6, <1>7, <1>8, <1>9 DEF Next

\* A render is submitted once: nothing was uploaded for it before.
LEMMA FreshRender ==
    ASSUME TypeInv, OrderInv, Submit
    PROVE  /\ sjob \in Jobs /\ request[sjob] \in Requests /\ <<sjob, tries[sjob]>> \in Renders
           /\ pics[<<sjob, tries[sjob]>>] = <<>>
<1> USE DEF TypeInv, RenderPathTypeOK
<1> DEFINE id == <<sjob, tries[sjob]>>
<1>1. sjob \in Jobs /\ request[sjob] \in Requests /\ tries[sjob] \in Tries /\ id \in Renders
  BY DEF Submit, ShapeOK, Renders
<1>2. ~ (tries[sjob] < tries[sjob])
  BY <1>1 DEF Tries
<1>3. RenderOrder(id)
  BY <1>1 DEF OrderInv
<1>4. id[1] = sjob /\ id[2] = tries[sjob]
  OBVIOUS
<1>5. thread[id] = "none"
  BY <1>2, <1>3, <1>4 DEF RenderOrder
<1>6. pics[id] = <<>>
  BY <1>3, <1>5 DEF RenderOrder
<1> QED
  BY <1>1, <1>6

\* _submit hands its list to a render thread, which uploads it file by file.
LEMMA CompleteStep ==
    ASSUME TypeInv, OrderInv, HandOK, \A id \in Renders : Complete(id), [Next]_vars,
           NEW i \in Renders
    PROVE  Complete(i)'
<1> USE DEF TypeInv, RenderPathTypeOK
<1> DEFINE r == request[i[1]]
<1>0. request' = request /\ There(inputs) \subseteq There(inputs)'
  BY MoreFiles
<1>1. left[i] \in Seq(Role \X There(inputs)')
  BY <1>0, FewerNames DEF Complete
<1>2. ASSUME left'[i] = left[i], pics'[i] = pics[i], thread'[i] = "none" <=> thread[i] = "none"
      PROVE  Complete(i)'
  BY <1>0, <1>1, <1>2 DEF Complete, AllThere
<1>3. CASE Submit
  <2> DEFINE id == <<sjob, tries[sjob]>>
             s == request[sjob]
  <2>1. /\ todo = <<>> /\ pics' = pics
        /\ thread' = [thread EXCEPT ![id] = "new"]
        /\ left' = [left EXCEPT ![id] = Completed(s, staged)] /\ sjob # 0
    BY <1>3 DEF Submit
  <2>2. s \in Requests /\ id \in Renders /\ pics[id] = <<>> /\ sjob \in Jobs
    BY <1>3, FreshRender
  <2>3. ASSUME i = id PROVE Complete(i)'
    <3>1. left'[i] = Completed(s, staged) /\ pics'[i] = <<>> /\ i[1] = sjob
      BY <2>1, <2>2, <2>3
    <3>2. staged \in Seq(Role \X There(inputs)')
      BY <1>0, FewerNames DEF HandOK
    <3>3. left'[i] \in Seq(Role \X There(inputs)')
      <4> DEFINE T == There(inputs)'
      <4>1. staged \in Seq(Role \X T)
        BY <3>2
      <4> HIDE DEF T
      <4>2. Completed(s, staged) \in Seq(Role \X T)
        BY ONLY <4>1, CompletedNames
      <4> QED
        BY <3>1, <4>2 DEF T
    <3>4. AllThere(s) => staged = Wanted(s)
      BY <2>1, <2>2, DueEnd DEF HandOK
    <3>5. pics'[i] \o left'[i] = left'[i]
      BY <3>1, <3>3, ConcatEmptySeq
    <3> QED
      BY <1>0, <3>1, <3>3, <3>4, <3>5 DEF Complete
  <2>4. ASSUME i # id PROVE Complete(i)'
    BY <1>2, <2>1, <2>4
  <2> QED
    BY <2>3, <2>4
<1>4. ASSUME NEW id \in Renders, UploadImage(id)
      PROVE  Complete(i)'
  <2>1. CASE id # i
    <3>1. left'[i] = left[i] /\ pics'[i] = pics[i] /\ thread' = thread
      BY <1>4, <2>1 DEF UploadImage
    <3> QED
      BY <1>2, <3>1
  <2>2. CASE id = i
    <3>1. left[i] # <<>> /\ left'[i] = Tail(left[i]) /\ thread' = thread /\ inputs' = inputs
      BY <1>4, <2>2 DEF UploadImage
    <3>2. left[i] \in Seq(Role \X There(inputs))
      BY DEF Complete
    <3>3. /\ Head(left[i]) \in Role \X There(inputs)
          /\ Tail(left[i]) \in Seq(Role \X There(inputs)')
      BY <1>0, <3>1, <3>2, HeadTailProperties, FewerNames
    <3>4. inputs[Head(left[i])[2]] # NoFile
      BY <3>3 DEF There
    <3>5. pics'[i] = Append(pics[i], Head(left[i]))
      BY <1>4, <2>2, <3>4 DEF UploadImage
    <3>6. pics'[i] \o left'[i] = pics[i] \o left[i]
      <4>1. pics[i] \in Seq(Picture) /\ left[i] \in Seq(Picture)
        OBVIOUS
      <4>2. Append(pics[i], Head(left[i])) \o Tail(left[i]) = pics[i] \o left[i]
        BY ONLY <4>1, <3>1, HandOver
      <4> QED
        BY <3>1, <3>5, <4>2
    <3>7. thread[i] # "none" /\ AllThere(r) => pics[i] \o left[i] = Completed(r, Wanted(r))
      BY DEF Complete
    <3> QED
      BY <1>0, <3>1, <3>3, <3>6, <3>7 DEF Complete
  <2> QED
    BY <2>1, <2>2
<1>5. ASSUME NEW id \in Renders, Begin(id) \/ SubmitPrompt(id) \/ EndThread(id)
      PROVE  Complete(i)'
  <2>1. UNCHANGED <<left, pics>> /\ (thread'[i] = "none" <=> thread[i] = "none")
    BY <1>5 DEF Begin, SubmitPrompt, EndThread
  <2> QED
    BY <1>2, <2>1
<1>6. ASSUME NEW j \in Jobs,
             SaveFirst(j) \/ SaveLast(j) \/ CreateJob(j) \/ PickJob(j) \/ Settle(j)
      PROVE  Complete(i)'
  BY <1>2, <1>6 DEF SaveFirst, SaveLast, CreateJob, PickJob, Settle, agentVars
<1>7. CASE StageFile \/ SkipFile \/ SubmitFails \/ UNCHANGED vars
  BY <1>2, <1>7 DEF StageFile, SkipFile, SubmitFails, vars, agentVars
<1>8. ASSUME NEW id \in Renders, RenderPrompt(id)
      PROVE  Complete(i)'
  BY <1>2, <1>8 DEF RenderPrompt, agentVars
<1> QED
  BY <1>3, <1>4, <1>5, <1>6, <1>7, <1>8 DEF Next

\* Every step keeps all three.
LEMMA ExactStep ==
    ASSUME TypeInv, OrderInv, ExactInv, [Next]_vars
    PROVE  ExactInv'
<1>1. StoreOK' /\ HandOK'
  BY StoreStep, HandStep DEF ExactInv
<1>2. ASSUME NEW i \in Renders PROVE Complete(i)'
  BY CompleteStep DEF ExactInv
<1> QED
  BY <1>1, <1>2 DEF ExactInv

\* A prompt that is queued shows what was asked for.
LEMMA QueuedAsked ==
    ASSUME TypeInv, OrderInv, ExactInv, [Next]_vars, NEW id \in Renders,
           Queued(id), AllThere(request[id[1]])
    PROVE  Pictures(GraphOf(id), request[id[1]]) = Asked(request[id[1]])
<1> DEFINE r == request[id[1]]
           wanted == Completed(r, Wanted(r))
           s == prompt'[id][1]
<1>1. /\ r \in Requests /\ request' = request /\ Prompting(r, s)
      /\ s = Completed(r, pics[id]) /\ thread[id] = "prepare" /\ left[id] = <<>>
  BY QueuedPrompting
<1>2. pics[id] \in Seq(Picture)
  BY DEF TypeInv, RenderPathTypeOK
<1>3. pics[id] \o left[id] = wanted
  BY <1>1 DEF ExactInv, Complete
<1>4. pics[id] = wanted
  BY <1>1, <1>2, <1>3, ConcatEmptySeq
<1>5. s = wanted
  <2>1. Wanted(r) \in Seq(Picture)
    BY <1>1, WantedFits
  <2>2. Completed(r, wanted) = wanted
    BY <2>1, CompletedTwice
  <2> QED
    BY <1>1, <1>4, <2>2
<1>6. Pictures(Graph(r, s), r) = Asked(r)
  BY <1>1, <1>5, AskedIsShown
<1>7. GraphOf(id) = Graph(r, s)
  BY DEF GraphOf
<1> QED
  BY <1>6, <1>7

\* _submit, upload_input, _execute and the adapters: if every file a request names is
\* there when its job is created, the graph shows the model the client's pictures, all
\* of them and in its order, whatever other jobs, retries and failures do meanwhile.
THEOREM PicturesInOrderAlways == Spec => PicturesInOrder
<1> DEFINE Inv == TypeInv /\ OrderInv /\ ExactInv
<1>1. ASSUME Inv, [Next]_vars
      PROVE  \A id \in Renders : Queued(id) /\ AllThere(request[id[1]])
                => Pictures(GraphOf(id), request[id[1]]) = Asked(request[id[1]])
  BY <1>1, QueuedAsked
<1>2. Inv /\ [Next]_vars => Inv'
  BY TypeInvStep, OrderStep, ExactStep
<1>3. Init => Inv
  BY TypeInvInit, OrderInit, ExactInit
<1> QED
  BY <1>1, <1>2, <1>3, PTL DEF Spec, PicturesInOrder
==============================================================================
