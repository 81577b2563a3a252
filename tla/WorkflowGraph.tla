---------------------------- MODULE WorkflowGraph ----------------------------
(***************************************************************************)
(* The prompt graphs the three workflow adapters build for ComfyUI: a      *)
(* function from nodes, named after the N_ constants, to their class and   *)
(* their links.  A link <<n, k>> is output k of node n; inputs that are    *)
(* literals are left out, except the file name of a LoadImage.             *)
(*                                                                         *)
(* "pics" are the pictures the adapter is given, as pairs of a role and a  *)
(* file name, in the order of the request.                                 *)
(***************************************************************************)
EXTENDS Canvas, Sequences

\* Two parts of a graph, or of a node's links, side by side.
f ++ g == [x \in DOMAIN f \cup DOMAIN g |-> IF x \in DOMAIN f THEN f[x] ELSE g[x]]

Node(class, links) == [class |-> class, in |-> links]

LoadImage(name) == [class |-> "LoadImage", in |-> <<>>, image |-> name]

\* The names given to the pictures of one role.
Named(pics, role) ==
    LET of[k \in 0 .. Len(pics)] ==
            IF k = 0 THEN <<>>
            ELSE IF pics[k][1] = role THEN Append(of[k - 1], pics[k][2]) ELSE of[k - 1]
    IN  of[Len(pics)]

FirstN(s, n) == SubSeq(s, 1, Smaller(Len(s), n))

RefNode == <<"ref1", "ref2", "ref3", "ref4", "ref5", "ref6", "ref7", "ref8", "ref9">>
BatchNode == <<"", "batch2", "batch3", "batch4", "batch5", "batch6", "batch7",
               "batch8", "batch9">>
RefPort == <<"ref_image_0", "ref_image_1", "ref_image_2">>

\* One LoadImage node per reference.
LoadRefs(names) ==
    [n \in {RefNode[k] : k \in 1 .. Len(names)} |->
        LoadImage(names[CHOOSE k \in 1 .. Len(names) : RefNode[k] = n])]

-----------------------------------------------------------------------------
(* FL2VA and R2V share the loaders and everything behind the core node.    *)

Loaders ==
    [UNET |-> Node("UNETLoader", <<>>), CLIP |-> Node("CLIPLoader", <<>>),
     VAE_V |-> Node("VAELoader", <<>>), VAE_A |-> Node("VAELoader", <<>>)]

Rest(model, sigmas) ==
    [NOISE |-> Node("RandomNoise", <<>>),
     GUIDER |-> Node("BasicGuider", [model |-> model, conditioning |-> <<"CORE", 0>>]),
     SEL |-> Node("KSamplerSelect", <<>>),
     SAMPLER |-> Node("SamplerCustomAdvanced",
         [noise |-> <<"NOISE", 0>>, guider |-> <<"GUIDER", 0>>, sampler |-> <<"SEL", 0>>,
          sigmas |-> sigmas, latent_image |-> <<"CORE", 1>>]),
     VDEC |-> Node("VAEDecode", [samples |-> <<"SAMPLER", 0>>, vae |-> <<"VAE_V", 0>>]),
     ADEC |-> Node("VAEDecodeAudio", [samples |-> <<"SAMPLER", 0>>, vae |-> <<"VAE_A", 0>>]),
     CREATE |-> Node("CreateVideo", [images |-> <<"VDEC", 0>>, audio |-> <<"ADEC", 0>>]),
     SAVE |-> Node("SaveVideo", [video |-> <<"CREATE", 0>>])]

\* WorkflowAdapter.build_prompt
FL2VAGraph(pics) ==
    LET first == Named(pics, "first")[1]
        last == Named(pics, "last")[1]
    IN  Loaders
        ++ [first |-> LoadImage(first), last |-> LoadImage(last)]
        ++ [CORE |-> Node("MiniMaxH3ImageToVideo",
                [clip |-> <<"CLIP", 0>>, vae |-> <<"VAE_V", 0>>,
                 first_frame |-> <<"first", 0>>, last_frame |-> <<"last", 0>>]),
            SCHED |-> Node("BasicScheduler", [model |-> <<"UNET", 0>>])]
        ++ Rest(<<"UNET", 0>>, <<"SCHED", 0>>)

\* The core node of R2V with its references, three at most.
R2VCore(names) ==
    [CORE |-> Node("MiniMaxH3ReferenceToVideo",
        [clip |-> <<"CLIP", 0>>, vae |-> <<"VAE_V", 0>>, audio_vae |-> <<"VAE_A", 0>>]
        ++ [p \in {RefPort[k] : k \in 1 .. Len(names)} |->
                <<RefNode[CHOOSE k \in 1 .. Len(names) : RefPort[k] = p], 0>>])]

\* The turbo LoRA behind its two switches; without it the plain model.
TurboBranch ==
    [LORA |-> Node("LoraLoaderModelOnly", [model |-> <<"UNET", 0>>]),
     SW_MODEL |-> Node("ComfySwitchNode",
         [on_false |-> <<"UNET", 0>>, on_true |-> <<"LORA", 0>>]),
     SW_STEPS |-> Node("ComfySwitchNode", <<>>),
     SCHED |-> Node("BasicScheduler",
         [model |-> <<"SW_MODEL", 0>>, steps |-> <<"SW_STEPS", 0>>])]

PlainBranch == [SCHED |-> Node("BasicScheduler", [model |-> <<"UNET", 0>>])]

\* The PDD LoRA brings its own sigmas and leaves the scheduler out.
PDDBranch == [PDD |-> Node("UC_MiniMaxH3PDDAcc", [model |-> <<"UNET", 0>>])]

\* Mutants of R2VModel: the scheduler keeps feeding the sampler under PDD; the
\* turbo LoRA is stacked under PDD.
R2VModelScheduled(r) ==
    IF r.pdd THEN [branch |-> PDDBranch, model |-> <<"PDD", 0>>, sigmas |-> <<"SCHED", 0>>]
    ELSE IF r.turbo THEN [branch |-> TurboBranch, model |-> <<"SW_MODEL", 0>>, sigmas |-> <<"SCHED", 0>>]
    ELSE [branch |-> PlainBranch, model |-> <<"UNET", 0>>, sigmas |-> <<"SCHED", 0>>]

R2VModelStacked(r) ==
    IF r.turbo THEN [branch |-> TurboBranch, model |-> <<"UNET", 0>>, sigmas |-> <<"SCHED", 0>>]
    ELSE IF r.pdd THEN [branch |-> PDDBranch, model |-> <<"PDD", 0>>, sigmas |-> <<"PDD", 1>>]
    ELSE [branch |-> PlainBranch, model |-> <<"UNET", 0>>, sigmas |-> <<"SCHED", 0>>]

\* PDD overrides turbo.
R2VModel(r) ==
    IF r.pdd THEN [branch |-> PDDBranch, model |-> <<"PDD", 0>>, sigmas |-> <<"PDD", 1>>]
    ELSE IF r.turbo
    THEN [branch |-> TurboBranch, model |-> <<"SW_MODEL", 0>>, sigmas |-> <<"SCHED", 0>>]
    ELSE [branch |-> PlainBranch, model |-> <<"UNET", 0>>, sigmas |-> <<"SCHED", 0>>]

\* R2VWorkflowAdapter.build_prompt
R2VGraph(r, pics) ==
    LET names == FirstN(Named(pics, "ref"), 3)
        m == R2VModel(r)
    IN  Loaders ++ LoadRefs(names) ++ R2VCore(names) ++ m.branch
        ++ Rest(m.model, m.sigmas)

-----------------------------------------------------------------------------
(* Multishot.                                                              *)

MultishotLoaders ==
    [CONTROLS |-> Node("H3StudioControls", <<>>),
     MODEL |-> Node("H3ModelLoaderAny", <<>>),
     CLIP |-> Node("H3ClipLoaderAny", <<>>),
     LORA |-> Node("H3LoraStack", [model |-> <<"MODEL", 0>>]),
     VAE_V |-> Node("VAELoader", <<>>), VAE_A |-> Node("VAELoader", <<>>)]

\* Several references are batched two by two, in their order.
Batches(names) ==
    [n \in {BatchNode[k] : k \in 2 .. Len(names)} |->
        LET k == CHOOSE k \in 2 .. Len(names) : BatchNode[k] = n IN
        Node("ImageBatch",
             [image1 |-> <<IF k = 2 THEN RefNode[1] ELSE BatchNode[k - 1], 0>>,
              image2 |-> <<RefNode[k], 0>>])]

\* The optional inputs of the sampler.
PictureInputs(start, names) ==
    (IF start = <<>> THEN <<>> ELSE [start_image |-> <<"start", 0>>])
    ++ (IF names = <<>> THEN <<>>
        ELSE [reference_images |->
                 <<IF Len(names) = 1 THEN RefNode[1] ELSE BatchNode[Len(names)], 0>>])

\* The agent's request carries no switch for the cache: there it is always on.
MultishotGraph(r, pics) ==
    LET start == Named(pics, "start")
        names == FirstN(Named(pics, "ref"), 9)
        cached == r.cache \/ pics # <<>>
        sampler ==
            [model |-> <<IF cached THEN "CACHE" ELSE "LORA", 0>>, clip |-> <<"CLIP", 0>>,
             video_vae |-> <<"VAE_V", 0>>, audio_vae |-> <<"VAE_A", 0>>,
             width |-> <<"CONTROLS", 0>>, height |-> <<"CONTROLS", 1>>,
             frames_per_shot |-> <<"CONTROLS", 2>>, steps |-> <<"CONTROLS", 3>>]
    IN  MultishotLoaders
        ++ (IF cached THEN [CACHE |-> Node("UC_MiniMaxH3Cache", [model |-> <<"LORA", 0>>])]
            ELSE <<>>)
        ++ (IF start = <<>> THEN <<>> ELSE [start |-> LoadImage(start[1])])
        ++ LoadRefs(names) ++ Batches(names)
        ++ [SAMPLER |-> Node("H3MultishotSampler", sampler ++ PictureInputs(start, names)),
            CREATE |-> Node("CreateVideo",
                [images |-> <<"SAMPLER", 0>>, audio |-> <<"SAMPLER", 1>>]),
            SAVE |-> Node("SaveVideo", [video |-> <<"CREATE", 0>>]),
            SAVE_A |-> Node("SaveAudio", [audio |-> <<"SAMPLER", 1>>])]

\* The factory: which adapter builds the graph of a request.
Graph(r, pics) ==
    CASE r.workflow = FL2VA -> FL2VAGraph(pics)
      [] r.workflow = R2V -> R2VGraph(r, pics)
      [] r.workflow = Multishot -> MultishotGraph(r, pics)
=============================================================================
