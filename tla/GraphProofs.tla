----------------------------- MODULE GraphProofs -----------------------------
(***************************************************************************)
(* The graphs the three adapters build: each is executable, consistent and *)
(* shows the pictures it is given in their order, for every list of        *)
(* pictures the render path may hand to it (Prompting) and every choice of *)
(* the options.  Nothing here is about steps; RenderPathProofs shows that  *)
(* only such lists are handed over.                                        *)
(***************************************************************************)
EXTENDS RenderPathProperties, SequenceTheorems, WellFoundedInduction, TLAPS

-----------------------------------------------------------------------------
(* The parts the graphs are made of.                                       *)

\* What the outputs of the classes are, one by one.
LEMMA OutputTypes ==
    ASSUME NEW G, NEW link
    PROVE  LET class == G[link[1]].class IN
           /\ link[2] = 0 =>
                /\ class \in {"UNETLoader", "LoraLoaderModelOnly", "UC_MiniMaxH3PDDAcc",
                              "UC_MiniMaxH3Cache", "H3ModelLoaderAny", "H3LoraStack"}
                      => OutputType(G, link) = "MODEL"
                /\ class \in {"CLIPLoader", "H3ClipLoaderAny"} => OutputType(G, link) = "CLIP"
                /\ class = "VAELoader" => OutputType(G, link) = "VAE"
                /\ class \in {"LoadImage", "ImageBatch", "VAEDecode", "H3MultishotSampler"}
                      => OutputType(G, link) = "IMAGE"
                /\ class = "RandomNoise" => OutputType(G, link) = "NOISE"
                /\ class = "BasicGuider" => OutputType(G, link) = "GUIDER"
                /\ class = "BasicScheduler" => OutputType(G, link) = "SIGMAS"
                /\ class = "KSamplerSelect" => OutputType(G, link) = "SAMPLER"
                /\ class = "SamplerCustomAdvanced" => OutputType(G, link) = "LATENT"
                /\ class \in {"MiniMaxH3ImageToVideo", "MiniMaxH3ReferenceToVideo"}
                      => OutputType(G, link) = "CONDITIONING"
                /\ class = "VAEDecodeAudio" => OutputType(G, link) = "AUDIO"
                /\ class = "CreateVideo" => OutputType(G, link) = "VIDEO"
           /\ link[2] = 1 =>
                /\ class = "UC_MiniMaxH3PDDAcc" => OutputType(G, link) = "SIGMAS"
                /\ class \in {"MiniMaxH3ImageToVideo", "MiniMaxH3ReferenceToVideo"}
                      => OutputType(G, link) = "LATENT"
                /\ class = "H3MultishotSampler" => OutputType(G, link) = "AUDIO"
           /\ class = "H3StudioControls" /\ link[2] \in 0 .. 3 => OutputType(G, link) = "INT"
           /\ class = "ComfySwitchNode" =>
                OutputType(G, link) = IF G[link[1]].in = <<>> THEN "INT" ELSE "MODEL"
BY DEF OutputType, Outputs

\* What the ports take, one by one.
LEMMA PortTypes ==
    /\ \A p \in {"model", "on_false", "on_true"} : PortType[p] = "MODEL"
    /\ \A p \in {"vae", "audio_vae", "video_vae"} : PortType[p] = "VAE"
    /\ \A p \in {"first_frame", "last_frame", "images", "ref_image_0", "ref_image_1",
                 "ref_image_2", "image1", "image2", "start_image", "reference_images"} :
          PortType[p] = "IMAGE"
    /\ PortType["clip"] = "CLIP"
    /\ PortType["conditioning"] = "CONDITIONING"
    /\ PortType["noise"] = "NOISE" /\ PortType["guider"] = "GUIDER"
    /\ PortType["sampler"] = "SAMPLER" /\ PortType["sigmas"] = "SIGMAS"
    /\ \A p \in {"latent_image", "samples"} : PortType[p] = "LATENT"
    /\ PortType["audio"] = "AUDIO" /\ PortType["video"] = "VIDEO"
    /\ \A p \in {"steps", "width", "height", "frames_per_shot"} : PortType[p] = "INT"
BY DEF PortType

\* So that the provers see them one by one.
Nine == {1, 2, 3, 4, 5, 6, 7, 8, 9}

\* The numbers of references there can be.
LEMMA UpToNine == 1 .. 9 = Nine /\ 2 .. 9 = Nine \ {1}
BY DEF Nine

\* Different references are loaded by different nodes.
LEMMA RefNodes ==
    /\ \A k \in 1 .. 9 : RefNode[k] \in {"ref1", "ref2", "ref3", "ref4", "ref5", "ref6",
                                         "ref7", "ref8", "ref9"}
    /\ \A k, l \in 1 .. 9 : RefNode[k] = RefNode[l] => k = l
BY UpToNine DEF RefNode, Nine

\* What loads a reference waits for nothing.
LEMMA RefRank == \A k \in 1 .. 9 : Rank(RefNode[k]) = 0
BY RefNodes DEF Rank

\* A batch is executed after the batches before it.
LEMMA BatchNodes ==
    /\ \A k \in 2 .. 9 : BatchNode[k] \in {"batch2", "batch3", "batch4", "batch5", "batch6",
                                           "batch7", "batch8", "batch9"}
    /\ \A k, l \in 2 .. 9 : BatchNode[k] = BatchNode[l] => k = l
    /\ \A k \in 2 .. 9 : Rank(BatchNode[k]) = k - 1
BY UpToNine DEF BatchNode, Nine, Rank

\* The nodes that load the references.
LEMMA LoadRefsIs ==
    ASSUME NEW S, NEW names \in Seq(S), Len(names) <= 9
    PROVE  /\ DOMAIN LoadRefs(names) = {RefNode[k] : k \in 1 .. Len(names)}
           /\ \A k \in 1 .. Len(names) : LoadRefs(names)[RefNode[k]] = LoadImage(names[k])
<1>1. ASSUME NEW k \in 1 .. Len(names)
      PROVE  (CHOOSE l \in 1 .. Len(names) : RefNode[l] = RefNode[k]) = k
  BY RefNodes
<1> QED
  BY <1>1 DEF LoadRefs

\* The nodes that put them one behind the other.
LEMMA BatchesIs ==
    ASSUME NEW S, NEW names \in Seq(S), Len(names) <= 9
    PROVE  /\ DOMAIN Batches(names) = {BatchNode[k] : k \in 2 .. Len(names)}
           /\ \A k \in 2 .. Len(names) :
               Batches(names)[BatchNode[k]] = Node("ImageBatch",
             [image1 |-> <<IF k = 2 THEN RefNode[1] ELSE BatchNode[k - 1], 0>>,
              image2 |-> <<RefNode[k], 0>>])
<1>1. DOMAIN Batches(names) = {BatchNode[k] : k \in 2 .. Len(names)}
  BY DEF Batches
<1>2. ASSUME NEW k \in 2 .. Len(names)
      PROVE  Batches(names)[BatchNode[k]] = Node("ImageBatch",
             [image1 |-> <<IF k = 2 THEN RefNode[1] ELSE BatchNode[k - 1], 0>>,
              image2 |-> <<RefNode[k], 0>>])
  <2>1. (CHOOSE l \in 2 .. Len(names) : BatchNode[l] = BatchNode[k]) = k
    BY BatchNodes
  <2> QED
    BY <2>1 DEF Batches, Node
<1> QED
  BY <1>1, <1>2

\* The core of an R2V graph has a port for every reference it shows.
LEMMA R2VCoreIs ==
    ASSUME NEW S, NEW names \in Seq(S), Len(names) <= 3
    PROVE  LET core == R2VCore(names)["CORE"] IN
           /\ DOMAIN R2VCore(names) = {"CORE"}
           /\ core.class = "MiniMaxH3ReferenceToVideo"
           /\ DOMAIN core.in = {"clip", "vae", "audio_vae"} \cup {RefPort[k] : k \in 1 .. Len(names)}
           /\ core.in.clip = <<"CLIP", 0>> /\ core.in.vae = <<"VAE_V", 0>>
           /\ core.in.audio_vae = <<"VAE_A", 0>>
           /\ \A k \in 1 .. Len(names) : core.in[RefPort[k]] = <<RefNode[k], 0>>
<1> DEFINE fixed == [clip |-> <<"CLIP", 0>>, vae |-> <<"VAE_V", 0>>, audio_vae |-> <<"VAE_A", 0>>]
           refs == [p \in {RefPort[k] : k \in 1 .. Len(names)} |->
                <<RefNode[CHOOSE k \in 1 .. Len(names) : RefPort[k] = p], 0>>]
<1>0. Len(names) \in Nat /\ 1 .. 3 = {1, 2, 3}
  OBVIOUS
<1>2. /\ \A k \in 1 .. 3 : RefPort[k] \in {"ref_image_0", "ref_image_1", "ref_image_2"}
      /\ \A k, l \in 1 .. 3 : RefPort[k] = RefPort[l] => k = l
  BY <1>0 DEF RefPort
<1>3. /\ DOMAIN refs = {RefPort[k] : k \in 1 .. Len(names)}
      /\ \A k \in 1 .. Len(names) : refs[RefPort[k]] = <<RefNode[k], 0>>
  <2>1. ASSUME NEW k \in 1 .. Len(names)
        PROVE  (CHOOSE l \in 1 .. Len(names) : RefPort[l] = RefPort[k]) = k
    BY <1>0, <1>2
  <2> QED
    BY <2>1
<1>4. /\ DOMAIN fixed = {"clip", "vae", "audio_vae"}
      /\ fixed.clip = <<"CLIP", 0>> /\ fixed.vae = <<"VAE_V", 0>>
      /\ fixed.audio_vae = <<"VAE_A", 0>>
  OBVIOUS
<1>5. /\ DOMAIN R2VCore(names) = {"CORE"}
      /\ R2VCore(names)["CORE"].class = "MiniMaxH3ReferenceToVideo"
      /\ R2VCore(names)["CORE"].in = fixed ++ refs
  BY DEF R2VCore, Node
<1> HIDE DEF fixed, refs
<1>6. DOMAIN (fixed ++ refs) = {"clip", "vae", "audio_vae"} \cup {RefPort[k] : k \in 1 .. Len(names)}
  BY <1>3, <1>4 DEF ++
<1>7. /\ (fixed ++ refs).clip = <<"CLIP", 0>> /\ (fixed ++ refs).vae = <<"VAE_V", 0>>
      /\ (fixed ++ refs).audio_vae = <<"VAE_A", 0>>
  BY <1>4 DEF ++
<1>8. \A k \in 1 .. Len(names) : (fixed ++ refs)[RefPort[k]] = <<RefNode[k], 0>>
  BY <1>0, <1>2, <1>3, <1>4 DEF ++
<1> QED
  BY <1>5, <1>6, <1>7, <1>8

-----------------------------------------------------------------------------
(* Graphs and their parts.                                                 *)

\* The nodes of f are nodes of G.
Part(f, G) == \A n \in DOMAIN f : n \in DOMAIN G /\ G[n] = f[n]

\* No node is in both.
Apart(f, g) == DOMAIN f \cap DOMAIN g = {}

\* Some node is linked to n.
Used(G, n) == \E m \in DOMAIN G : n \in Sources(G, m)

\* A node a port is linked to is used.
LEMMA UsedAt ==
    ASSUME NEW G, NEW m \in DOMAIN G, NEW p \in DOMAIN G[m].in
    PROVE  Used(G, G[m].in[p][1])
BY DEF Used, Sources, Ports

-----------------------------------------------------------------------------
(* What FL2VA and R2V share.                                               *)

\* What comes behind the core.
RestNodes == {"NOISE", "GUIDER", "SEL", "SAMPLER", "VDEC", "ADEC", "CREATE", "SAVE"}

\* The nodes of the parts, one by one.
LoadersIn(G) ==
    /\ {"UNET", "CLIP", "VAE_V", "VAE_A"} \subseteq DOMAIN G
    /\ G["UNET"] = Node("UNETLoader", <<>>) /\ G["CLIP"] = Node("CLIPLoader", <<>>)
    /\ G["VAE_V"] = Node("VAELoader", <<>>) /\ G["VAE_A"] = Node("VAELoader", <<>>)

\* The guider and the scheduler's sigmas are the arguments.
RestIn(G, model, sigmas) ==
    /\ RestNodes \subseteq DOMAIN G
    /\ G["NOISE"] = Node("RandomNoise", <<>>)
    /\ G["SEL"] = Node("KSamplerSelect", <<>>)
    /\ G["GUIDER"] = Node("BasicGuider", [model |-> model, conditioning |-> <<"CORE", 0>>])
    /\ G["SAMPLER"] = Node("SamplerCustomAdvanced",
          [noise |-> <<"NOISE", 0>>, guider |-> <<"GUIDER", 0>>, sampler |-> <<"SEL", 0>>,
           sigmas |-> sigmas, latent_image |-> <<"CORE", 1>>])
    /\ G["VDEC"] = Node("VAEDecode", [samples |-> <<"SAMPLER", 0>>, vae |-> <<"VAE_V", 0>>])
    /\ G["ADEC"] = Node("VAEDecodeAudio", [samples |-> <<"SAMPLER", 0>>, vae |-> <<"VAE_A", 0>>])
    /\ G["CREATE"] = Node("CreateVideo", [images |-> <<"VDEC", 0>>, audio |-> <<"ADEC", 0>>])
    /\ G["SAVE"] = Node("SaveVideo", [video |-> <<"CREATE", 0>>])

\* The loaders are a part every graph of the two workflows has.
LEMMA LoadersIs ==
    /\ DOMAIN Loaders = {"UNET", "CLIP", "VAE_V", "VAE_A"}
    /\ \A G : Part(Loaders, G) => LoadersIn(G)
BY DEF Loaders, Part, LoadersIn

\* So is what comes behind the core.
LEMMA RestIs ==
    ASSUME NEW model, NEW sigmas
    PROVE  /\ DOMAIN Rest(model, sigmas) = RestNodes
           /\ \A G : Part(Rest(model, sigmas), G) => RestIn(G, model, sigmas)
BY DEF Rest, Part, RestNodes, RestIn

\* Everything behind the core node is fed, and uses the core, the model, the
\* sigmas and both VAEs.
LEMMA RestWired ==
    ASSUME NEW G, NEW model, NEW sigmas, RestIn(G, model, sigmas), LoadersIn(G),
           "CORE" \in DOMAIN G,
           G["CORE"].class \in {"MiniMaxH3ImageToVideo", "MiniMaxH3ReferenceToVideo"},
           model[1] \in DOMAIN G, Rank(model[1]) < 3, OutputType(G, model) = "MODEL",
           sigmas[1] \in DOMAIN G, Rank(sigmas[1]) < 9, OutputType(G, sigmas) = "SIGMAS"
    PROVE  /\ \A n \in RestNodes : /\ G[n].class \notin {"LoadImage", "ImageBatch"}
                                   /\ \A p \in Ports(G, n) : Fed(G, n, p)
           /\ \A n \in RestNodes \ Outlets : Used(G, n)
           /\ \A n \in {"CORE", "VAE_V", "VAE_A", model[1], sigmas[1]} : Used(G, n)
<1> USE DEF Node, RestIn, LoadersIn
<1>1. \A p \in Ports(G, "NOISE") \cup Ports(G, "SEL") : FALSE
  BY DEF Ports
<1>2. \A p \in Ports(G, "GUIDER") : Fed(G, "GUIDER", p)
  BY PortTypes, OutputTypes DEF Ports, Fed, Rank, RestNodes
<1>3. \A p \in Ports(G, "SAMPLER") : Fed(G, "SAMPLER", p)
  BY PortTypes, OutputTypes DEF Ports, Fed, Rank, RestNodes
<1>4. \A n \in {"VDEC", "ADEC"} : \A p \in Ports(G, n) : Fed(G, n, p)
  BY PortTypes, OutputTypes DEF Ports, Fed, Rank, RestNodes
<1>5. \A n \in {"CREATE", "SAVE"} : \A p \in Ports(G, n) : Fed(G, n, p)
  BY PortTypes, OutputTypes DEF Ports, Fed, Rank, RestNodes
<1>6. \A n \in RestNodes : G[n].class \notin {"LoadImage", "ImageBatch"}
  BY DEF RestNodes
<1>7. \A n \in RestNodes \ Outlets : Used(G, n)
  BY UsedAt DEF RestNodes, Outlets
<1>8. \A n \in {"CORE", "VAE_V", "VAE_A", model[1], sigmas[1]} : Used(G, n)
  BY UsedAt DEF RestNodes
<1> QED
  BY <1>1, <1>2, <1>3, <1>4, <1>5, <1>6, <1>7, <1>8 DEF RestNodes

-----------------------------------------------------------------------------
(* FL2VA.                                                                  *)

\* The graph the adapter of FL2VA builds from two frames.
FL2VAIn(G, first, last) ==
    /\ DOMAIN G = {"UNET", "CLIP", "VAE_V", "VAE_A", "first", "last", "CORE", "SCHED"}
                  \cup RestNodes
    /\ LoadersIn(G) /\ RestIn(G, <<"UNET", 0>>, <<"SCHED", 0>>)
    /\ G["first"] = LoadImage(first) /\ G["last"] = LoadImage(last)
    /\ G["CORE"] = Node("MiniMaxH3ImageToVideo",
          [clip |-> <<"CLIP", 0>>, vae |-> <<"VAE_V", 0>>,
           first_frame |-> <<"first", 0>>, last_frame |-> <<"last", 0>>])
    /\ G["SCHED"] = Node("BasicScheduler", [model |-> <<"UNET", 0>>])

\* The graph of two frames, node by node.
LEMMA FL2VAIs ==
    ASSUME NEW handed
    PROVE  FL2VAIn(FL2VAGraph(handed), Named(handed, "first")[1], Named(handed, "last")[1])
<1> DEFINE first == Named(handed, "first")[1]
           last == Named(handed, "last")[1]
           frames == [first |-> LoadImage(first), last |-> LoadImage(last)]
           core == [CORE |-> Node("MiniMaxH3ImageToVideo",
                        [clip |-> <<"CLIP", 0>>, vae |-> <<"VAE_V", 0>>,
                         first_frame |-> <<"first", 0>>, last_frame |-> <<"last", 0>>]),
                    SCHED |-> Node("BasicScheduler", [model |-> <<"UNET", 0>>])]
           rest == Rest(<<"UNET", 0>>, <<"SCHED", 0>>)
           G == Loaders ++ frames ++ core ++ rest
<1>1. /\ DOMAIN frames = {"first", "last"} /\ DOMAIN core = {"CORE", "SCHED"}
      /\ DOMAIN Loaders = {"UNET", "CLIP", "VAE_V", "VAE_A"} /\ DOMAIN rest = RestNodes
  BY LoadersIs, RestIs
<1>2. \A H : Part(frames, H) => H["first"] = LoadImage(first) /\ H["last"] = LoadImage(last)
  BY DEF Part
<1>3. \A H : Part(core, H) =>
        /\ H["CORE"] = Node("MiniMaxH3ImageToVideo",
              [clip |-> <<"CLIP", 0>>, vae |-> <<"VAE_V", 0>>,
               first_frame |-> <<"first", 0>>, last_frame |-> <<"last", 0>>])
        /\ H["SCHED"] = Node("BasicScheduler", [model |-> <<"UNET", 0>>])
  BY DEF Part
<1>4. FL2VAGraph(handed) = G
  BY DEF FL2VAGraph
<1> HIDE DEF frames, core, rest
<1>5. /\ Apart(Loaders, frames) /\ Apart(Loaders ++ frames, core)
      /\ Apart(Loaders ++ frames ++ core, rest)
  BY <1>1 DEF Apart, RestNodes, ++
<1>6. /\ Part(Loaders, G) /\ Part(frames, G) /\ Part(core, G) /\ Part(rest, G)
      /\ DOMAIN G = DOMAIN Loaders \cup DOMAIN frames \cup DOMAIN core \cup DOMAIN rest
  BY <1>5 DEF Apart, Part, ++
<1> HIDE DEF G
<1>7. LoadersIn(G) /\ RestIn(G, <<"UNET", 0>>, <<"SCHED", 0>>)
  BY <1>6, LoadersIs, RestIs DEF rest
<1> QED
  BY <1>1, <1>2, <1>3, <1>4, <1>6, <1>7 DEF FL2VAIn

\* It is executable and opens the two frames.
LEMMA FL2VAWired ==
    ASSUME NEW G, NEW first, NEW last, FL2VAIn(G, first, last)
    PROVE  Wired(G, {first, last})
<1> USE DEF FL2VAIn
<1>1. /\ \A n \in RestNodes : /\ G[n].class \notin {"LoadImage", "ImageBatch"}
                              /\ \A p \in Ports(G, n) : Fed(G, n, p)
      /\ \A n \in RestNodes \ Outlets : Used(G, n)
      /\ \A n \in {"CORE", "VAE_V", "VAE_A", "UNET", "SCHED"} : Used(G, n)
  <2>1. /\ G["CORE"].class = "MiniMaxH3ImageToVideo"
        /\ G["UNET"].class = "UNETLoader" /\ G["SCHED"].class = "BasicScheduler"
    BY DEF Node, LoadersIn
  <2>2. /\ OutputType(G, <<"UNET", 0>>) = "MODEL" /\ OutputType(G, <<"SCHED", 0>>) = "SIGMAS"
        /\ Rank("UNET") < 3 /\ Rank("SCHED") < 9
    BY <2>1, OutputTypes DEF Rank
  <2> QED
    BY <2>1, <2>2, RestWired
<1>2. /\ \A n \in {"UNET", "CLIP", "VAE_V", "VAE_A", "first", "last"} : Ports(G, n) = {}
      /\ \A n \in {"UNET", "CLIP", "VAE_V", "VAE_A", "CORE",
                   "SCHED"} : G[n].class \notin {"LoadImage", "ImageBatch"}
      /\ G["first"].class = "LoadImage" /\ G["first"].image = first
      /\ G["last"].class = "LoadImage" /\ G["last"].image = last
  BY DEF LoadersIn, Node, LoadImage, Ports
<1>3. \A n \in {"CORE", "SCHED"} : \A p \in Ports(G, n) : Fed(G, n, p)
  BY PortTypes, OutputTypes DEF LoadersIn, Node, LoadImage, Ports, Fed, Rank
<1>4. \A n \in {"CLIP", "first", "last"} : Used(G, n)
  BY UsedAt DEF Node
<1>5. \A n \in DOMAIN G : \A p \in Ports(G, n) : Fed(G, n, p)
  BY <1>1, <1>2, <1>3
<1>6. \A n \in DOMAIN G \ Outlets : Used(G, n)
  BY <1>1, <1>4 DEF Outlets
<1>7. Opened(G) = {first, last}
  BY <1>1, <1>2 DEF Opened
<1> QED
  BY <1>5, <1>6, <1>7 DEF Wired, Used

-----------------------------------------------------------------------------
(* R2V.                                                                    *)

\* Node n loads a file and nothing else.
LoadsFile(G, n, name) == Ports(G, n) = {} /\ G[n].class = "LoadImage" /\ G[n].image = name

\* What a LoadImage node does, in the terms of the lemmas below.
LEMMA LoadsIt ==
    ASSUME NEW G, NEW x, NEW n, G[n] = LoadImage(x)
    PROVE  LoadsFile(G, n, x)
BY DEF LoadImage, Ports, LoadsFile

\* A part of a graph loads what it loaded on its own.
LEMMA LoadsInPart ==
    ASSUME NEW G, NEW f, NEW x, NEW n, LoadsFile(f, n, x), G[n] = f[n]
    PROVE  LoadsFile(G, n, x)
BY DEF LoadsFile, Ports

\* The references, loaded by a node each.
RefNodesOf(names) == {RefNode[k] : k \in 1 .. Len(names)}
\* G loads them.
RefsIn(G, names) ==
    /\ RefNodesOf(names) \subseteq DOMAIN G
    /\ \A k \in 1 .. Len(names) : LoadsFile(G, RefNode[k], names[k])

\* The references are loaded by the nodes that bear their numbers.
LEMMA RefsLoadFiles ==
    ASSUME NEW S, NEW names \in Seq(S), Len(names) <= 9
    PROVE  \A k \in 1 .. Len(names) : LoadsFile(LoadRefs(names), RefNode[k], names[k])
<1> SUFFICES ASSUME NEW k \in 1 .. Len(names)
             PROVE  LoadsFile(LoadRefs(names), RefNode[k], names[k])
  OBVIOUS
<1>1. LoadRefs(names)[RefNode[k]] = LoadImage(names[k])
  BY LoadRefsIs
<1> QED
  BY <1>1, LoadsIt

\* A graph with these nodes loads the references.
LEMMA RefsArePart ==
    ASSUME NEW S, NEW names \in Seq(S), Len(names) <= 9, NEW G, Part(LoadRefs(names), G)
    PROVE  RefsIn(G, names)
<1>1. DOMAIN LoadRefs(names) = RefNodesOf(names)
  BY LoadRefsIs DEF RefNodesOf
<1> HIDE DEF RefNodesOf
<1>2. RefNodesOf(names) \subseteq DOMAIN G
  BY <1>1 DEF Part
<1>3. ASSUME NEW k \in 1 .. Len(names)
      PROVE  LoadsFile(G, RefNode[k], names[k])
  <2>1. RefNode[k] \in RefNodesOf(names)
    BY DEF RefNodesOf
  <2>2. G[RefNode[k]] = LoadRefs(names)[RefNode[k]]
    BY <2>1, <1>1 DEF Part
  <2> QED
    BY <2>2, LoadsInPart, RefsLoadFiles
<1> QED
  BY <1>2, <1>3 DEF RefsIn

\* The core of an R2V graph.
CoreIn(G, names) ==
    /\ "CORE" \in DOMAIN G
    /\ G["CORE"].class = "MiniMaxH3ReferenceToVideo"
    /\ Ports(G, "CORE") = {"clip", "vae", "audio_vae"} \cup {RefPort[k] : k \in 1 .. Len(names)}
    /\ G["CORE"].in.clip = <<"CLIP", 0>>
    /\ G["CORE"].in.vae = <<"VAE_V", 0>> /\ G["CORE"].in.audio_vae = <<"VAE_A", 0>>
    /\ \A k \in 1 .. Len(names) : G["CORE"].in[RefPort[k]] = <<RefNode[k], 0>>

\* What R2VModel returns: the branch is fed by the loaders and feeds the rest.
BranchOK(m) ==
    /\ DOMAIN m.branch \subseteq {"LORA", "SW_MODEL", "SW_STEPS", "SCHED", "PDD"}
    /\ \A G : LoadersIn(G) /\ Part(m.branch, G) =>
          /\ \A n \in DOMAIN m.branch : /\ G[n].class \notin {"LoadImage", "ImageBatch"}
                                        /\ \A p \in Ports(G, n) : Fed(G, n, p)
          /\ \A n \in DOMAIN m.branch \cup {"UNET"} :
                n \in {m.model[1], m.sigmas[1]} \/ Used(G, n)
          /\ m.model[1] \in DOMAIN G /\ Rank(m.model[1]) < 3 /\ OutputType(G, m.model) = "MODEL"
          /\ m.sigmas[1] \in DOMAIN G /\ Rank(m.sigmas[1]) < 9
          /\ OutputType(G, m.sigmas) = "SIGMAS"

\* Plain, turbo or PDD: each choice of the two switches makes such a branch.
LEMMA BranchIsOK ==
    ASSUME NEW r, r.pdd \in BOOLEAN, r.turbo \in BOOLEAN
    PROVE  BranchOK(R2VModel(r))
<1> USE DEF Node
<1>1. CASE r.pdd
  <2> DEFINE m == [branch |-> PDDBranch, model |-> <<"PDD", 0>>, sigmas |-> <<"PDD", 1>>]
  <2>1. R2VModel(r) = m
    BY <1>1 DEF R2VModel
  <2>2. DOMAIN m.branch = {"PDD"}
    BY DEF PDDBranch
  <2>3. ASSUME NEW G, LoadersIn(G), Part(m.branch, G)
        PROVE  /\ "PDD" \in DOMAIN G /\ G["PDD"].class = "UC_MiniMaxH3PDDAcc"
               /\ Ports(G, "PDD") = {"model"} /\ G["PDD"].in["model"] = <<"UNET", 0>>
    BY <2>3 DEF Part, PDDBranch, Ports
  <2>4. ASSUME NEW G, LoadersIn(G), Part(m.branch, G)
        PROVE  /\ \A p \in Ports(G, "PDD") : Fed(G, "PDD", p)
               /\ Used(G, "UNET")
               /\ OutputType(G, <<"PDD", 0>>) = "MODEL"
               /\ OutputType(G, <<"PDD", 1>>) = "SIGMAS"
    <3>1. Used(G, "UNET")
      BY <2>3, <2>4, UsedAt DEF Ports
    <3>2. \A p \in Ports(G, "PDD") : Fed(G, "PDD", p)
      BY <2>3, <2>4, PortTypes, OutputTypes DEF Fed, Rank, LoadersIn
    <3> QED
      BY <2>3, <2>4, <3>1, <3>2, OutputTypes
  <2> QED
    BY <2>1, <2>2, <2>3, <2>4 DEF BranchOK, Rank
<1>2. CASE ~r.pdd /\ r.turbo
  <2> DEFINE m == [branch |-> TurboBranch, model |-> <<"SW_MODEL", 0>>, sigmas |-> <<"SCHED", 0>>]
  <2>1. R2VModel(r) = m
    BY <1>2 DEF R2VModel
  <2>2. DOMAIN m.branch = {"LORA", "SW_MODEL", "SW_STEPS", "SCHED"}
    BY DEF TurboBranch
  <2>3. ASSUME NEW G, LoadersIn(G), Part(m.branch, G)
        PROVE  /\ {"UNET", "LORA", "SW_MODEL", "SW_STEPS", "SCHED"} \subseteq DOMAIN G
               /\ G["UNET"] = Node("UNETLoader", <<>>)
               /\ G["LORA"] = Node("LoraLoaderModelOnly", [model |-> <<"UNET", 0>>])
               /\ G["SW_MODEL"] = Node("ComfySwitchNode",
                     [on_false |-> <<"UNET", 0>>, on_true |-> <<"LORA", 0>>])
               /\ G["SW_STEPS"] = Node("ComfySwitchNode", <<>>)
               /\ G["SCHED"] = Node("BasicScheduler",
                     [model |-> <<"SW_MODEL", 0>>, steps |-> <<"SW_STEPS", 0>>])
    BY <2>3 DEF Part, TurboBranch, LoadersIn
  <2>4. ASSUME NEW G, LoadersIn(G), Part(m.branch, G)
        PROVE  /\ \A n \in DOMAIN m.branch : /\ G[n].class \notin {"LoadImage", "ImageBatch"}
                                             /\ \A p \in Ports(G, n) : Fed(G, n, p)
               /\ \A n \in {"UNET", "LORA", "SW_MODEL", "SW_STEPS"} : Used(G, n)
               /\ OutputType(G, <<"SW_MODEL", 0>>) = "MODEL"
               /\ OutputType(G, <<"SCHED", 0>>) = "SIGMAS"
    <3>1. /\ G["SW_MODEL"].in # <<>> /\ G["SW_STEPS"].in = <<>>
          /\ G["SW_MODEL"].class = "ComfySwitchNode" /\ G["SW_STEPS"].class = "ComfySwitchNode"
          /\ G["LORA"].class = "LoraLoaderModelOnly" /\ G["UNET"].class = "UNETLoader"
          /\ G["SCHED"].class = "BasicScheduler"
      BY <2>3, <2>4
    <3>2. /\ OutputType(G, <<"SW_MODEL", 0>>) = "MODEL"
          /\ OutputType(G, <<"SW_STEPS", 0>>) = "INT"
          /\ OutputType(G, <<"SCHED", 0>>) = "SIGMAS" /\ OutputType(G, <<"UNET", 0>>) = "MODEL"
          /\ OutputType(G, <<"LORA", 0>>) = "MODEL"
      BY <3>1, OutputTypes
    <3>3. \A p \in Ports(G, "LORA") : Fed(G, "LORA", p)
      BY <2>3, <2>4, <3>2, PortTypes DEF Fed, Rank, Ports
    <3>4. \A p \in Ports(G, "SW_MODEL") : Fed(G, "SW_MODEL", p)
      BY <2>3, <2>4, <3>2, PortTypes DEF Fed, Rank, Ports
    <3>5. \A p \in Ports(G, "SCHED") : Fed(G, "SCHED", p)
      BY <2>3, <2>4, <3>2, PortTypes DEF Fed, Rank, Ports
    <3>6. Ports(G, "SW_STEPS") = {}
      BY <2>3, <2>4 DEF Ports
    <3>7. \A n \in {"UNET", "LORA", "SW_MODEL", "SW_STEPS"} : Used(G, n)
      BY <2>3, <2>4, UsedAt
    <3> QED
      BY <2>2, <3>1, <3>2, <3>3, <3>4, <3>5, <3>6, <3>7
  <2> QED
    BY <2>1, <2>2, <2>3, <2>4 DEF BranchOK, Rank
<1>3. CASE ~r.pdd /\ ~r.turbo
  <2> DEFINE m == [branch |-> PlainBranch, model |-> <<"UNET", 0>>, sigmas |-> <<"SCHED", 0>>]
  <2>1. R2VModel(r) = m
    BY <1>3 DEF R2VModel
  <2>2. DOMAIN m.branch = {"SCHED"}
    BY DEF PlainBranch
  <2>3. ASSUME NEW G, LoadersIn(G), Part(m.branch, G)
        PROVE  /\ "SCHED" \in DOMAIN G /\ G["SCHED"].class = "BasicScheduler"
               /\ Ports(G, "SCHED") = {"model"} /\ G["SCHED"].in["model"] = <<"UNET", 0>>
               /\ "UNET" \in DOMAIN G /\ G["UNET"].class = "UNETLoader"
    BY <2>3 DEF Part, PlainBranch, Ports, LoadersIn
  <2>4. ASSUME NEW G, LoadersIn(G), Part(m.branch, G)
        PROVE  /\ \A p \in Ports(G, "SCHED") : Fed(G, "SCHED", p)
               /\ OutputType(G, <<"UNET", 0>>) = "MODEL"
               /\ OutputType(G, <<"SCHED", 0>>) = "SIGMAS"
    <3>2. \A p \in Ports(G, "SCHED") : Fed(G, "SCHED", p)
      BY <2>3, <2>4, PortTypes, OutputTypes DEF Fed, Rank
    <3> QED
      BY <2>3, <2>4, <3>2, OutputTypes
  <2> QED
    BY <2>1, <2>2, <2>3, <2>4 DEF BranchOK, Rank
<1> QED
  BY <1>1, <1>2, <1>3

\* The graph the adapter of R2V builds, with the branch m.
R2VIn(G, names, m) ==
    /\ DOMAIN G = {"UNET", "CLIP", "VAE_V", "VAE_A", "CORE"} \cup RefNodesOf(names)
                  \cup DOMAIN m.branch \cup RestNodes
    /\ LoadersIn(G) /\ RefsIn(G, names) /\ CoreIn(G, names) /\ Part(m.branch, G)
    /\ RestIn(G, m.model, m.sigmas)

\* The reference nodes, by name.
LEMMA LoadRefsDomain ==
    ASSUME NEW S, NEW names \in Seq(S), Len(names) <= 9
    PROVE  DOMAIN LoadRefs(names) = RefNodesOf(names)
<1> QED
  BY LoadRefsIs DEF RefNodesOf

\* The graph of at most three references, part by part.
LEMMA R2VIs ==
    ASSUME NEW r, NEW handed, NEW S, r.pdd \in BOOLEAN, r.turbo \in BOOLEAN,
           FirstN(Named(handed, "ref"), 3) \in Seq(S), Len(FirstN(Named(handed, "ref"), 3)) <= 3
    PROVE  R2VIn(R2VGraph(r, handed), FirstN(Named(handed, "ref"), 3), R2VModel(r))
<1> DEFINE names == FirstN(Named(handed, "ref"), 3)
           m == R2VModel(r)
           refs == LoadRefs(names)
           core == R2VCore(names)
           branch == m.branch
           rest == Rest(m.model, m.sigmas)
           G == Loaders ++ refs ++ core ++ branch ++ rest
<1>1. R2VGraph(r, handed) = G
  BY DEF R2VGraph
<1>n. names \in Seq(S) /\ Len(names) \in Nat /\ Len(names) <= 3
  BY LenProperties
<1>m. BranchOK(m)
  BY BranchIsOK
<1> HIDE DEF names, m
<1>2. /\ DOMAIN Loaders = {"UNET", "CLIP", "VAE_V", "VAE_A"} /\ DOMAIN rest = RestNodes
      /\ DOMAIN branch \subseteq {"LORA", "SW_MODEL", "SW_STEPS", "SCHED", "PDD"}
  BY <1>m, LoadersIs, RestIs DEF BranchOK
<1>2a. DOMAIN refs = RefNodesOf(names)
  <2>1. Len(names) <= 9
    BY <1>n
  <2> QED
    BY <1>n, <2>1, LoadRefsDomain
<1>2b. DOMAIN core = {"CORE"}
  BY <1>n, R2VCoreIs
<1>3. RefNodesOf(names) \subseteq {"ref1", "ref2", "ref3", "ref4", "ref5", "ref6", "ref7",
                                   "ref8", "ref9"}
  BY <1>n, RefNodes DEF RefNodesOf
<1>4. \A H : Part(refs, H) => RefsIn(H, names)
  BY <1>n, RefsArePart
<1>5. \A H : Part(core, H) => CoreIn(H, names)
  BY <1>n, R2VCoreIs DEF CoreIn, Part, Ports
<1> HIDE DEF refs, core, branch, rest
<1>6. /\ Apart(Loaders, refs) /\ Apart(Loaders ++ refs, core)
      /\ Apart(Loaders ++ refs ++ core, branch)
      /\ Apart(Loaders ++ refs ++ core ++ branch, rest)
  BY <1>2, <1>2a, <1>2b, <1>3 DEF Apart, RestNodes, ++
<1>7. /\ Part(Loaders, G) /\ Part(refs, G) /\ Part(core, G) /\ Part(branch, G) /\ Part(rest, G)
      /\ DOMAIN G = DOMAIN Loaders \cup DOMAIN refs \cup DOMAIN core \cup DOMAIN branch \cup DOMAIN rest
  BY <1>6 DEF Apart, Part, ++
<1> HIDE DEF G
<1>8. LoadersIn(G) /\ RestIn(G, m.model, m.sigmas)
  BY <1>7, LoadersIs, RestIs DEF rest
<1>9. RefsIn(G, names)
  BY <1>4, <1>7
<1>10. R2VIn(G, names, m)
  BY <1>2, <1>2a, <1>2b, <1>5, <1>7, <1>8, <1>9 DEF R2VIn, branch
<1> QED
  BY <1>1, <1>10 DEF names, m

\* Node n is there, loads a file and hands out a picture.
Loader(G, n, file) ==
    n \in DOMAIN G /\ LoadsFile(G, n, file) /\ Rank(n) = 0 /\ OutputType(G, <<n, 0>>) = "IMAGE"

\* A reference node can be linked to an IMAGE port.
LEMMA RefsLoad ==
    ASSUME NEW G, NEW S, NEW names \in Seq(S), Len(names) <= 9, RefsIn(G, names),
           NEW k \in 1 .. Len(names)
    PROVE  Loader(G, RefNode[k], names[k])
<1>1. LoadsFile(G, RefNode[k], names[k])
  BY DEF RefsIn
<1>2. RefNode[k] \in DOMAIN G
  <2>1. RefNode[k] \in RefNodesOf(names)
    BY DEF RefNodesOf
  <2> QED
    BY <2>1 DEF RefsIn
<1>3. G[RefNode[k]].class = "LoadImage"
  BY <1>1 DEF LoadsFile
<1>4. OutputType(G, <<RefNode[k], 0>>) = "IMAGE"
  BY <1>3, OutputTypes
<1> QED
  BY <1>1, <1>2, <1>4, RefRank DEF Loader

\* It is executable and opens the references it shows.
LEMMA R2VWired ==
    ASSUME NEW G, NEW S, NEW names \in Seq(S), Len(names) <= 3, NEW m, BranchOK(m),
           R2VIn(G, names, m)
    PROVE  Wired(G, {names[k] : k \in 1 .. Len(names)})
<1> USE DEF R2VIn
<1>0. ASSUME NEW k \in 1 .. Len(names) PROVE Loader(G, RefNode[k], names[k])
  <2>1. Len(names) <= 9 /\ RefsIn(G, names)
    BY LenProperties
  <2> QED
    BY <2>1, RefsLoad
<1>1. /\ \A n \in RestNodes : /\ G[n].class \notin {"LoadImage", "ImageBatch"}
                              /\ \A p \in Ports(G, n) : Fed(G, n, p)
      /\ \A n \in RestNodes \ Outlets : Used(G, n)
      /\ \A n \in {"CORE", "VAE_V", "VAE_A", m.model[1], m.sigmas[1]} : Used(G, n)
  BY RestWired DEF BranchOK, CoreIn
<1>2. /\ \A n \in DOMAIN m.branch : /\ G[n].class \notin {"LoadImage", "ImageBatch"}
                                    /\ \A p \in Ports(G, n) : Fed(G, n, p)
      /\ \A n \in DOMAIN m.branch \cup {"UNET"} : Used(G, n)
  BY <1>1 DEF BranchOK
<1>3. \A n \in {"UNET", "CLIP", "VAE_V", "VAE_A"} : Ports(G, n) = {} /\ G[n].class \notin {"LoadImage", "ImageBatch"}
  BY DEF LoadersIn, Node, Ports
<1>4. \A p \in Ports(G, "CORE") : Fed(G, "CORE", p)
  <2>1. \A p \in {"clip", "vae", "audio_vae"} : Fed(G, "CORE", p)
    BY PortTypes, OutputTypes DEF LoadersIn, Node, CoreIn, Fed, Rank
  <2>2. ASSUME NEW k \in 1 .. Len(names)
        PROVE  Fed(G, "CORE", RefPort[k])
    <3>1. RefPort[k] \in {"ref_image_0", "ref_image_1", "ref_image_2"}
      BY DEF RefPort
    <3>2. /\ RefNode[k] \in DOMAIN G /\ Rank(RefNode[k]) = 0
          /\ OutputType(G, <<RefNode[k], 0>>) = "IMAGE"
      BY <1>0 DEF Loader
    <3>3. RefPort[k] \in Ports(G, "CORE") /\ G["CORE"].in[RefPort[k]] = <<RefNode[k], 0>>
      BY DEF CoreIn
    <3>4. Rank("CORE") = 1 /\ PortType[RefPort[k]] = "IMAGE"
      BY <3>1, PortTypes DEF Rank
    <3> QED
      BY <3>2, <3>3, <3>4 DEF Fed
  <2> QED
    BY <2>1, <2>2 DEF CoreIn
<1>5. G["CORE"].class \notin {"LoadImage", "ImageBatch"} /\ Used(G, "CLIP")
      /\ \A k \in 1 .. Len(names) : Used(G, RefNode[k])
  <2>1. \A p \in Ports(G, "CORE") : Used(G, G["CORE"].in[p][1])
    BY UsedAt DEF CoreIn, Ports
  <2>2. ASSUME NEW k \in 1 .. Len(names) PROVE Used(G, RefNode[k])
    <3>1. RefPort[k] \in Ports(G, "CORE") /\ G["CORE"].in[RefPort[k]] = <<RefNode[k], 0>>
      BY DEF CoreIn
    <3> QED
      BY <2>1, <3>1
  <2>3. G["CORE"].class \notin {"LoadImage", "ImageBatch"} /\ Used(G, "CLIP")
    BY <2>1 DEF CoreIn
  <2> QED
    BY <2>2, <2>3
<1>6. \A n \in RefNodesOf(names) :
          /\ Ports(G, n) = {} /\ G[n].class = "LoadImage" /\ Used(G, n)
          /\ G[n].image \in {names[k] : k \in 1 .. Len(names)}
  <2> SUFFICES ASSUME NEW k \in 1 .. Len(names)
               PROVE  /\ Ports(G, RefNode[k]) = {} /\ G[RefNode[k]].class = "LoadImage"
                      /\ Used(G, RefNode[k]) /\ G[RefNode[k]].image = names[k]
    BY DEF RefNodesOf
  <2> QED
    BY <1>0, <1>5 DEF Loader, LoadsFile
<1>7. \A n \in DOMAIN G : \A p \in Ports(G, n) : Fed(G, n, p)
  BY <1>1, <1>2, <1>3, <1>4, <1>6
<1>8. \A n \in DOMAIN G \ Outlets : Used(G, n)
  BY <1>1, <1>2, <1>5, <1>6
<1>9. Opened(G) = {names[k] : k \in 1 .. Len(names)}
  <2>1. \A n \in DOMAIN G : G[n].class = "LoadImage" => n \in RefNodesOf(names)
    BY <1>1, <1>2, <1>3, <1>5
  <2>2. \A k \in 1 .. Len(names) : /\ RefNode[k] \in DOMAIN G /\ G[RefNode[k]].class = "LoadImage"
                                   /\ G[RefNode[k]].image = names[k]
    BY <1>0 DEF Loader, LoadsFile
  <2> QED
    BY <1>6, <2>1, <2>2 DEF Opened
<1> QED
  BY <1>7, <1>8, <1>9 DEF Wired, Used

-----------------------------------------------------------------------------
(* Multishot.                                                              *)

\* The empty graph.
LEMMA NoNodes == DOMAIN <<>> = {}
OBVIOUS

\* The references, batched one behind the other.
BatchNodesOf(names) == {BatchNode[k] : k \in 2 .. Len(names)}

\* Node n batches what came before with one more reference.
IsBatch(G, n, k) ==
    /\ n \in DOMAIN G
    /\ G[n].class = "ImageBatch"
    /\ Ports(G, n) = {"image1", "image2"}
    /\ G[n].in["image1"] = <<IF k = 2 THEN RefNode[1] ELSE BatchNode[k - 1], 0>>
    /\ G[n].in["image2"] = <<RefNode[k], 0>>

BatchesIn(G, names) == \A k \in 2 .. Len(names) : IsBatch(G, BatchNode[k], k)

\* A graph with the batch nodes batches the references.
LEMMA BatchesArePart ==
    ASSUME NEW S, NEW names \in Seq(S), Len(names) <= 9, NEW G, Part(Batches(names), G)
    PROVE  BatchesIn(G, names)
<1> SUFFICES ASSUME NEW k \in 2 .. Len(names) PROVE IsBatch(G, BatchNode[k], k)
  BY DEF BatchesIn
<1>1. BatchNode[k] \in DOMAIN Batches(names)
  BY BatchesIs
<1>2. G[BatchNode[k]] = Node("ImageBatch",
             [image1 |-> <<IF k = 2 THEN RefNode[1] ELSE BatchNode[k - 1], 0>>,
              image2 |-> <<RefNode[k], 0>>])
  BY <1>1, BatchesIs DEF Part
<1> QED
  BY <1>1, <1>2 DEF IsBatch, Part, Node, Ports

\* The ports every multishot sampler has.
FixedPorts == {"model", "clip", "video_vae", "audio_vae", "width", "height",
               "frames_per_shot", "steps"}

\* The sampler's links.
SamplerLinks(in, cached, start, names) ==
    /\ DOMAIN in = FixedPorts \cup (IF start = <<>> THEN {} ELSE {"start_image"})
                   \cup (IF names = <<>> THEN {} ELSE {"reference_images"})
    /\ in["model"] = <<IF cached THEN "CACHE" ELSE "LORA", 0>>
    /\ in["clip"] = <<"CLIP", 0>>
    /\ in["video_vae"] = <<"VAE_V", 0>> /\ in["audio_vae"] = <<"VAE_A", 0>>
    /\ in["width"] = <<"CONTROLS", 0>> /\ in["height"] = <<"CONTROLS", 1>>
    /\ in["frames_per_shot"] = <<"CONTROLS", 2>> /\ in["steps"] = <<"CONTROLS", 3>>
    /\ start # <<>> => in["start_image"] = <<"start", 0>>
    /\ names # <<>> => in["reference_images"] =
                          <<IF Len(names) = 1 THEN RefNode[1] ELSE BatchNode[Len(names)], 0>>

\* The ports for pictures, if there are pictures.
LEMMA PictureInputsAre ==
    ASSUME NEW start, NEW names
    PROVE  LET in == PictureInputs(start, names) IN
           /\ DOMAIN in = (IF start = <<>> THEN {} ELSE {"start_image"})
                          \cup (IF names = <<>> THEN {} ELSE {"reference_images"})
           /\ start # <<>> => in["start_image"] = <<"start", 0>>
           /\ names # <<>> => in["reference_images"] =
                 <<IF Len(names) = 1 THEN RefNode[1] ELSE BatchNode[Len(names)], 0>>
<1> DEFINE a == IF start = <<>> THEN <<>> ELSE [start_image |-> <<"start", 0>>]
           b == IF names = <<>> THEN <<>> ELSE [reference_images |->
                 <<IF Len(names) = 1 THEN RefNode[1] ELSE BatchNode[Len(names)], 0>>]
<1>1. DOMAIN a = IF start = <<>> THEN {} ELSE {"start_image"}
  BY NoNodes
<1>2. DOMAIN b = IF names = <<>> THEN {} ELSE {"reference_images"}
  BY NoNodes
<1>3. start # <<>> => a["start_image"] = <<"start", 0>>
  OBVIOUS
<1>4. names # <<>> => b["reference_images"] =
         <<IF Len(names) = 1 THEN RefNode[1] ELSE BatchNode[Len(names)], 0>>
  OBVIOUS
<1>5. PictureInputs(start, names) = a ++ b
  BY DEF PictureInputs
<1> HIDE DEF a, b
<1> QED
  BY <1>1, <1>2, <1>3, <1>4, <1>5 DEF ++

\* The ports of the multishot sampler: the fixed ones and those for pictures.
LEMMA SamplerIs ==
    ASSUME NEW cached \in BOOLEAN, NEW start, NEW names
    PROVE  SamplerLinks(
             [model |-> <<IF cached THEN "CACHE" ELSE "LORA", 0>>, clip |-> <<"CLIP", 0>>,
              video_vae |-> <<"VAE_V", 0>>, audio_vae |-> <<"VAE_A", 0>>,
              width |-> <<"CONTROLS", 0>>, height |-> <<"CONTROLS", 1>>,
              frames_per_shot |-> <<"CONTROLS", 2>>, steps |-> <<"CONTROLS", 3>>]
             ++ PictureInputs(start, names), cached, start, names)
<1> DEFINE a == [model |-> <<IF cached THEN "CACHE" ELSE "LORA", 0>>, clip |-> <<"CLIP", 0>>,
              video_vae |-> <<"VAE_V", 0>>, audio_vae |-> <<"VAE_A", 0>>,
              width |-> <<"CONTROLS", 0>>, height |-> <<"CONTROLS", 1>>,
              frames_per_shot |-> <<"CONTROLS", 2>>, steps |-> <<"CONTROLS", 3>>]
           b == PictureInputs(start, names)
<1>1. /\ DOMAIN a = FixedPorts
      /\ a["model"] = <<IF cached THEN "CACHE" ELSE "LORA", 0>>
      /\ a["clip"] = <<"CLIP", 0>>
      /\ a["video_vae"] = <<"VAE_V", 0>> /\ a["audio_vae"] = <<"VAE_A", 0>>
      /\ a["width"] = <<"CONTROLS", 0>> /\ a["height"] = <<"CONTROLS", 1>>
      /\ a["frames_per_shot"] = <<"CONTROLS", 2>> /\ a["steps"] = <<"CONTROLS", 3>>
  BY DEF FixedPorts
<1>2. /\ DOMAIN b = (IF start = <<>> THEN {} ELSE {"start_image"})
                          \cup (IF names = <<>> THEN {} ELSE {"reference_images"})
      /\ start # <<>> => b["start_image"] = <<"start", 0>>
      /\ names # <<>> => b["reference_images"] =
                 <<IF Len(names) = 1 THEN RefNode[1] ELSE BatchNode[Len(names)], 0>>
  BY PictureInputsAre
<1> HIDE DEF a, b
<1>3. /\ DOMAIN (a ++ b) = DOMAIN a \cup DOMAIN b
      /\ \A p \in FixedPorts : (a ++ b)[p] = a[p]
      /\ \A p \in {"start_image", "reference_images"} :
            p \in DOMAIN b => (a ++ b)[p] = b[p]
  BY <1>1 DEF ++, FixedPorts
<1>4. SamplerLinks(a ++ b, cached, start, names)
  BY <1>1, <1>2, <1>3 DEF SamplerLinks, FixedPorts
<1> QED
  BY <1>4 DEF a, b

\* The nodes every multishot graph has.
FixedNodes == {"CONTROLS", "MODEL", "CLIP", "LORA", "VAE_V", "VAE_A"}
\* The sampler and what comes behind it.
LastNodes == {"SAMPLER", "CREATE", "SAVE", "SAVE_A"}

\* The graph the adapter of multishot builds.
MultishotIn(G, cached, start, names) ==
    /\ DOMAIN G = FixedNodes \cup LastNodes \cup (IF cached THEN {"CACHE"} ELSE {})
                  \cup (IF start = <<>> THEN {} ELSE {"start"})
                  \cup RefNodesOf(names) \cup BatchNodesOf(names)
    /\ G["CONTROLS"] = Node("H3StudioControls", <<>>)
    /\ G["MODEL"] = Node("H3ModelLoaderAny", <<>>)
    /\ G["CLIP"] = Node("H3ClipLoaderAny", <<>>)
    /\ G["LORA"] = Node("H3LoraStack", [model |-> <<"MODEL", 0>>])
    /\ G["VAE_V"] = Node("VAELoader", <<>>) /\ G["VAE_A"] = Node("VAELoader", <<>>)
    /\ cached => G["CACHE"] = Node("UC_MiniMaxH3Cache", [model |-> <<"LORA", 0>>])
    /\ start # <<>> => LoadsFile(G, "start", start[1])
    /\ RefsIn(G, names) /\ BatchesIn(G, names)
    /\ G["SAMPLER"].class = "H3MultishotSampler"
    /\ SamplerLinks(G["SAMPLER"].in, cached, start, names)
    /\ G["CREATE"] = Node("CreateVideo",
                [images |-> <<"SAMPLER", 0>>, audio |-> <<"SAMPLER", 1>>])
    /\ G["SAVE"] = Node("SaveVideo", [video |-> <<"CREATE", 0>>])
    /\ G["SAVE_A"] = Node("SaveAudio", [audio |-> <<"SAMPLER", 1>>])

\* The batch nodes, by name.
LEMMA BatchesDomain ==
    ASSUME NEW S, NEW names \in Seq(S), Len(names) <= 9
    PROVE  DOMAIN Batches(names) = BatchNodesOf(names)
BY BatchesIs DEF BatchNodesOf

\* The multishot graph, part by part.
LEMMA MultishotIs ==
    ASSUME NEW r, NEW handed, NEW S, r.cache \in BOOLEAN,
           FirstN(Named(handed, "ref"), 9) \in Seq(S), Len(FirstN(Named(handed, "ref"), 9)) <= 9
    PROVE  MultishotIn(MultishotGraph(r, handed), r.cache \/ handed # <<>>,
                       Named(handed, "start"), FirstN(Named(handed, "ref"), 9))
<1> DEFINE names == FirstN(Named(handed, "ref"), 9)
           st == Named(handed, "start")
           cached == r.cache \/ handed # <<>>
           cache == IF cached THEN [CACHE |-> Node("UC_MiniMaxH3Cache", [model |-> <<"LORA", 0>>])]
                    ELSE <<>>
           frame == IF st = <<>> THEN <<>> ELSE [start |-> LoadImage(st[1])]
           refs == LoadRefs(names)
           bat == Batches(names)
           in == [model |-> <<IF cached THEN "CACHE" ELSE "LORA", 0>>, clip |-> <<"CLIP", 0>>,
              video_vae |-> <<"VAE_V", 0>>, audio_vae |-> <<"VAE_A", 0>>,
              width |-> <<"CONTROLS", 0>>, height |-> <<"CONTROLS", 1>>,
              frames_per_shot |-> <<"CONTROLS", 2>>, steps |-> <<"CONTROLS", 3>>]
             ++ PictureInputs(st, names)
           end == [SAMPLER |-> Node("H3MultishotSampler", in),
            CREATE |-> Node("CreateVideo",
                [images |-> <<"SAMPLER", 0>>, audio |-> <<"SAMPLER", 1>>]),
            SAVE |-> Node("SaveVideo", [video |-> <<"CREATE", 0>>]),
            SAVE_A |-> Node("SaveAudio", [audio |-> <<"SAMPLER", 1>>])]
           G == MultishotLoaders ++ cache ++ frame ++ refs ++ bat ++ end
<1>1. MultishotGraph(r, handed) = G
  BY DEF MultishotGraph
<1>2. SamplerLinks(in, cached, st, names)
  BY SamplerIs
<1> HIDE DEF in
<1>3. names \in Seq(S) /\ Len(names) \in Nat /\ Len(names) <= 9 /\ cached \in BOOLEAN
  BY LenProperties
<1> HIDE DEF names, st, cached
<1>4. DOMAIN refs = RefNodesOf(names) /\ DOMAIN bat = BatchNodesOf(names)
  BY <1>3, LoadRefsDomain, BatchesDomain
<1>5. (\A H : Part(refs, H) => RefsIn(H, names)) /\ (\A H : Part(bat, H) => BatchesIn(H, names))
  BY <1>3, RefsArePart, BatchesArePart
<1>6. /\ RefNodesOf(names) \subseteq {"ref1", "ref2", "ref3", "ref4", "ref5", "ref6", "ref7",
                                      "ref8", "ref9"}
      /\ BatchNodesOf(names) \subseteq {"batch2", "batch3", "batch4", "batch5", "batch6",
                                        "batch7", "batch8", "batch9"}
  BY <1>3, RefNodes, BatchNodes DEF RefNodesOf, BatchNodesOf
<1> HIDE DEF refs, bat
<1>7. /\ DOMAIN MultishotLoaders = FixedNodes /\ DOMAIN end = LastNodes
      /\ DOMAIN cache = IF cached THEN {"CACHE"} ELSE {}
      /\ DOMAIN frame = IF st = <<>> THEN {} ELSE {"start"}
  BY NoNodes DEF MultishotLoaders, FixedNodes, LastNodes
<1>8. ASSUME NEW H
      PROVE  /\ Part(cache, H) /\ cached => H["CACHE"] = Node("UC_MiniMaxH3Cache", [model |-> <<"LORA", 0>>])
             /\ Part(frame, H) /\ st # <<>> => H["start"] = LoadImage(st[1])
  BY DEF Part
<1>9. ASSUME NEW H, Part(MultishotLoaders, H)
      PROVE  /\ H["CONTROLS"] = Node("H3StudioControls", <<>>)
             /\ H["MODEL"] = Node("H3ModelLoaderAny", <<>>)
             /\ H["CLIP"] = Node("H3ClipLoaderAny", <<>>)
             /\ H["LORA"] = Node("H3LoraStack", [model |-> <<"MODEL", 0>>])
             /\ H["VAE_V"] = Node("VAELoader", <<>>) /\ H["VAE_A"] = Node("VAELoader", <<>>)
  BY <1>9 DEF Part, MultishotLoaders
<1>10. ASSUME NEW H, Part(end, H)
       PROVE  /\ H["SAMPLER"] = Node("H3MultishotSampler", in)
              /\ H["CREATE"] = Node("CreateVideo",
                    [images |-> <<"SAMPLER", 0>>, audio |-> <<"SAMPLER", 1>>])
              /\ H["SAVE"] = Node("SaveVideo", [video |-> <<"CREATE", 0>>])
              /\ H["SAVE_A"] = Node("SaveAudio", [audio |-> <<"SAMPLER", 1>>])
  BY <1>10 DEF Part
<1> HIDE DEF cache, frame, end
<1>11. /\ Apart(MultishotLoaders, cache) /\ Apart(MultishotLoaders ++ cache, frame)
       /\ Apart(MultishotLoaders ++ cache ++ frame, refs)
       /\ Apart(MultishotLoaders ++ cache ++ frame ++ refs, bat)
       /\ Apart(MultishotLoaders ++ cache ++ frame ++ refs ++ bat, end)
  BY <1>4, <1>6, <1>7 DEF Apart, FixedNodes, LastNodes, ++
<1>12. /\ Part(MultishotLoaders, G) /\ Part(cache, G) /\ Part(frame, G) /\ Part(refs, G)
       /\ Part(bat, G) /\ Part(end, G)
       /\ DOMAIN G = DOMAIN MultishotLoaders \cup DOMAIN cache \cup DOMAIN frame \cup DOMAIN refs
                     \cup DOMAIN bat \cup DOMAIN end
  BY <1>11 DEF Apart, Part, ++
<1> HIDE DEF G
<1>13. RefsIn(G, names) /\ BatchesIn(G, names)
  BY <1>5, <1>12
<1>15. st # <<>> => LoadsFile(G, "start", st[1])
  BY <1>8, <1>12, LoadsIt
<1>16. /\ G["SAMPLER"].class = "H3MultishotSampler"
       /\ SamplerLinks(G["SAMPLER"].in, cached, st, names)
  BY <1>2, <1>10, <1>12 DEF Node
<1>17. MultishotIn(G, cached, st, names)
  BY <1>4, <1>7, <1>8, <1>9, <1>10, <1>12, <1>13, <1>15, <1>16 DEF MultishotIn
<1> QED
  BY <1>1, <1>17 DEF names, st, cached

\* What feeds a port.
LEMMA FedBy ==
    ASSUME NEW G, NEW n, NEW p, NEW m, NEW k, G[n].in[p] = <<m, k>>, m \in DOMAIN G,
           Rank(m) < Rank(n), OutputType(G, <<m, k>>) = PortType[p]
    PROVE  Fed(G, n, p)
BY DEF Fed

\* The ranks of the nodes that are always there.
LEMMA Ranks ==
    /\ \A n \in {"CONTROLS", "MODEL", "CLIP", "VAE_V", "VAE_A", "start"} : Rank(n) = 0
    /\ Rank("LORA") = 1 /\ Rank("CACHE") = 2 /\ Rank("SAMPLER") = 9 /\ Rank("CREATE") = 11
    /\ Rank("SAVE") = 12 /\ Rank("SAVE_A") = 12
BY DEF Rank

\* A list with something in it.
LEMMA NonEmpty ==
    ASSUME NEW S, NEW s \in Seq(S)
    PROVE  Len(s) \in Nat /\ (s # <<>> => Len(s) >= 1) /\ (Len(s) >= 1 => s # <<>>)
<1> DEFINE L == Len(s)
<1>1. L \in Nat /\ (s = <<>> <=> L = 0)
  BY LenProperties, EmptySeq
<1> HIDE DEF L
<1>2. L \in Nat /\ (s # <<>> => L >= 1) /\ (L >= 1 => s # <<>>)
  BY <1>1
<1> QED
  BY <1>2 DEF L

\* About the length L of a sequence.
LEMMA Lengths ==
    ASSUME NEW L \in Nat
    PROVE  /\ L >= 1 /\ L <= 9 => L \in 1 .. 9
           /\ L >= 1 /\ L # 1 => 2 \in 2 .. L /\ L \in 2 .. L
           /\ \A k \in 2 .. L : L >= 1 /\ L # 1
           /\ \A k \in 1 .. L : L >= 1
           /\ L \in 2 .. L /\ L <= 9 => L \in 2 .. 9
OBVIOUS

\* The multishot graph is executable and opens what it shows, for up to nine
\* references and the batches they make.
LEMMA MultishotWired ==
    ASSUME NEW G, NEW cached, NEW start, NEW S, NEW names \in Seq(S), Len(names) <= 9,
           MultishotIn(G, cached, start, names)
    PROVE  Wired(G, {names[k] : k \in 1 .. Len(names)}
                    \cup (IF start = <<>> THEN {} ELSE {start[1]}))
<1>n. Len(names) \in Nat
  BY NonEmpty
<1>d. /\ FixedNodes \cup LastNodes \subseteq DOMAIN G
      /\ cached => "CACHE" \in DOMAIN G
      /\ start # <<>> => "start" \in DOMAIN G
      /\ \A n \in DOMAIN G : \/ n \in FixedNodes \cup LastNodes \/ (cached /\ n = "CACHE")
                             \/ (start # <<>> /\ n = "start")
                             \/ n \in RefNodesOf(names) \/ n \in BatchNodesOf(names)
  BY DEF MultishotIn
<1>f. /\ G["CONTROLS"] = Node("H3StudioControls", <<>>)
      /\ G["MODEL"] = Node("H3ModelLoaderAny", <<>>)
      /\ G["CLIP"] = Node("H3ClipLoaderAny", <<>>)
      /\ G["LORA"] = Node("H3LoraStack", [model |-> <<"MODEL", 0>>])
      /\ G["VAE_V"] = Node("VAELoader", <<>>) /\ G["VAE_A"] = Node("VAELoader", <<>>)
      /\ cached => G["CACHE"] = Node("UC_MiniMaxH3Cache", [model |-> <<"LORA", 0>>])
      /\ start # <<>> => LoadsFile(G, "start", start[1])
      /\ G["SAMPLER"].class = "H3MultishotSampler"
      /\ G["CREATE"] = Node("CreateVideo",
                [images |-> <<"SAMPLER", 0>>, audio |-> <<"SAMPLER", 1>>])
      /\ G["SAVE"] = Node("SaveVideo", [video |-> <<"CREATE", 0>>])
      /\ G["SAVE_A"] = Node("SaveAudio", [audio |-> <<"SAMPLER", 1>>])
  BY DEF MultishotIn
<1>s. /\ SamplerLinks(G["SAMPLER"].in, cached, start, names) /\ RefsIn(G, names)
      /\ BatchesIn(G, names)
  BY DEF MultishotIn
<1>0. ASSUME NEW k \in 1 .. Len(names) PROVE Loader(G, RefNode[k], names[k])
  BY <1>n, <1>s, RefsLoad
<1>1. ASSUME NEW k \in 2 .. Len(names) PROVE IsBatch(G, BatchNode[k], k)
  BY <1>s DEF BatchesIn
<1>t. /\ OutputType(G, <<"MODEL", 0>>) = "MODEL" /\ OutputType(G, <<"LORA", 0>>) = "MODEL"
      /\ cached => OutputType(G, <<"CACHE", 0>>) = "MODEL"
      /\ OutputType(G, <<"CLIP", 0>>) = "CLIP"
      /\ OutputType(G, <<"VAE_V", 0>>) = "VAE" /\ OutputType(G, <<"VAE_A", 0>>) = "VAE"
      /\ \A k \in 0 .. 3 : OutputType(G, <<"CONTROLS", k>>) = "INT"
      /\ start # <<>> => OutputType(G, <<"start", 0>>) = "IMAGE"
      /\ OutputType(G, <<"SAMPLER", 0>>) = "IMAGE" /\ OutputType(G, <<"SAMPLER", 1>>) = "AUDIO"
      /\ OutputType(G, <<"CREATE", 0>>) = "VIDEO"
  BY <1>f, OutputTypes DEF Node, LoadsFile
<1>bt. ASSUME NEW k \in 2 .. Len(names) PROVE OutputType(G, <<BatchNode[k], 0>>) = "IMAGE"
  <2>1. G[BatchNode[k]].class = "ImageBatch"
    BY <1>1 DEF IsBatch
  <2> QED
    BY <2>1, OutputTypes
<1>2. \A n \in {"CONTROLS", "MODEL", "CLIP", "VAE_V", "VAE_A"} :
          Ports(G, n) = {} /\ G[n].class # "LoadImage"
  BY <1>f, NoNodes DEF Node, Ports
<1>3. \A n \in {"LORA", "CREATE", "SAVE", "SAVE_A"} :
          G[n].class # "LoadImage" /\ \A p \in Ports(G, n) : Fed(G, n, p)
  <2>1. /\ Ports(G, "LORA") = {"model"} /\ G["LORA"].in["model"] = <<"MODEL", 0>>
        /\ Ports(G, "CREATE") = {"images", "audio"}
        /\ G["CREATE"].in["images"] = <<"SAMPLER", 0>>
        /\ G["CREATE"].in["audio"] = <<"SAMPLER", 1>>
        /\ Ports(G, "SAVE") = {"video"} /\ G["SAVE"].in["video"] = <<"CREATE", 0>>
        /\ Ports(G, "SAVE_A") = {"audio"} /\ G["SAVE_A"].in["audio"] = <<"SAMPLER", 1>>
        /\ \A n \in {"LORA", "CREATE", "SAVE", "SAVE_A"} : G[n].class # "LoadImage"
    BY <1>f DEF Node, Ports
  <2>2. {"MODEL", "SAMPLER", "CREATE"} \subseteq DOMAIN G
    BY <1>d DEF FixedNodes, LastNodes
  <2>3. Fed(G, "LORA", "model")
    BY <2>1, <2>2, <1>t, PortTypes, Ranks DEF Fed
  <2>4. Fed(G, "CREATE", "images") /\ Fed(G, "CREATE", "audio")
    BY <2>1, <2>2, <1>t, PortTypes, Ranks DEF Fed
  <2>5. Fed(G, "SAVE", "video") /\ Fed(G, "SAVE_A", "audio")
    BY <2>1, <2>2, <1>t, PortTypes, Ranks DEF Fed
  <2> QED
    BY <2>1, <2>3, <2>4, <2>5
<1>4. cached => G["CACHE"].class # "LoadImage" /\ \A p \in Ports(G, "CACHE") : Fed(G, "CACHE", p)
  <2>1. cached => /\ Ports(G, "CACHE") = {"model"} /\ G["CACHE"].in["model"] = <<"LORA", 0>>
                  /\ G["CACHE"].class # "LoadImage"
    BY <1>f DEF Node, Ports
  <2>2. "LORA" \in DOMAIN G
    BY <1>d DEF FixedNodes
  <2> QED
    BY <2>1, <2>2, <1>t, PortTypes, Ranks DEF Fed
\* The references one by one, and the batches.
<1>5. ASSUME NEW k \in 2 .. Len(names)
      PROVE  /\ G[BatchNode[k]].class # "LoadImage"
             /\ \A p \in Ports(G, BatchNode[k]) : Fed(G, BatchNode[k], p)
  <2>1. IsBatch(G, BatchNode[k], k) /\ Rank(BatchNode[k]) = k - 1
    BY <1>n, <1>1, BatchNodes
  <2>2. Loader(G, RefNode[k], names[k]) /\ Loader(G, RefNode[1], names[1])
    BY <1>n, <1>0
  <2>3. CASE k = 2
    <3>1. \A p \in {"image1", "image2"} : G[BatchNode[k]].in[p] \in {<<RefNode[1], 0>>, <<RefNode[k], 0>>}
      BY <2>1, <2>3 DEF IsBatch
    <3>2. \A l \in {1, k} : /\ RefNode[l] \in DOMAIN G /\ Rank(RefNode[l]) = 0
                            /\ OutputType(G, <<RefNode[l], 0>>) = "IMAGE"
      BY <2>2 DEF Loader
    <3> QED
      BY <2>1, <2>3, <3>1, <3>2, FedBy, PortTypes DEF IsBatch
  <2>4. CASE k # 2
    <3>1. k - 1 \in 2 .. Len(names) /\ Rank(BatchNode[k - 1]) = k - 2
      <4>1. k - 1 \in 2 .. Len(names) /\ k - 1 \in 2 .. 9
        BY <1>n, <2>4
      <4> QED
        BY <4>1, BatchNodes
    <3>2. OutputType(G, <<BatchNode[k - 1], 0>>) = "IMAGE" /\ BatchNode[k - 1] \in DOMAIN G
      BY <1>1, <1>bt, <3>1 DEF IsBatch
    <3> QED
      <4>1. /\ G[BatchNode[k]].in["image1"] = <<BatchNode[k - 1], 0>>
            /\ G[BatchNode[k]].in["image2"] = <<RefNode[k], 0>>
            /\ Ports(G, BatchNode[k]) = {"image1", "image2"}
            /\ G[BatchNode[k]].class # "LoadImage"
        BY <2>1, <2>4 DEF IsBatch
      <4>2. /\ RefNode[k] \in DOMAIN G /\ Rank(RefNode[k]) = 0
            /\ OutputType(G, <<RefNode[k], 0>>) = "IMAGE"
        BY <2>2 DEF Loader
      <4>3. k \in Int /\ k > 2
        BY <2>4
      <4>4. Fed(G, BatchNode[k], "image1")
        BY <2>1, <3>1, <3>2, <4>1, <4>3, FedBy, PortTypes
      <4>5. Fed(G, BatchNode[k], "image2")
        BY <2>1, <4>1, <4>2, <4>3, FedBy, PortTypes
      <4> QED
        BY <4>1, <4>4, <4>5
  <2> QED
    BY <2>3, <2>4
<1>6. names # <<>> => Len(names) \in 1 .. 9
  BY NonEmpty, Lengths
<1>p. names # <<>> => Fed(G, "SAMPLER", "reference_images")
  <2> SUFFICES ASSUME names # <<>> PROVE Fed(G, "SAMPLER", "reference_images")
    OBVIOUS
  <2>1. CASE Len(names) = 1
    <3>1. Loader(G, RefNode[1], names[1])
      BY <1>0, <2>1
    <3> QED
      BY <1>s, <2>1, <3>1, PortTypes, Ranks, FedBy DEF SamplerLinks, Loader
  <2>2. CASE Len(names) # 1
    <3>1. Len(names) \in 2 .. Len(names) /\ Len(names) \in 2 .. 9
      BY <1>n, <2>2, NonEmpty, Lengths
    <3>2. IsBatch(G, BatchNode[Len(names)], Len(names)) /\ Rank(BatchNode[Len(names)]) = Len(names) - 1
          /\ OutputType(G, <<BatchNode[Len(names)], 0>>) = "IMAGE"
      BY <1>1, <1>bt, <3>1, BatchNodes
    <3> QED
      <4>1. /\ G["SAMPLER"].in["reference_images"] = <<BatchNode[Len(names)], 0>>
            /\ BatchNode[Len(names)] \in DOMAIN G
        BY <1>s, <2>2, <3>2 DEF SamplerLinks, IsBatch
      <4> QED
        BY <3>1, <3>2, <4>1, PortTypes, Ranks, FedBy
  <2> QED
    BY <2>1, <2>2
<1>7. G["SAMPLER"].class # "LoadImage" /\ \A p \in Ports(G, "SAMPLER") : Fed(G, "SAMPLER", p)
  <2>1. FixedNodes \subseteq DOMAIN G
    BY <1>d
  <2>2. Fed(G, "SAMPLER", "model") /\ Fed(G, "SAMPLER", "clip")
    <3>1. /\ G["SAMPLER"].in["model"] = <<IF cached THEN "CACHE" ELSE "LORA", 0>>
          /\ G["SAMPLER"].in["clip"] = <<"CLIP", 0>>
      BY <1>s DEF SamplerLinks
    <3>2. {"LORA", "CLIP"} \subseteq DOMAIN G
      BY <2>1 DEF FixedNodes
    <3>3. Fed(G, "SAMPLER", "clip")
      BY <1>t, <3>1, <3>2, PortTypes, Ranks DEF Fed
    <3>4. CASE cached
      <4>1. G["SAMPLER"].in["model"] = <<"CACHE", 0>>
        BY <3>1, <3>4
      <4> QED
        BY <1>d, <1>t, <3>3, <3>4, <4>1, PortTypes, Ranks DEF Fed
    <3>5. CASE ~cached
      <4>1. G["SAMPLER"].in["model"] = <<"LORA", 0>>
        BY <3>1, <3>5
      <4> QED
        BY <1>t, <3>2, <3>3, <4>1, PortTypes, Ranks DEF Fed
    <3> QED
      BY <3>4, <3>5
  <2>3. \A p \in {"video_vae", "audio_vae", "width", "height", "frames_per_shot", "steps"} :
            Fed(G, "SAMPLER", p)
    <3>1. /\ G["SAMPLER"].in["video_vae"] = <<"VAE_V", 0>>
          /\ G["SAMPLER"].in["audio_vae"] = <<"VAE_A", 0>>
          /\ G["SAMPLER"].in["width"] = <<"CONTROLS", 0>>
          /\ G["SAMPLER"].in["height"] = <<"CONTROLS", 1>>
          /\ G["SAMPLER"].in["frames_per_shot"] = <<"CONTROLS", 2>>
          /\ G["SAMPLER"].in["steps"] = <<"CONTROLS", 3>>
      BY <1>s DEF SamplerLinks
    <3>2. {"VAE_V", "VAE_A", "CONTROLS"} \subseteq DOMAIN G
      BY <2>1 DEF FixedNodes
    <3>3. Fed(G, "SAMPLER", "video_vae") /\ Fed(G, "SAMPLER", "audio_vae")
      BY <1>t, <3>1, <3>2, PortTypes, Ranks DEF Fed
    <3>4. Fed(G, "SAMPLER", "width") /\ Fed(G, "SAMPLER", "height")
      BY <1>t, <3>1, <3>2, PortTypes, Ranks DEF Fed
    <3>5. Fed(G, "SAMPLER", "frames_per_shot") /\ Fed(G, "SAMPLER", "steps")
      BY <1>t, <3>1, <3>2, PortTypes, Ranks DEF Fed
    <3> QED
      BY <3>3, <3>4, <3>5
  <2>4. start # <<>> => Fed(G, "SAMPLER", "start_image")
    <3>1. start # <<>> => G["SAMPLER"].in["start_image"] = <<"start", 0>>
      BY <1>s DEF SamplerLinks
    <3> QED
      BY <1>d, <1>t, <3>1, PortTypes, Ranks, FedBy
  <2>5. \A p \in Ports(G, "SAMPLER") : \/ p \in FixedPorts \/ (start # <<>> /\ p = "start_image")
                                       \/ (names # <<>> /\ p = "reference_images")
    BY <1>s DEF SamplerLinks, Ports
  <2> QED
    BY <1>f, <1>p, <2>2, <2>3, <2>4, <2>5 DEF FixedPorts
<1>8. ASSUME NEW n \in RefNodesOf(names)
      PROVE  /\ Ports(G, n) = {} /\ G[n].class = "LoadImage"
             /\ G[n].image \in {names[k] : k \in 1 .. Len(names)}
  <2>1. PICK k \in 1 .. Len(names) : n = RefNode[k]
    BY DEF RefNodesOf
  <2> QED
    BY <1>0, <2>1 DEF Loader, LoadsFile
<1>9. \A n \in DOMAIN G : \A p \in Ports(G, n) : Fed(G, n, p)
  <2>1. \A n \in BatchNodesOf(names) : \A p \in Ports(G, n) : Fed(G, n, p)
    BY <1>5 DEF BatchNodesOf
  <2>2. start # <<>> => Ports(G, "start") = {}
    BY <1>f DEF LoadsFile
  <2> QED
    BY <1>d, <1>2, <1>3, <1>4, <1>7, <1>8, <2>1, <2>2 DEF FixedNodes, LastNodes
\* Nothing is built in vain.
<1>10. \A p \in Ports(G, "SAMPLER") : Used(G, G["SAMPLER"].in[p][1])
  BY <1>d, UsedAt DEF Ports, LastNodes
<1>11. /\ \A n \in {"CONTROLS", "CLIP", "VAE_V", "VAE_A", IF cached THEN "CACHE" ELSE "LORA"} : Used(G, n)
       /\ start # <<>> => Used(G, "start")
       /\ names # <<>> => Used(G, IF Len(names) = 1 THEN RefNode[1] ELSE BatchNode[Len(names)])
  BY <1>10, <1>s DEF SamplerLinks, Ports, FixedPorts
<1>12. /\ Used(G, "MODEL") /\ Used(G, "SAMPLER") /\ Used(G, "CREATE")
       /\ (cached => Used(G, "LORA"))
  <2>1. /\ {"LORA", "CREATE", "SAVE"} \subseteq DOMAIN G
        /\ "model" \in DOMAIN G["LORA"].in /\ G["LORA"].in["model"] = <<"MODEL", 0>>
        /\ "images" \in DOMAIN G["CREATE"].in /\ G["CREATE"].in["images"] = <<"SAMPLER", 0>>
        /\ "video" \in DOMAIN G["SAVE"].in /\ G["SAVE"].in["video"] = <<"CREATE", 0>>
        /\ cached => "model" \in DOMAIN G["CACHE"].in /\ G["CACHE"].in["model"] = <<"LORA", 0>>
    BY <1>d, <1>f DEF Node, FixedNodes, LastNodes
  <2> QED
    BY <1>d, <2>1, UsedAt
<1>13. ASSUME NEW k \in 2 .. Len(names)
       PROVE  Used(G, RefNode[k]) /\ Used(G, IF k = 2 THEN RefNode[1] ELSE BatchNode[k - 1])
  <2>1. IsBatch(G, BatchNode[k], k)
    BY <1>1
  <2>2. \A p \in {"image1", "image2"} : Used(G, G[BatchNode[k]].in[p][1])
    BY <2>1, UsedAt DEF IsBatch, Ports
  <2> QED
    BY <2>1, <2>2 DEF IsBatch
<1>14. ASSUME NEW k \in 1 .. Len(names) PROVE Used(G, RefNode[k])
  <2>0. names # <<>>
    BY <1>n, NonEmpty, Lengths
  <2>1. CASE k # 1
    BY <1>n, <1>13, <2>1
  <2>2. CASE k = 1 /\ Len(names) = 1
    BY <1>11, <2>0, <2>2
  <2>3. CASE k = 1 /\ Len(names) # 1
    <3>1. 2 \in 2 .. Len(names)
      BY <1>n, <2>0, <2>3, NonEmpty, Lengths
    <3> QED
      BY <1>13, <2>3, <3>1
  <2> QED
    BY <2>1, <2>2, <2>3
<1>15. ASSUME NEW k \in 2 .. Len(names) PROVE Used(G, BatchNode[k])
  <2>0. names # <<>> /\ Len(names) # 1
    BY <1>n, NonEmpty, Lengths
  <2>1. CASE k = Len(names)
    BY <1>11, <2>0, <2>1
  <2>2. CASE k # Len(names)
    <3>1. k + 1 \in 2 .. Len(names) /\ k + 1 # 2 /\ (k + 1) - 1 = k
      BY <1>n, <2>2
    <3>2. Used(G, IF k + 1 = 2 THEN RefNode[1] ELSE BatchNode[(k + 1) - 1])
      BY <1>13, <3>1
    <3> QED
      BY <3>1, <3>2
  <2> QED
    BY <2>1, <2>2
<1>16. \A n \in DOMAIN G \ Outlets : Used(G, n)
  <2>1. (\A n \in RefNodesOf(names) : Used(G, n)) /\ \A n \in BatchNodesOf(names) : Used(G, n)
    BY <1>14, <1>15 DEF RefNodesOf, BatchNodesOf
  <2> QED
    BY <1>d, <1>11, <1>12, <2>1 DEF FixedNodes, LastNodes, Outlets
<1>17. Opened(G) = {names[k] : k \in 1 .. Len(names)} \cup (IF start = <<>> THEN {} ELSE {start[1]})
  <2>1. \A n \in DOMAIN G : G[n].class = "LoadImage" =>
            n \in RefNodesOf(names) \/ (start # <<>> /\ n = "start")
    <3>1. \A n \in BatchNodesOf(names) : G[n].class # "LoadImage"
      BY <1>5 DEF BatchNodesOf
    <3> QED
      BY <1>d, <1>2, <1>3, <1>4, <1>7, <3>1 DEF FixedNodes, LastNodes
  <2>2. \A k \in 1 .. Len(names) : /\ RefNode[k] \in DOMAIN G /\ G[RefNode[k]].class = "LoadImage"
                                   /\ G[RefNode[k]].image = names[k]
    BY <1>0 DEF Loader, LoadsFile
  <2>3. start # <<>> => /\ "start" \in DOMAIN G /\ G["start"].class = "LoadImage"
                        /\ G["start"].image = start[1]
    BY <1>d, <1>f DEF LoadsFile
  <2>4. \A f \in Opened(G) : f \in {names[k] : k \in 1 .. Len(names)} \cup (IF start = <<>> THEN {} ELSE {start[1]})
    BY <1>8, <2>1, <2>3 DEF Opened
  <2>5. \A k \in 1 .. Len(names) : names[k] \in Opened(G)
    BY <2>2 DEF Opened
  <2>6. start # <<>> => start[1] \in Opened(G)
    BY <2>3 DEF Opened
  <2> QED
    BY <2>4, <2>5, <2>6
<1> QED
  BY <1>9, <1>16, <1>17 DEF Wired, Used

-----------------------------------------------------------------------------
(* Lists of pictures, and the names of a role in them.                     *)

\* A set of numbers has a least one: the induction of the lemmas below is an
\* argument about the first index where they fail.
LEMMA Least ==
    ASSUME NEW S \in SUBSET Nat, S # {}
    PROVE  \E m \in S : \A n \in S : m <= n
<1>1. PICK m \in S : \A n \in S : ~ (<<n, m>> \in OpToRel(<, Nat))
  BY NatLessThanWellFounded, WFMin
<1>2. \A n \in S : ~ (n < m)
  BY <1>1 DEF OpToRel
<1> QED
  BY <1>2

\* f names the pictures of a role one by one.
Naming(f, s, role) ==
    f = [k \in 0 .. Len(s) |->
            IF k = 0 THEN <<>>
            ELSE IF s[k][1] = role THEN Append(f[k - 1], s[k][2]) ELSE f[k - 1]]

\* Named is the last value of such a function.
LEMMA NamedIs ==
    ASSUME NEW s, NEW role, NEW f, Naming(f, s, role)
    PROVE  \E g : Naming(g, s, role) /\ Named(s, role) = g[Len(s)]
<1> DEFINE of == CHOOSE g : Naming(g, s, role)
<1>1. Naming(of, s, role)
  OBVIOUS
<1>2. Named(s, role) = of[Len(s)]
  BY DEF Named, Naming
<1> QED
  BY <1>1, <1>2

\* The names of the n pictures behind the a-th.
Run(s, a, n) == [i \in 1 .. n |-> s[a + i][2]]

\* A run is built name by name.
LEMMA RunGrows ==
    ASSUME NEW s, NEW a \in Nat, NEW n \in Nat
    PROVE  /\ Run(s, a, 0) = <<>>
           /\ Append(Run(s, a, n), s[a + (n + 1)][2]) = Run(s, a, n + 1)
<1>1. Run(s, a, 0) = <<>>
  BY DEF Run
<1>2. Len(Run(s, a, n)) = n
  BY DEF Run
<1>3. Append(Run(s, a, n), s[a + (n + 1)][2]) = Run(s, a, n + 1)
  BY <1>2 DEF Run
<1> QED
  BY <1>1, <1>3

\* When the pictures of a role are the a+1st to the b-th, their names are that
\* part of the list: what the adapters extract from the controller's list.
LEMMA NamedRun ==
    ASSUME NEW S, NEW s \in Seq(S), NEW role, NEW a \in Nat, NEW b \in Nat, a <= b, b <= Len(s),
           \A k \in 1 .. Len(s) : s[k][1] = role <=> k \in a + 1 .. b
    PROVE  Named(s, role) = Run(s, a, b - a)
<1> DEFINE L == Len(s)
           len(k) == IF k <= a THEN 0 ELSE IF k <= b THEN k - a ELSE b - a
           w == [k \in 0 .. L |-> Run(s, a, len(k))]
<1>0. L \in Nat
  BY LenProperties
<1>1. ASSUME NEW k \in 1 .. L
      PROVE  w[k] = IF s[k][1] = role THEN Append(w[k - 1], s[k][2]) ELSE w[k - 1]
  <2>1. k - 1 \in 0 .. L /\ k \in 0 .. L
    BY <1>0
  <2>2. CASE k \in a + 1 .. b
    <3>1. len(k) = len(k - 1) + 1 /\ len(k - 1) \in Nat /\ a + (len(k - 1) + 1) = k
      BY <1>0, <2>2
    <3> DEFINE n == len(k - 1)
    <3>a. n \in Nat /\ len(k) = n + 1 /\ a + (n + 1) = k
      BY <3>1
    <3> HIDE DEF n, len
    <3>b. Append(Run(s, a, n), s[a + (n + 1)][2]) = Run(s, a, n + 1)
      BY <3>a, RunGrows
    <3>2. Append(Run(s, a, len(k - 1)), s[k][2]) = Run(s, a, len(k))
      BY <3>a, <3>b DEF n
    <3> QED
      BY <2>1, <2>2, <3>2
  <2>3. CASE k \notin a + 1 .. b
    <3>1. len(k) = len(k - 1)
      BY <1>0, <2>3
    <3> QED
      BY <2>1, <2>3, <3>1
  <2> QED
    BY <2>2, <2>3
<1>2. w[0] = <<>>
  BY <1>0, RunGrows
<1>3. DOMAIN w = 0 .. L
  OBVIOUS
<1>w. w = [k \in 0 .. L |-> w[k]]
  OBVIOUS
<1>l. w[L] = Run(s, a, b - a)
  BY <1>0
<1> HIDE DEF w
<1>4. Naming(w, s, role)
  <2> DEFINE e(k) == IF k = 0 THEN <<>>
                     ELSE IF s[k][1] = role THEN Append(w[k - 1], s[k][2]) ELSE w[k - 1]
  <2>1. ASSUME NEW k \in 0 .. L PROVE w[k] = e(k)
    <3>1. k = 0 \/ k \in 1 .. L
      BY <1>0
    <3> QED
      BY <1>1, <1>2, <3>1
  <2> HIDE DEF e
  <2>2. w = [k \in 0 .. L |-> e(k)]
    BY <1>w, <2>1
  <2> QED
    BY <2>2 DEF Naming, e
<1>5. PICK g : Naming(g, s, role) /\ Named(s, role) = g[L]
  BY <1>4, NamedIs
<1>6. /\ g[0] = <<>>
      /\ \A k \in 1 .. L : g[k] = IF s[k][1] = role THEN Append(g[k - 1], s[k][2]) ELSE g[k - 1]
  <2> DEFINE e(k) == IF k = 0 THEN <<>>
                     ELSE IF s[k][1] = role THEN Append(g[k - 1], s[k][2]) ELSE g[k - 1]
  <2>1. g = [k \in 0 .. L |-> e(k)]
    BY <1>5 DEF Naming
  <2> HIDE DEF e
  <2>2. \A k \in 0 .. L : g[k] = e(k)
    BY <2>1
  <2>3. 0 \in 0 .. L /\ \A k \in 1 .. L : k \in 0 .. L /\ k # 0
    BY <1>0
  <2> QED
    BY <2>2, <2>3 DEF e
<1>7. \A k \in 0 .. L : g[k] = w[k]
  <2> DEFINE D == {k \in 0 .. L : g[k] # w[k]}
  <2> SUFFICES ASSUME D # {} PROVE FALSE
    OBVIOUS
  <2>1. D \in SUBSET Nat
    BY <1>0
  <2>2. PICK m \in D : \A n \in D : m <= n
    BY <2>1, Least
  <2>3. m # 0 /\ m \in 1 .. L /\ m - 1 \in 0 .. L /\ m - 1 \notin D
    BY <1>0, <1>2, <1>6, <2>2
  <2>4. g[m - 1] = w[m - 1]
    BY <2>3
  <2>5. g[m] = w[m]
    BY <1>1, <1>6, <2>3, <2>4
  <2> QED
    BY <2>2, <2>5
<1> QED
  BY <1>0, <1>5, <1>7, <1>l

\* The order in which _submit stages the roles.
Place(role) == CASE role = "first" -> 1 [] role = "last" -> 2 [] role = "start" -> 3 [] OTHER -> 4

\* Frames before the start image before the references; only these are many.
Before(p, q) == Place(p[1]) < Place(q[1]) \/ (p[1] = "ref" /\ q[1] = "ref")

\* The list is in that order.
Sorted(s) == \A i, k \in 1 .. Len(s) : i < k => Before(s[i], s[k])

\* Its pictures have roles the workflow makes use of.
Fitting(r, s) == \A k \in 1 .. Len(s) : s[k][1] \in Roles(r)

\* The k-th picture of a role.
LEMMA RunOf ==
    ASSUME NEW s, NEW a \in Nat, NEW n \in Nat, NEW m \in Nat
    PROVE  /\ Run(s, a, n) \in Seq({s[a + i][2] : i \in 1 .. n}) /\ Len(Run(s, a, n)) = n
           /\ \A k \in 1 .. n : Run(s, a, n)[k] = s[a + k][2]
           /\ FirstN(Run(s, a, n), m) = Run(s, a, Smaller(n, m))
<1> DEFINE f == Run(s, a, n)
           T == {s[a + i][2] : i \in 1 .. n}
<1>1. f \in [1 .. n -> T] /\ \A k \in 1 .. n : f[k] = s[a + k][2]
  BY DEF Run
<1>2. f \in Seq(T) /\ Len(f) = n
  <2>1. Len(f) = n
    BY DEF Run
  <2> QED
    BY <1>1, <2>1, SeqDef
<1> DEFINE c == Smaller(n, m)
<1>3. c \in Nat /\ c <= n
  BY DEF Smaller
<1>4. SubSeq(f, 1, c) = Run(s, a, c)
  <2>1. /\ SubSeq(f, 1, c) \in Seq(T) /\ Len(SubSeq(f, 1, c)) = c
        /\ \A i \in 1 .. c : SubSeq(f, 1, c)[i] = f[i]
    <3>1. \A i \in 1 .. c : f[i] \in T
      BY <1>1, <1>3
    <3> HIDE DEF f, c, T
    <3> QED
      BY <1>3, <3>1, SubSeqProperties
  <2>2. \A i \in 1 .. c : f[i] = s[a + i][2]
    BY <1>1, <1>3
  <2> HIDE DEF f, c, T
  <2>3. SubSeq(f, 1, c) = [i \in 1 .. c |-> SubSeq(f, 1, c)[i]]
    BY <2>1
  <2> QED
    BY <2>1, <2>2, <2>3 DEF Run
<1> QED
  BY <1>1, <1>2, <1>4 DEF FirstN

\* What is queued for a request: the pictures of its workflow, in their order.
Prompting(r, s) ==
    /\ s \in Seq(Picture) /\ Sorted(s) /\ Fitting(r, s)
    /\ FrameOK(r, s) /\ (r.workflow = FL2VA => Len(s) # 1)

\* The pictures of a prompt, one by one.
LEMMA PromptRoles ==
    ASSUME NEW r, NEW s, Prompting(r, s)
    PROVE  /\ Len(s) \in Nat
           /\ \A k \in 1 .. Len(s) : s[k] \in Picture /\ s[k][1] \in Role /\ s[k][1] \in Roles(r)
           /\ \A i, k \in 1 .. Len(s) : i < k => Before(s[i], s[k])
<1>1. s \in Seq(Picture)
  BY DEF Prompting
<1>2. Len(s) \in Nat /\ \A k \in 1 .. Len(s) : s[k] \in Picture
  BY <1>1, LenProperties, ElementOfSeq
<1> QED
  BY <1>2 DEF Prompting, Fitting, Sorted, Picture

\* An FL2VA prompt is its first frame and its last frame.
LEMMA FramePair ==
    ASSUME NEW r, NEW s, Prompting(r, s), r.workflow = FL2VA
    PROVE  /\ Len(s) = 2 /\ s[1][1] = "first" /\ s[2][1] = "last"
           /\ Named(s, "first") = Run(s, 0, 1) /\ Named(s, "last") = Run(s, 1, 1)
<1> DEFINE L == Len(s)
<1>1. L \in Nat /\ L >= 2 /\ s[1][1] = "first"
  <2>1. L \in Nat /\ L # 0
    BY EmptySeq, LenProperties DEF Prompting, FrameOK
  <2>2. L # 1 /\ s[1][1] = "first"
    BY DEF Prompting, FrameOK
  <2> HIDE DEF L
  <2> QED
    BY <2>1, <2>2
<1>2. /\ \A k \in 1 .. L : s[k][1] \in {"first", "last"}
      /\ \A i, k \in 1 .. L : i < k => Before(s[i], s[k])
  BY PromptRoles DEF Roles, FL2VA, R2V, Multishot
<1>3. \A i, k \in 1 .. L : i < k => s[i][1] = "first" /\ s[k][1] = "last"
  BY <1>2 DEF Before, Place
<1>4. L = 2 /\ s[2][1] = "last"
  <2> HIDE DEF L
  <2>1. 1 \in 1 .. L /\ 2 \in 1 .. L /\ (L > 2 => 3 \in 1 .. L)
    BY <1>1
  <2>2. s[2][1] = "last"
    BY <1>3, <2>1
  <2>3. ~ (L > 2)
    BY <1>3, <2>1
  <2> QED
    BY <1>1, <2>2, <2>3
<1>5. s \in Seq(Picture)
  BY DEF Prompting
<1>6. 1 .. L = {1, 2}
  BY <1>4
<1>7. /\ \A k \in 1 .. L : s[k][1] = "first" <=> k \in 0 + 1 .. 1
      /\ \A k \in 1 .. L : s[k][1] = "last" <=> k \in 1 + 1 .. 2
  BY <1>1, <1>4, <1>6
<1> DEFINE zero == 0
           one == 1
           two == 2
<1>8. /\ zero \in Nat /\ one \in Nat /\ two \in Nat /\ zero <= one /\ one <= two
      /\ one <= Len(s) /\ two <= Len(s) /\ one - zero = 1 /\ two - one = 1
  BY <1>4
<1>9. /\ \A k \in 1 .. Len(s) : s[k][1] = "first" <=> k \in zero + 1 .. one
      /\ \A k \in 1 .. Len(s) : s[k][1] = "last" <=> k \in one + 1 .. two
  BY <1>7
<1> HIDE DEF zero, one, two, L
<1>10. Named(s, "first") = Run(s, zero, one - zero) /\ Named(s, "last") = Run(s, one, two - one)
  BY <1>5, <1>8, <1>9, NamedRun
<1> QED
  BY <1>1, <1>4, <1>8, <1>10 DEF zero, one, L

\* An R2V prompt is its references.
LEMMA References ==
    ASSUME NEW r, NEW s, Prompting(r, s), r.workflow = R2V
    PROVE  Named(s, "ref") = Run(s, 0, Len(s))
<1> DEFINE L == Len(s)
<1>1. L \in Nat /\ \A k \in 1 .. L : s[k][1] = "ref"
  BY PromptRoles DEF Roles, FL2VA, R2V, Multishot
<1>2. s \in Seq(Picture)
  BY DEF Prompting
<1>3. \A k \in 1 .. L : s[k][1] = "ref" <=> k \in 0 + 1 .. L
  BY <1>1
<1> HIDE DEF L
<1>4. 0 <= L /\ L - 0 = L
  BY <1>1
<1>5. L <= Len(s)
  BY <1>1 DEF L
<1> QED
  BY <1>1, <1>2, <1>3, <1>4, <1>5, NamedRun DEF L

\* How many start images there are.
Starts(s) == IF s # <<>> /\ s[1][1] = "start" THEN 1 ELSE 0

\* A multishot prompt is its start image, if any, and its references.
LEMMA StartAndReferences ==
    ASSUME NEW r, NEW s, Prompting(r, s), r.workflow = Multishot
    PROVE  /\ Starts(s) \in 0 .. 1 /\ Starts(s) <= Len(s) /\ Len(s) \in Nat
           /\ Named(s, "start") = Run(s, 0, Starts(s))
           /\ Named(s, "ref") = Run(s, Starts(s), Len(s) - Starts(s))
<1> DEFINE L == Len(s)
           a == Starts(s)
<1>1. /\ L \in Nat /\ \A k \in 1 .. L : s[k][1] \in {"start", "ref"}
      /\ \A i, k \in 1 .. L : i < k => Before(s[i], s[k])
  BY PromptRoles DEF Roles, FL2VA, R2V, Multishot
<1>2. s \in Seq(Picture)
  BY DEF Prompting
<1>3. a \in 0 .. 1 /\ a <= L
  <2>1. s # <<>> => L >= 1
    BY <1>2, NonEmpty
  <2> HIDE DEF L
  <2> QED
    BY <1>1, <2>1 DEF Starts
<1>4. ASSUME NEW k \in 1 .. L, k > 1 PROVE s[k][1] = "ref"
  <2>1. 1 \in 1 .. L /\ 1 < k
    BY <1>1, <1>4
  <2>2. Before(s[1], s[k]) /\ s[k][1] \in {"start", "ref"} /\ s[1][1] \in {"start", "ref"}
    BY <1>1, <2>1
  <2> QED
    BY <2>2 DEF Before, Place
<1>5. ASSUME NEW k \in 1 .. L PROVE k <= a <=> s[k][1] = "start"
  <2>1. s # <<>>
    BY <1>1, <1>2, EmptySeq
  <2>2. CASE k = 1
    BY <1>1, <2>1, <2>2 DEF Starts
  <2>3. CASE k > 1
    BY <1>3, <1>4, <2>3
  <2> QED
    BY <1>1, <2>2, <2>3
<1> HIDE DEF a, L
<1>6. /\ \A k \in 1 .. L : s[k][1] = "start" <=> k \in 0 + 1 .. a
      /\ \A k \in 1 .. L : s[k][1] = "ref" <=> k \in a + 1 .. L
  <2>1. \A k \in 1 .. L : s[k][1] = "ref" <=> ~ (k <= a)
    BY <1>1, <1>5
  <2> QED
    BY <1>1, <1>3, <1>5, <2>1
<1>7. a - 0 = a /\ a \in Nat /\ 0 <= a /\ L <= L
  BY <1>1, <1>3
<1>8. Named(s, "start") = Run(s, 0, a - 0)
  BY <1>2, <1>3, <1>6, <1>7, NamedRun DEF L
<1>9. Named(s, "ref") = Run(s, a, L - a)
  BY <1>1, <1>2, <1>3, <1>6, <1>7, NamedRun DEF L
<1> QED
  BY <1>1, <1>3, <1>7, <1>8, <1>9 DEF a, L

-----------------------------------------------------------------------------
(* What the adapters make of a prompt.                                     *)

\* What build_workflow of FL2VA makes of any prompt it is given.
LEMMA FL2VAPrompt ==
    ASSUME NEW r, NEW s, Prompting(r, s), r.workflow = FL2VA
    PROVE  Wired(Graph(r, s), Loaded(r, s))
<1>1. /\ Len(s) = 2 /\ Named(s, "first") = Run(s, 0, 1) /\ Named(s, "last") = Run(s, 1, 1)
  BY FramePair
<1>2. Named(s, "first")[1] = s[1][2] /\ Named(s, "last")[1] = s[2][2]
  BY <1>1 DEF Run
<1>3. Graph(r, s) = FL2VAGraph(s)
  BY DEF Graph, FL2VA, R2V, Multishot
<1>4. FL2VAIn(FL2VAGraph(s), s[1][2], s[2][2])
  BY <1>2, FL2VAIs
<1>5. Loaded(r, s) = {s[1][2], s[2][2]}
  <2>1. Shown(r, s) = 2
    BY DEF Shown, FL2VA, R2V, Multishot
  <2>2. {k \in 1 .. Len(s) : k <= Shown(r, s)} = {1, 2}
    BY <1>1, <2>1
  <2> QED
    BY <2>2 DEF Loaded
<1> QED
  BY <1>3, <1>4, <1>5, FL2VAWired

\* The names of a run, as a set.
NamesOf(s, a, n) == {s[a + i][2] : i \in 1 .. n}

\* The names of a run.
LEMMA RunNames ==
    ASSUME NEW s, NEW a \in Nat, NEW n \in Nat, NEW m \in Nat
    PROVE  /\ Len(Run(s, a, n)) = n
           /\ FirstN(Run(s, a, n), m) = Run(s, a, Smaller(n, m))
           /\ Run(s, a, n) \in Seq(NamesOf(s, a, n))
           /\ {Run(s, a, n)[k] : k \in 1 .. Len(Run(s, a, n))} = NamesOf(s, a, n)
<1>1. /\ Run(s, a, n) \in Seq({s[a + i][2] : i \in 1 .. n}) /\ Len(Run(s, a, n)) = n
      /\ \A k \in 1 .. n : Run(s, a, n)[k] = s[a + k][2]
      /\ FirstN(Run(s, a, n), m) = Run(s, a, Smaller(n, m))
  BY RunOf
<1>2. {Run(s, a, n)[k] : k \in 1 .. n} = NamesOf(s, a, n)
  BY <1>1 DEF NamesOf
<1> QED
  BY <1>1, <1>2 DEF NamesOf

\* The names an R2V prompt shows.
LEMMA R2VNames ==
    ASSUME NEW r \in Requests, NEW s, Prompting(r, s), r.workflow = R2V
    PROVE  LET n == Smaller(Len(s), 3)
               names == Run(s, 0, n)
           IN  /\ Graph(r, s) = R2VGraph(r, s)
               /\ n \in Nat /\ n <= 3 /\ Len(names) = n /\ Len(names) <= 3
               /\ names \in Seq(NamesOf(s, 0, n))
               /\ FirstN(Named(s, "ref"), 3) = names
               /\ R2VIn(R2VGraph(r, s), names, R2VModel(r))
<1> DEFINE n == Smaller(Len(s), 3)
           names == Run(s, 0, n)
<1>1. Named(s, "ref") = Run(s, 0, Len(s)) /\ Len(s) \in Nat
  BY References, PromptRoles
<1>2. n \in Nat /\ n <= 3
  BY <1>1 DEF Smaller
<1>3. FirstN(Named(s, "ref"), 3) = names
  <2> DEFINE zero == 0
  <2>1. zero \in Nat /\ 3 \in Nat
    OBVIOUS
  <2> HIDE DEF zero
  <2>2. FirstN(Run(s, zero, Len(s)), 3) = Run(s, zero, Smaller(Len(s), 3))
    BY <1>1, <2>1, RunNames
  <2> QED
    BY <1>1, <2>2 DEF zero
<1>4. Len(names) = n /\ names \in Seq(NamesOf(s, 0, n))
  BY <1>2, RunNames
<1>6. Graph(r, s) = R2VGraph(r, s)
  BY DEF Graph, FL2VA, R2V, Multishot
<1>7. r.pdd \in BOOLEAN /\ r.turbo \in BOOLEAN
  BY DEF Requests
<1> HIDE DEF names, n
<1>8. R2VIn(R2VGraph(r, s), names, R2VModel(r))
  BY <1>2, <1>3, <1>4, <1>7, R2VIs
<1>9. Len(names) <= 3
  BY <1>2, <1>4
<1> QED
  BY <1>2, <1>3, <1>4, <1>6, <1>8, <1>9 DEF n, names

\* What the adapter of R2V makes of any prompt it is given.
LEMMA R2VPrompt ==
    ASSUME NEW r \in Requests, NEW s, Prompting(r, s), r.workflow = R2V
    PROVE  Wired(Graph(r, s), Loaded(r, s))
<1> DEFINE n == Smaller(Len(s), 3)
           names == Run(s, 0, n)
<1>1. /\ Graph(r, s) = R2VGraph(r, s)
      /\ n \in Nat /\ n <= 3 /\ Len(names) <= 3 /\ names \in Seq(NamesOf(s, 0, n))
      /\ R2VIn(R2VGraph(r, s), names, R2VModel(r))
  BY R2VNames
<1>2. {names[k] : k \in 1 .. Len(names)} = NamesOf(s, 0, n)
  BY <1>1, RunNames
<1>3. Loaded(r, s) = NamesOf(s, 0, n)
  <2>1. Shown(r, s) = 3
    BY DEF Shown, FL2VA, R2V, Multishot
  <2>2. {k \in 1 .. Len(s) : k <= Shown(r, s)} = 1 .. n
    BY <2>1, PromptRoles DEF Smaller
  <2>3. \A k \in 1 .. n : 0 + k = k
    BY <1>1
  <2> QED
    BY <2>2, <2>3 DEF Loaded, NamesOf
<1>4. BranchOK(R2VModel(r))
  BY BranchIsOK DEF Requests
<1> HIDE DEF names, n
<1>5. Wired(R2VGraph(r, s), {names[k] : k \in 1 .. Len(names)})
  BY <1>1, <1>4, R2VWired
<1> QED
  BY <1>1, <1>2, <1>3, <1>5

\* The start image and the references a multishot prompt shows.
LEMMA MultishotNames ==
    ASSUME NEW r \in Requests, NEW s, Prompting(r, s), r.workflow = Multishot
    PROVE  LET a == Starts(s)
               n == Smaller(Len(s) - a, 9)
               names == Run(s, a, n)
               start == Run(s, 0, a)
           IN  /\ Graph(r, s) = MultishotGraph(r, s)
               /\ a \in 0 .. 1 /\ a <= Len(s) /\ Len(s) \in Nat /\ a \in Nat /\ n \in Nat
               /\ n <= 9
               /\ Len(names) = n /\ names \in Seq(NamesOf(s, a, n))
               /\ Len(start) = a /\ (start = <<>> <=> a = 0) /\ (a # 0 => start[1] = s[1][2])
               /\ MultishotIn(MultishotGraph(r, s), r.cache \/ s # <<>>, start, names)
<1> DEFINE a == Starts(s)
           n == Smaller(Len(s) - a, 9)
           names == Run(s, a, n)
           start == Run(s, 0, a)
<1>1. /\ a \in 0 .. 1 /\ a <= Len(s) /\ Len(s) \in Nat
      /\ Named(s, "start") = start /\ Named(s, "ref") = Run(s, a, Len(s) - a)
  BY StartAndReferences
<1>2. Len(s) - a \in Nat /\ a \in Nat
  BY <1>1
<1>3. n \in Nat /\ n <= 9
  BY <1>2 DEF Smaller
<1>4. FirstN(Named(s, "ref"), 9) = names
  <2> DEFINE l == Len(s) - a
  <2>1. l \in Nat /\ 9 \in Nat /\ a \in Nat
    BY <1>2
  <2> HIDE DEF l, a
  <2>2. FirstN(Run(s, a, l), 9) = Run(s, a, Smaller(l, 9))
    BY <2>1, RunNames
  <2> QED
    BY <1>1, <2>2 DEF l
<1>5. Len(names) = n /\ names \in Seq(NamesOf(s, a, n))
  <2> HIDE DEF n, a
  <2> QED
    BY <1>2, <1>3, RunNames
<1>6. Len(start) = a /\ (start = <<>> <=> a = 0) /\ (a # 0 => start[1] = s[1][2])
  <2> HIDE DEF a
  <2>1. Len(start) = a /\ (a # 0 => start[1] = s[1][2])
    <3>1. a \in Nat /\ (a # 0 => 1 \in 1 .. a) /\ 0 + 1 = 1
      BY <1>1
    <3> QED
      BY <3>1 DEF Run
  <2>2. start = <<>> <=> a = 0
    BY <2>1, RunGrows
  <2> QED
    BY <2>1, <2>2
<1>7. Graph(r, s) = MultishotGraph(r, s)
  BY DEF Graph, FL2VA, R2V, Multishot
<1>8. r.cache \in BOOLEAN
  BY DEF Requests
<1> HIDE DEF names, n, a
<1>9. MultishotIn(MultishotGraph(r, s), r.cache \/ s # <<>>, start, names)
  BY <1>1, <1>3, <1>4, <1>5, <1>8, MultishotIs
<1> QED
  BY <1>1, <1>2, <1>3, <1>5, <1>6, <1>7, <1>9 DEF names, n, a

\* What the adapter of multishot makes of any prompt it is given.
LEMMA MultishotPrompt ==
    ASSUME NEW r \in Requests, NEW s, Prompting(r, s), r.workflow = Multishot
    PROVE  Wired(Graph(r, s), Loaded(r, s))
<1> DEFINE a == Starts(s)
           n == Smaller(Len(s) - a, 9)
           names == Run(s, a, n)
           start == Run(s, 0, a)
           frame == IF start = <<>> THEN {} ELSE {start[1]}
<1>1. /\ Graph(r, s) = MultishotGraph(r, s)
      /\ a \in 0 .. 1 /\ a <= Len(s) /\ Len(s) \in Nat /\ a \in Nat /\ n \in Nat /\ n <= 9
      /\ Len(names) = n /\ names \in Seq(NamesOf(s, a, n))
      /\ Len(start) = a /\ (start = <<>> <=> a = 0) /\ (a # 0 => start[1] = s[1][2])
      /\ MultishotIn(MultishotGraph(r, s), r.cache \/ s # <<>>, start, names)
  BY MultishotNames
<1>2. {names[k] : k \in 1 .. Len(names)} = NamesOf(s, a, n)
  <2> HIDE DEF a, n
  <2> QED
    BY <1>1, RunNames
<1>3. frame = IF a = 0 THEN {} ELSE {s[1][2]}
  BY <1>1
<1>4. Loaded(r, s) = NamesOf(s, a, n) \cup frame
  <2> DEFINE L == Len(s)
  <2>1. Shown(r, s) = a + 9
    BY DEF Shown, Starts, FL2VA, R2V, Multishot
  <2>2. L \in Nat /\ L - a \in Nat /\ a \in 0 .. 1 /\ a <= L
    BY <1>1
  <2>3. n = IF L - a < 9 THEN L - a ELSE 9
    BY DEF Smaller
  <2> HIDE DEF a, n, L, names, start, frame
  <2>4. \A k \in 1 .. L : k <= a + 9 <=> (k - a \in 1 .. n \/ (k = 1 /\ a = 1))
    BY <2>2, <2>3
  <2>5. \A k \in 1 .. L : a + (k - a) = k
    BY <2>2
  <2>6. \A i \in 1 .. n : a + i \in 1 .. L /\ a + i <= a + 9
    BY <2>2, <2>3
  <2>7. ASSUME NEW k \in 1 .. L, k <= a + 9 PROVE s[k][2] \in NamesOf(s, a, n) \cup frame
    <3>1. CASE k - a \in 1 .. n
      BY <2>5, <3>1 DEF NamesOf
    <3>2. CASE k = 1 /\ a = 1
      BY <1>3, <3>2
    <3> QED
      BY <2>4, <2>7, <3>1, <3>2
  <2>8. a # 0 => 1 \in 1 .. L /\ 1 <= a + 9
    BY <2>2
  <2>9. Loaded(r, s) = {s[k][2] : k \in {k \in 1 .. L : k <= a + 9}}
    BY <2>1 DEF Loaded, L
  <2> QED
    BY <1>3, <2>6, <2>7, <2>8, <2>9 DEF NamesOf
<1> HIDE DEF names, n, a, start
<1>5. Wired(MultishotGraph(r, s), {names[k] : k \in 1 .. Len(names)} \cup frame)
  BY <1>1, MultishotWired
<1> QED
  BY <1>1, <1>2, <1>4, <1>5

\* Whatever is queued, its graph is executable.
LEMMA PromptWired ==
    ASSUME NEW r \in Requests, NEW s, Prompting(r, s)
    PROVE  Wired(Graph(r, s), Loaded(r, s))
<1>1. r.workflow \in {FL2VA, R2V, Multishot}
  BY DEF Requests
<1> QED
  BY <1>1, FL2VAPrompt, R2VPrompt, MultishotPrompt

-----------------------------------------------------------------------------
(* One model, and the right VAEs.                                          *)

\* Guidance and schedule of an FL2VA graph are both the loader's model's.
LEMMA FL2VAConsistent ==
    ASSUME NEW r, NEW G, NEW first, NEW last, FL2VAIn(G, first, last), r.workflow = FL2VA
    PROVE  Consistent(G, r)
<1>1. /\ G["SAMPLER"].in.sigmas = <<"SCHED", 0>> /\ G["GUIDER"].in.model = <<"UNET", 0>>
      /\ G["VDEC"].in.vae = <<"VAE_V", 0>> /\ G["ADEC"].in.vae = <<"VAE_A", 0>>
  BY DEF FL2VAIn, RestIn, Node
<1>2. G["SCHED"].in.model = <<"UNET", 0>> /\ G["CORE"].in.vae = <<"VAE_V", 0>>
  BY DEF FL2VAIn, Node
<1>3. "LORA" \notin DOMAIN G
  BY DEF FL2VAIn, RestNodes
<1> QED
  BY <1>1, <1>2, <1>3 DEF Consistent, FL2VA, R2V

\* Those of an R2V graph are the branch's, plain, turbo or PDD.
LEMMA R2VConsistent ==
    ASSUME NEW r, NEW G, NEW S, NEW names \in Seq(S), Len(names) <= 3,
           r.pdd \in BOOLEAN, r.turbo \in BOOLEAN,
           R2VIn(G, names, R2VModel(r)), r.workflow = R2V
    PROVE  Consistent(G, r)
<1> DEFINE m == R2VModel(r)
<1>1. /\ G["SAMPLER"].in.sigmas = m.sigmas /\ G["GUIDER"].in.model = m.model
      /\ G["VDEC"].in.vae = <<"VAE_V", 0>> /\ G["ADEC"].in.vae = <<"VAE_A", 0>>
  BY DEF R2VIn, RestIn, Node
<1>2. G["CORE"].in.vae = <<"VAE_V", 0>>
  BY DEF R2VIn, CoreIn
<1>3. "LORA" \in DOMAIN G <=> "LORA" \in DOMAIN m.branch
  <2>1. "LORA" \notin RefNodesOf(names)
    <3>1. Len(names) \in Nat /\ Len(names) <= 9
      BY NonEmpty
    <3> QED
      BY <3>1, RefNodes DEF RefNodesOf
  <2> QED
    BY <2>1 DEF R2VIn, RestNodes
<1>4. Part(m.branch, G)
  BY DEF R2VIn
<1>5. CASE r.pdd
  <2>1. m = [branch |-> PDDBranch, model |-> <<"PDD", 0>>, sigmas |-> <<"PDD", 1>>]
    BY <1>5 DEF R2VModel
  <2>2. "LORA" \notin DOMAIN m.branch
    BY <2>1 DEF PDDBranch
  <2> HIDE DEF m
  <2> QED
    BY <1>1, <1>2, <1>3, <1>5, <2>1, <2>2 DEF Consistent
<1>6. CASE ~r.pdd /\ r.turbo
  <2>1. m = [branch |-> TurboBranch, model |-> <<"SW_MODEL", 0>>, sigmas |-> <<"SCHED", 0>>]
    BY <1>6 DEF R2VModel
  <2>2. "LORA" \in DOMAIN m.branch /\ G["SCHED"].in.model = <<"SW_MODEL", 0>>
    BY <1>4, <2>1 DEF TurboBranch, Part, Node
  <2> HIDE DEF m
  <2> QED
    BY <1>1, <1>2, <1>3, <1>6, <2>1, <2>2 DEF Consistent
<1>7. CASE ~r.pdd /\ ~r.turbo
  <2>1. m = [branch |-> PlainBranch, model |-> <<"UNET", 0>>, sigmas |-> <<"SCHED", 0>>]
    BY <1>7 DEF R2VModel
  <2>2. "LORA" \notin DOMAIN m.branch /\ G["SCHED"].in.model = <<"UNET", 0>>
    BY <1>4, <2>1 DEF PlainBranch, Part, Node
  <2> HIDE DEF m
  <2> QED
    BY <1>1, <1>2, <1>3, <1>7, <2>1, <2>2 DEF Consistent
<1> QED
  BY <1>5, <1>6, <1>7

\* Whatever is queued for the two workflows, its graph is consistent.
LEMMA PromptConsistent ==
    ASSUME NEW r \in Requests, NEW s, Prompting(r, s), r.workflow # Multishot
    PROVE  Consistent(Graph(r, s), r)
<1>1. CASE r.workflow = FL2VA
  <2>1. Graph(r, s) = FL2VAGraph(s)
    BY <1>1 DEF Graph, FL2VA, R2V, Multishot
  <2> QED
    BY <1>1, <2>1, FL2VAIs, FL2VAConsistent
<1>2. CASE r.workflow = R2V
  <2> DEFINE n == Smaller(Len(s), 3)
             names == Run(s, 0, n)
  <2>1. /\ Graph(r, s) = R2VGraph(r, s) /\ Len(names) <= 3 /\ names \in Seq(NamesOf(s, 0, n))
        /\ R2VIn(R2VGraph(r, s), names, R2VModel(r))
    BY <1>2, R2VNames
  <2>2. r.pdd \in BOOLEAN /\ r.turbo \in BOOLEAN
    BY DEF Requests
  <2> HIDE DEF names, n
  <2> QED
    BY <1>2, <2>1, <2>2, R2VConsistent
<1> QED
  BY <1>1, <1>2 DEF Requests

-----------------------------------------------------------------------------
(* The pictures a node is shown.                                           *)

\* f gives the pictures of every node that loads or batches some.
ShownAt(f, G) ==
    f = [n \in PictureNodes(G) |->
            IF G[n].class = "LoadImage" THEN <<G[n].image>>
            ELSE f[G[n].in.image1[1]] \o f[G[n].in.image2[1]]]

\* A batch is made of pictures that are there before it.
Layered(G) ==
    \A n \in PictureNodes(G) :
        /\ Rank(n) \in Nat
        /\ G[n].class # "LoadImage" =>
              \A p \in {"image1", "image2"} : /\ G[n].in[p][1] \in PictureNodes(G)
                                              /\ Rank(G[n].in[p][1]) < Rank(n)

\* PicturesAt is the value of such a function.
LEMMA SomePictures ==
    ASSUME NEW G, NEW link, NEW f, ShownAt(f, G)
    PROVE  \E g : ShownAt(g, G) /\ PicturesAt(G, link) = g[link[1]]
<1> DEFINE at == CHOOSE g : ShownAt(g, G)
<1>1. ShownAt(at, G)
  OBVIOUS
<1>2. PicturesAt(G, link) = at[link[1]]
  BY DEF PicturesAt, ShownAt
<1> QED
  BY <1>1, <1>2

\* There is one such function, whatever the graph looks like.
LEMMA PicturesAre ==
    ASSUME NEW G, NEW link, NEW f, ShownAt(f, G), Layered(G), link[1] \in PictureNodes(G)
    PROVE  PicturesAt(G, link) = f[link[1]]
<1>1. PICK g : ShownAt(g, G) /\ PicturesAt(G, link) = g[link[1]]
  BY SomePictures
<1> DEFINE D == {n \in PictureNodes(G) : g[n] # f[n]}
           R == {Rank(n) : n \in D}
<1>2. \A h, n : ShownAt(h, G) /\ n \in PictureNodes(G) =>
         h[n] = IF G[n].class = "LoadImage" THEN <<G[n].image>>
                ELSE h[G[n].in.image1[1]] \o h[G[n].in.image2[1]]
  <2> SUFFICES ASSUME NEW h, NEW n \in PictureNodes(G), ShownAt(h, G)
               PROVE  h[n] = IF G[n].class = "LoadImage" THEN <<G[n].image>>
                             ELSE h[G[n].in.image1[1]] \o h[G[n].in.image2[1]]
    OBVIOUS
  <2> DEFINE e(m) == IF G[m].class = "LoadImage" THEN <<G[m].image>>
                     ELSE h[G[m].in.image1[1]] \o h[G[m].in.image2[1]]
  <2>1. h = [m \in PictureNodes(G) |-> e(m)]
    BY DEF ShownAt
  <2> HIDE DEF e
  <2>2. h[n] = e(n)
    BY <2>1
  <2> QED
    BY <2>2 DEF e
<1>3. D = {}
  <2> SUFFICES ASSUME D # {} PROVE FALSE
    OBVIOUS
  <2>1. R \in SUBSET Nat /\ R # {}
    BY DEF Layered
  <2>2. PICK m \in R : \A k \in R : m <= k
    BY <2>1, Least
  <2>3. PICK n \in D : m = Rank(n)
    BY <2>2
  <2>4. G[n].class # "LoadImage"
    BY <1>1, <1>2, <2>3
  <2>5. \A p \in {"image1", "image2"} :
           /\ G[n].in[p][1] \in PictureNodes(G) /\ Rank(G[n].in[p][1]) < Rank(n)
           /\ Rank(G[n].in[p][1]) \in Nat /\ Rank(n) \in Nat
    BY <2>3, <2>4 DEF Layered
  <2>6. \A p \in {"image1", "image2"} : G[n].in[p][1] \notin D
    <3> SUFFICES ASSUME NEW p \in {"image1", "image2"}, G[n].in[p][1] \in D PROVE FALSE
      OBVIOUS
    <3> DEFINE k == Rank(G[n].in[p][1])
    <3>1. k \in R /\ k < m /\ k \in Nat /\ m \in Nat
      BY <2>3, <2>5
    <3>2. m <= k
      BY <2>2, <3>1
    <3> HIDE DEF k
    <3> QED
      BY <3>1, <3>2
  <2>7. \A p \in {"image1", "image2"} : g[G[n].in[p][1]] = f[G[n].in[p][1]]
    BY <2>5, <2>6
  <2>8. /\ g[G[n].in.image1[1]] = f[G[n].in.image1[1]]
        /\ g[G[n].in.image2[1]] = f[G[n].in.image2[1]]
    BY <2>7
  <2>9. g[n] = f[n]
    <3>1. n \in PictureNodes(G)
      BY <2>3
    <3>2. g[n] = g[G[n].in.image1[1]] \o g[G[n].in.image2[1]]
      BY <1>1, <1>2, <2>4, <3>1
    <3>3. f[n] = f[G[n].in.image1[1]] \o f[G[n].in.image2[1]]
      BY <1>2, <2>4, <3>1
    <3> QED
      BY <2>8, <3>2, <3>3, Zenon
  <2> QED
    BY <2>3, <2>9
<1> QED
  BY <1>1, <1>3

\* A graph without batches.
LEMMA OnePicture ==
    ASSUME NEW G, \A n \in DOMAIN G : G[n].class # "ImageBatch",
           \A n \in PictureNodes(G) : Rank(n) \in Nat,
           NEW n \in DOMAIN G, NEW file, LoadsFile(G, n, file), NEW link, link[1] = n
    PROVE  PicturesAt(G, link) = <<file>>
<1> DEFINE f == [m \in PictureNodes(G) |-> <<G[m].image>>]
<1>1. \A m \in PictureNodes(G) : G[m].class = "LoadImage"
  BY DEF PictureNodes
<1>2. n \in PictureNodes(G) /\ f[n] = <<file>>
  BY DEF PictureNodes, LoadsFile
<1>3. ShownAt(f, G)
  <2> DEFINE e(m) == IF G[m].class = "LoadImage" THEN <<G[m].image>>
                     ELSE f[G[m].in.image1[1]] \o f[G[m].in.image2[1]]
  <2>1. \A m \in PictureNodes(G) : e(m) = f[m]
    BY <1>1
  <2>2. f = [m \in PictureNodes(G) |-> f[m]]
    OBVIOUS
  <2> HIDE DEF e, f
  <2>3. f = [m \in PictureNodes(G) |-> e(m)]
    BY <2>1, <2>2
  <2> QED
    BY <2>3 DEF ShownAt, e
<1>4. Layered(G)
  BY <1>1 DEF Layered
<1> HIDE DEF f
<1> QED
  BY <1>2, <1>3, <1>4, PicturesAre

\* Ranks are numbers.
LEMMA AllRanks == \A n : Rank(n) \in Nat
BY DEF Rank

\* What is common to the graphs batches nothing.
LEMMA RestShowsNothing ==
    ASSUME NEW G, NEW model, NEW sigmas, RestIn(G, model, sigmas), LoadersIn(G)
    PROVE  /\ \A n \in RestNodes : G[n].class # "ImageBatch"
           /\ \A n \in {"UNET", "CLIP", "VAE_V", "VAE_A"} : G[n].class # "ImageBatch"
BY DEF RestIn, LoadersIn, RestNodes, Node

\* Two lists of one picture.
LEMMA TwoSingles == ASSUME NEW x, NEW y PROVE <<x>> \o <<y>> = <<x, y>>
<1> DEFINE s == <<x>>
           t == <<y>>
           S == {x, y}
           u == s \o t
<1>1. s \in Seq(S) /\ t \in Seq(S) /\ Len(s) = 1 /\ Len(t) = 1 /\ s[1] = x /\ t[1] = y
  OBVIOUS
<1> HIDE DEF s, t, S
<1>2. /\ u \in Seq(S) /\ Len(u) = Len(s) + Len(t)
      /\ \A i \in 1 .. Len(s) : u[i] = s[i]
      /\ \A i \in Len(s) + 1 .. Len(s) + Len(t) : u[i] = t[i - Len(s)]
  BY <1>1, ConcatProperties
<1> HIDE DEF u
<1>3. 1 \in 1 .. 1 /\ 2 \in 1 + 1 .. 1 + 1 /\ 2 - 1 = 1 /\ 1 + 1 = 2
  OBVIOUS
<1>4. Len(u) = 2 /\ u[1] = x /\ u[2] = y
  BY <1>1, <1>2, <1>3
<1>5. u = <<u[1], u[2]>>
  <2>1. u \in Seq(S) /\ Len(u) = 2
    BY <1>2, <1>4
  <2> QED
    BY ONLY <2>1
<1> QED
  BY <1>4, <1>5 DEF s, t, u

\* An FL2VA graph shows its two frames.
LEMMA FL2VAPictures ==
    ASSUME NEW r, r.workflow = FL2VA, NEW G, NEW first, NEW last, FL2VAIn(G, first, last)
    PROVE  Pictures(G, r) = <<first, last>>
<1>1. /\ LoadersIn(G) /\ RestIn(G, <<"UNET", 0>>, <<"SCHED", 0>>)
      /\ G["first"] = LoadImage(first) /\ G["last"] = LoadImage(last)
      /\ {"first", "last"} \subseteq DOMAIN G
  BY DEF FL2VAIn
<1>2. /\ Ports(G, "CORE") = {"clip", "vae", "first_frame", "last_frame"}
      /\ G["CORE"].in["first_frame"] = <<"first", 0>>
      /\ G["CORE"].in["last_frame"] = <<"last", 0>>
  BY DEF FL2VAIn, Node, Ports
<1>3. \A n \in DOMAIN G : G[n].class # "ImageBatch"
  <2>1. \A n \in {"first", "last", "CORE", "SCHED"} : G[n].class # "ImageBatch"
    BY DEF FL2VAIn, Node, LoadImage
  <2>2. \A n \in DOMAIN G : n \in {"first", "last", "CORE", "SCHED"} \cup RestNodes
                                  \cup {"UNET", "CLIP", "VAE_V", "VAE_A"}
    BY DEF FL2VAIn
  <2> QED
    BY <1>1, <2>1, <2>2, RestShowsNothing
<1>4. LoadsFile(G, "first", first) /\ LoadsFile(G, "last", last)
  BY <1>1, LoadsIt
<1>5. PicturesAt(G, <<"first", 0>>) = <<first>> /\ PicturesAt(G, <<"last", 0>>) = <<last>>
  BY <1>1, <1>3, <1>4, AllRanks, OnePicture
<1>6. /\ PortPictures(G, "CORE", "first_frame") = <<first>>
      /\ PortPictures(G, "CORE", "last_frame") = <<last>>
  BY <1>2, <1>5 DEF PortPictures
<1>7. Pictures(G, r) = <<first>> \o <<last>>
  BY <1>6 DEF Pictures, FL2VA, R2V, Multishot
<1> QED
  BY <1>7, TwoSingles

\* An R2V graph shows its references in their order.
LEMMA R2VPictures ==
    ASSUME NEW r, r.workflow = R2V, r.pdd \in BOOLEAN, r.turbo \in BOOLEAN,
           NEW G, NEW S, NEW names \in Seq(S), Len(names) <= 3,
           R2VIn(G, names, R2VModel(r))
    PROVE  Pictures(G, r) = names
<1> DEFINE m == R2VModel(r)
<1>1. /\ LoadersIn(G) /\ RestIn(G, m.model, m.sigmas) /\ RefsIn(G, names)
      /\ CoreIn(G, names) /\ Part(m.branch, G)
  BY DEF R2VIn
<1>2. Len(names) \in Nat /\ Len(names) <= 9
  BY NonEmpty
<1>3. \A n \in DOMAIN G : G[n].class # "ImageBatch"
  <2>1. \A n \in RefNodesOf(names) : G[n].class # "ImageBatch"
    BY <1>1 DEF RefsIn, LoadsFile, RefNodesOf
  <2>2. \A n \in DOMAIN m.branch : G[n].class # "ImageBatch"
    BY <1>1, BranchIsOK DEF BranchOK
  <2>3. G["CORE"].class # "ImageBatch"
    BY <1>1 DEF CoreIn
  <2>4. \A n \in DOMAIN G : n \in {"UNET", "CLIP", "VAE_V", "VAE_A",
                                   "CORE"} \cup RefNodesOf(names)
                                  \cup DOMAIN m.branch \cup RestNodes
    BY DEF R2VIn
  <2>5. /\ \A n \in RestNodes : G[n].class # "ImageBatch"
        /\ \A n \in {"UNET", "CLIP", "VAE_V", "VAE_A"} : G[n].class # "ImageBatch"
    BY <1>1, RestShowsNothing
  <2> HIDE DEF m
  <2> QED
    BY <2>1, <2>2, <2>3, <2>4, <2>5
<1> HIDE DEF m
<1>4. ASSUME NEW k \in 1 .. Len(names)
      PROVE  PortPictures(G, "CORE", RefPort[k]) = <<names[k]>>
  <2>1. RefPort[k] \in Ports(G, "CORE") /\ G["CORE"].in[RefPort[k]] = <<RefNode[k], 0>>
    BY <1>1 DEF CoreIn
  <2>2. LoadsFile(G, RefNode[k], names[k]) /\ RefNode[k] \in DOMAIN G
    BY <1>1 DEF RefsIn, RefNodesOf
  <2>3. PicturesAt(G, <<RefNode[k], 0>>) = <<names[k]>>
    BY <1>3, <2>2, AllRanks, OnePicture
  <2> QED
    BY <2>1, <2>3 DEF PortPictures
<1>5. ASSUME NEW k \in 1 .. 3, k \notin 1 .. Len(names)
      PROVE  PortPictures(G, "CORE", RefPort[k]) = <<>>
  <2>1. RefPort[k] \notin Ports(G, "CORE")
    <3>1. 1 .. 3 = {1, 2, 3}
      OBVIOUS
    <3>2. /\ \A i \in 1 .. 3 : RefPort[i] \in {"ref_image_0", "ref_image_1", "ref_image_2"}
          /\ \A i, l \in 1 .. 3 : RefPort[i] = RefPort[l] => i = l
      BY <3>1 DEF RefPort
    <3>3. \A l \in 1 .. Len(names) : l \in 1 .. 3
      BY <1>2
    <3> QED
      BY <1>1, <1>5, <3>2, <3>3 DEF CoreIn
  <2> QED
    BY <2>1 DEF PortPictures
<1> DEFINE At(p) == PortPictures(G, "CORE", p)
<1>6. Pictures(G, r) = At(RefPort[1]) \o At(RefPort[2]) \o At(RefPort[3])
  BY DEF Pictures, RefPort, FL2VA, R2V, Multishot
<1> HIDE DEF At
<1>7. CASE Len(names) = 0
  <2>1. At(RefPort[1]) = <<>> /\ At(RefPort[2]) = <<>> /\ At(RefPort[3]) = <<>>
    BY <1>5, <1>7 DEF At
  <2>2. names = <<>>
    BY <1>7, EmptySeq
  <2> QED
    BY <1>6, <2>1, <2>2
<1>8. CASE Len(names) = 1
  <2>1. At(RefPort[1]) = <<names[1]>> /\ At(RefPort[2]) = <<>> /\ At(RefPort[3]) = <<>>
    BY <1>4, <1>5, <1>8 DEF At
  <2>2. names = <<names[1]>>
    BY <1>8
  <2> QED
    BY <1>6, <2>1, <2>2
<1>9. CASE Len(names) = 2
  <2>1. At(RefPort[1]) = <<names[1]>> /\ At(RefPort[2]) = <<names[2]>> /\ At(RefPort[3]) = <<>>
    BY <1>4, <1>5, <1>9 DEF At
  <2>2. names = <<names[1], names[2]>>
    BY <1>9
  <2> QED
    BY <1>6, <2>1, <2>2
<1>10. CASE Len(names) = 3
  <2>1. /\ At(RefPort[1]) = <<names[1]>> /\ At(RefPort[2]) = <<names[2]>>
        /\ At(RefPort[3]) = <<names[3]>>
    BY <1>4, <1>10 DEF At
  <2>2. names = <<names[1], names[2], names[3]>>
    BY <1>10
  <2> QED
    BY <1>6, <2>1, <2>2
<1>11. Len(names) \in {0, 1, 2, 3}
  <2> DEFINE L == Len(names)
  <2>1. L \in Nat /\ L <= 3
    BY <1>2
  <2> HIDE DEF L
  <2>2. L \in {0, 1, 2, 3}
    BY <2>1
  <2> QED
    BY <2>2 DEF L
<1> QED
  BY <1>7, <1>8, <1>9, <1>10, <1>11

\* The first k names of a list.
Front(names, k) == [i \in 1 .. k |-> names[i]]

\* What is in front grows name by name.
LEMMA FrontGrows ==
    ASSUME NEW S, NEW names \in Seq(S), NEW k \in 1 .. Len(names)
    PROVE  /\ Front(names, k) = Front(names, k - 1) \o <<names[k]>>
           /\ Front(names, 1) = <<names[1]>> /\ Front(names, Len(names)) = names
           /\ Front(names, k) \in Seq(S) /\ Len(Front(names, k)) = k
<1> DEFINE L == Len(names)
           f(j) == Front(names, j)
<1>1. L \in Nat /\ k \in 1 .. L /\ names = [i \in 1 .. L |-> names[i]] /\ \A i \in 1 .. L : names[i] \in S
  BY LenProperties, ElementOfSeq
<1> HIDE DEF L
<1>2. \A j \in 0 .. L : f(j) \in Seq(S) /\ Len(f(j)) = j /\ \A i \in 1 .. j : f(j)[i] = names[i]
  <2> SUFFICES ASSUME NEW j \in 0 .. L
               PROVE  f(j) \in Seq(S) /\ Len(f(j)) = j /\ \A i \in 1 .. j : f(j)[i] = names[i]
    OBVIOUS
  <2>1. j \in Nat /\ \A i \in 1 .. j : names[i] \in S
    BY <1>1
  <2>2. f(j) \in [1 .. j -> S]
    BY <2>1 DEF Front
  <2> QED
    BY <2>1, <2>2, SeqDef DEF Front
<1>3. f(L) = names
  BY <1>1 DEF Front
<1>4. f(1) = <<names[1]>>
  <2>1. 1 \in 0 .. L /\ 1 \in 1 .. 1
    BY <1>1
  <2> HIDE DEF f
  <2>2. f(1) \in Seq(S) /\ Len(f(1)) = 1 /\ f(1)[1] = names[1]
    BY <1>2, <2>1
  <2>3. f(1) = <<f(1)[1]>>
    BY ONLY <2>2
  <2> QED
    BY <2>2, <2>3
<1>5. f(k) = f(k - 1) \o <<names[k]>>
  <2> DEFINE j == k - 1
             t == <<names[k]>>
             u == f(j) \o t
  <2>1. j \in 0 .. L /\ k \in 0 .. L /\ k = j + 1 /\ names[k] \in S /\ j \in Nat
    BY <1>1
  <2>2. t \in Seq(S) /\ Len(t) = 1 /\ t[1] = names[k]
    BY <2>1
  <2> HIDE DEF j, t, f
  <2>3. f(j) \in Seq(S) /\ Len(f(j)) = j /\ \A i \in 1 .. j : f(j)[i] = names[i]
    BY <1>2, <2>1
  <2>4. /\ u \in Seq(S) /\ Len(u) = Len(f(j)) + Len(t)
        /\ \A i \in 1 .. Len(f(j)) : u[i] = f(j)[i]
        /\ \A i \in Len(f(j)) + 1 .. Len(f(j)) + Len(t) : u[i] = t[i - Len(f(j))]
    <3>1. f(j) \in Seq(S) /\ t \in Seq(S)
      BY <2>2, <2>3
    <3> QED
      BY ONLY <3>1, ConcatProperties
  <2> HIDE DEF u
  <2>5. Len(u) = k /\ \A i \in 1 .. k : u[i] = names[i]
    <3>1. Len(u) = j + 1
      BY <2>2, <2>3, <2>4
    <3>2. \A i \in 1 .. j : u[i] = names[i]
      BY <2>3, <2>4
    <3>3. u[j + 1] = names[k]
      <4>1. j + 1 \in j + 1 .. j + 1 /\ (j + 1) - j = 1
        BY <2>1
      <4> QED
        BY <2>2, <2>3, <2>4, <4>1
    <3>4. \A i \in 1 .. j + 1 : i \in 1 .. j \/ i = j + 1
      BY <2>1
    <3> QED
      BY <2>1, <3>1, <3>2, <3>3, <3>4
  <2>6. f(k) \in Seq(S) /\ Len(f(k)) = k /\ \A i \in 1 .. k : f(k)[i] = names[i]
    BY <1>2, <2>1
  <2>7. \A i \in 1 .. Len(u) : u[i] = f(k)[i]
    BY <2>5, <2>6
  <2>8. u = f(k)
    BY <2>4, <2>5, <2>6, <2>7, SeqEqual
  <2> QED
    BY <2>8 DEF u, j, t
<1>6. k \in 0 .. L
  BY <1>1
<1> QED
  BY <1>2, <1>3, <1>4, <1>5, <1>6 DEF L

\* The start image, if there is one.
StartPicture(start) == IF start = <<>> THEN <<>> ELSE <<start[1]>>

\* A multishot graph shows the start image and, through the chain of batches,
\* the references in their order.
LEMMA MultishotPictures ==
    ASSUME NEW r, r.workflow = Multishot, NEW G, NEW cached, NEW start, NEW S,
           NEW names \in Seq(S), Len(names) <= 9, MultishotIn(G, cached, start, names)
    PROVE  Pictures(G, r) = StartPicture(start) \o names
<1> DEFINE L == Len(names)
           f == [n \in PictureNodes(G) |->
                    IF G[n].class = "LoadImage" THEN <<G[n].image>>
                    ELSE Front(names, CHOOSE k \in 2 .. L : BatchNode[k] = n)]
<1>1. /\ L \in Nat /\ L <= 9
      /\ RefsIn(G, names) /\ BatchesIn(G, names)
      /\ SamplerLinks(G["SAMPLER"].in, cached, start, names)
      /\ start # <<>> => LoadsFile(G, "start", start[1]) /\ "start" \in DOMAIN G
  BY NonEmpty DEF MultishotIn
<1> HIDE DEF L
<1>2. ASSUME NEW n \in DOMAIN G, G[n].class = "ImageBatch"
      PROVE  n \in BatchNodesOf(names)
  <2>1. \A m \in FixedNodes \cup LastNodes : G[m].class # "ImageBatch"
    BY DEF MultishotIn, FixedNodes, LastNodes, Node
  <2>2. cached => G["CACHE"].class # "ImageBatch"
    BY DEF MultishotIn, Node
  <2>3. start # <<>> => G["start"].class # "ImageBatch"
    BY <1>1 DEF LoadsFile
  <2>4. \A m \in RefNodesOf(names) : G[m].class # "ImageBatch"
    BY <1>1 DEF RefsIn, LoadsFile, RefNodesOf
  <2>5. \/ n \in FixedNodes \cup LastNodes \/ (cached /\ n = "CACHE")
        \/ (start # <<>> /\ n = "start") \/ n \in RefNodesOf(names) \/ n \in BatchNodesOf(names)
    BY DEF MultishotIn
  <2> QED
    BY <1>2, <2>1, <2>2, <2>3, <2>4, <2>5
<1>3. ASSUME NEW k \in 1 .. L
      PROVE  /\ RefNode[k] \in PictureNodes(G) /\ LoadsFile(G, RefNode[k], names[k])
             /\ f[RefNode[k]] = <<names[k]>>
  <2>1. LoadsFile(G, RefNode[k], names[k]) /\ RefNode[k] \in DOMAIN G
    BY <1>1 DEF RefsIn, RefNodesOf, L
  <2>2. RefNode[k] \in PictureNodes(G)
    BY <2>1 DEF LoadsFile, PictureNodes
  <2> QED
    BY <2>1, <2>2 DEF LoadsFile
<1>4. ASSUME NEW k \in 2 .. L
      PROVE  /\ IsBatch(G, BatchNode[k], k) /\ BatchNode[k] \in PictureNodes(G)
             /\ f[BatchNode[k]] = Front(names, k)
  <2>1. IsBatch(G, BatchNode[k], k)
    BY <1>1 DEF BatchesIn, L
  <2>2. BatchNode[k] \in PictureNodes(G) /\ G[BatchNode[k]].class = "ImageBatch"
    BY <2>1 DEF IsBatch, PictureNodes
  <2>3. (CHOOSE l \in 2 .. L : BatchNode[l] = BatchNode[k]) = k
    <3>1. \A l \in 2 .. L : l \in 2 .. 9
      BY <1>1
    <3> QED
      BY <3>1, BatchNodes
  <2> QED
    BY <2>1, <2>2, <2>3
<1>5. \A k \in 2 .. L : /\ k \in 1 .. L /\ 1 \in 1 .. L /\ k \in 2 .. 9 /\ k \in 1 .. 9 /\ 1 \in 1 .. 9
                        /\ (k # 2 => k - 1 \in 2 .. L /\ k - 1 \in 2 .. 9)
                        /\ (k = 2 => k - 1 = 1)
  BY <1>1
<1>6. ASSUME NEW n \in PictureNodes(G), G[n].class # "LoadImage"
      PROVE  /\ f[n] = f[G[n].in.image1[1]] \o f[G[n].in.image2[1]]
             /\ \A p \in {"image1", "image2"} : /\ G[n].in[p][1] \in PictureNodes(G)
                                                /\ Rank(G[n].in[p][1]) < Rank(n)
  <2>1. PICK k \in 2 .. L : n = BatchNode[k]
    BY <1>2, <1>6 DEF PictureNodes, BatchNodesOf, L
  <2> DEFINE before == IF k = 2 THEN RefNode[1] ELSE BatchNode[k - 1]
  <2>2. /\ G[n].in["image1"] = <<before, 0>> /\ G[n].in["image2"] = <<RefNode[k], 0>>
        /\ f[n] = Front(names, k) /\ f[RefNode[k]] = <<names[k]>>
        /\ RefNode[k] \in PictureNodes(G) /\ Rank(RefNode[k]) = 0 /\ Rank(n) = k - 1
    BY <1>3, <1>4, <1>5, <2>1, RefRank, BatchNodes DEF IsBatch
  <2> HIDE DEF f
  <2>3. f[before] = Front(names, k - 1) /\ before \in PictureNodes(G) /\ Rank(before) < k - 1
    <3>1. CASE k = 2
      <4>1. k - 1 = 1 /\ 1 \in 1 .. L /\ 0 < 1
        BY <1>5, <3>1
      <4>2. /\ f[RefNode[1]] = <<names[1]>> /\ RefNode[1] \in PictureNodes(G)
            /\ Rank(RefNode[1]) = 0
        BY <1>3, <1>5, <3>1, RefRank
      <4>3. Front(names, 1) = <<names[1]>>
        BY <4>1, FrontGrows DEF L
      <4> QED
        BY <3>1, <4>1, <4>2, <4>3
    <3>2. CASE k # 2
      <4> DEFINE j == k - 1
      <4>1. j \in 2 .. L /\ j \in 2 .. 9 /\ j - 1 < j
        BY <1>5, <3>2
      <4> HIDE DEF j
      <4>2. /\ f[BatchNode[j]] = Front(names, j) /\ BatchNode[j] \in PictureNodes(G)
            /\ Rank(BatchNode[j]) = j - 1
        BY <1>4, <4>1, BatchNodes
      <4>3. before = BatchNode[j]
        BY <3>2 DEF j
      <4> HIDE DEF before
      <4> QED
        BY <4>1, <4>2, <4>3 DEF j
    <3> QED
      BY <3>1, <3>2
  <2>4. Front(names, k) = Front(names, k - 1) \o <<names[k]>>
    BY <1>5, FrontGrows DEF L
  <2>5. 0 < k - 1
    BY <1>5
  <2> HIDE DEF before
  <2>6. f[n] = f[G[n].in.image1[1]] \o f[G[n].in.image2[1]]
    <3>1. G[n].in.image1[1] = before /\ G[n].in.image2[1] = RefNode[k]
      BY <2>2
    <3> QED
      BY <2>2, <2>3, <2>4, <3>1, Zenon
  <2>7. G[n].in["image1"][1] = before /\ G[n].in["image2"][1] = RefNode[k]
    BY <2>2
  <2>8. Rank(before) < Rank(n) /\ Rank(RefNode[k]) < Rank(n)
    BY <2>2, <2>3, <2>5
  <2> QED
    BY <2>2, <2>3, <2>6, <2>7, <2>8
<1>7. Layered(G)
  BY <1>6, AllRanks DEF Layered
<1>8. ShownAt(f, G)
  <2> DEFINE e(n) == IF G[n].class = "LoadImage" THEN <<G[n].image>>
                     ELSE f[G[n].in.image1[1]] \o f[G[n].in.image2[1]]
  <2>1. \A n \in PictureNodes(G) : G[n].class = "LoadImage" => f[n] = <<G[n].image>>
    OBVIOUS
  <2>2. f = [n \in PictureNodes(G) |-> f[n]]
    OBVIOUS
  <2> HIDE DEF f
  <2>3. \A n \in PictureNodes(G) : f[n] = e(n)
    BY <1>6, <2>1
  <2> HIDE DEF e
  <2>4. f = [n \in PictureNodes(G) |-> e(n)]
    BY <2>2, <2>3
  <2> QED
    BY <2>4 DEF ShownAt, e
<1> HIDE DEF f
<1>9. PortPictures(G, "SAMPLER", "start_image") = StartPicture(start)
  <2>1. CASE start = <<>>
    <3>1. "start_image" \notin Ports(G, "SAMPLER")
      BY <1>1, <2>1 DEF SamplerLinks, FixedPorts, Ports
    <3> QED
      BY <2>1, <3>1 DEF PortPictures, StartPicture
  <2>2. CASE start # <<>>
    <3>1. /\ "start_image" \in Ports(G, "SAMPLER")
          /\ G["SAMPLER"].in["start_image"] = <<"start", 0>>
      BY <1>1, <2>2 DEF SamplerLinks, Ports
    <3>2. /\ "start" \in PictureNodes(G) /\ G["start"].class = "LoadImage"
          /\ G["start"].image = start[1]
      BY <1>1, <2>2 DEF LoadsFile, PictureNodes
    <3>3. PicturesAt(G, <<"start", 0>>) = f["start"]
      BY <1>7, <1>8, <3>2, PicturesAre
    <3>4. f["start"] = <<start[1]>>
      BY <3>2 DEF f
    <3> QED
      BY <2>2, <3>1, <3>3, <3>4 DEF PortPictures, StartPicture
  <2> QED
    BY <2>1, <2>2
<1>10. PortPictures(G, "SAMPLER", "reference_images") = names
  <2>1. CASE names = <<>>
    <3>1. "reference_images" \notin Ports(G, "SAMPLER")
      BY <1>1, <2>1 DEF SamplerLinks, FixedPorts, Ports
    <3> QED
      BY <2>1, <3>1 DEF PortPictures
  <2>2. CASE names # <<>>
    <3> DEFINE last == IF L = 1 THEN RefNode[1] ELSE BatchNode[L]
    <3>1. /\ "reference_images" \in Ports(G, "SAMPLER")
          /\ G["SAMPLER"].in["reference_images"] = <<last, 0>>
      BY <1>1, <2>2 DEF SamplerLinks, Ports, L
    <3>2. L >= 1
      BY <2>2, NonEmpty DEF L
    <3>3. L \in 1 .. L /\ 1 \in 1 .. L /\ (L # 1 => L \in 2 .. L)
      BY <1>1, <3>2
    <3>4. last \in PictureNodes(G) /\ f[last] = Front(names, L)
      <4>1. Front(names, 1) = <<names[1]>>
        BY <3>3, FrontGrows DEF L
      <4> QED
        BY <1>3, <1>4, <3>3, <4>1
    <3>5. Front(names, L) = names
      BY <3>3, FrontGrows DEF L
    <3> HIDE DEF last
    <3>6. PicturesAt(G, <<last, 0>>) = f[last]
      BY <1>7, <1>8, <3>4, PicturesAre
    <3> QED
      BY <3>1, <3>4, <3>5, <3>6 DEF PortPictures
  <2> QED
    BY <2>1, <2>2
<1> QED
  BY <1>9, <1>10 DEF Pictures, FL2VA, R2V, Multishot
==============================================================================
