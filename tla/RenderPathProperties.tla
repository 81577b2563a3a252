------------------------ MODULE RenderPathProperties -------------------------
(***************************************************************************)
(* What a client may expect of the pictures it gave, and ComfyUI of the    *)
(* prompts it is sent.                                                     *)
(***************************************************************************)
EXTENDS RenderPath, WorkflowGraph

-----------------------------------------------------------------------------
(* Whose pictures are rendered.                                            *)

Uploads(j) ==
    IF request[j].route = "multipart"
    THEN {request[j].first, request[j].last} \ {NoName} ELSE {}

\* Nobody else uploads a file under a name the client of job j uses.
OwnNames(j) == \A i \in Jobs \ {j} : Uploads(i) \cap Uploads(j) = {}

\* The files ComfyUI opened for job j are those its own client uploaded.
OwnFiles(j) ==
    \A k \in Tries : \A file \in rendered[<<j, k>>] : file[2] = j

\* A client whose file names are its own gets a video of its own pictures,
\* although no directory on the way is per job: not of files that lay there
\* before under the same name, nor after a retry, a lost answer or a second
\* render on the same agent.
OwnNamesOwnFrames ==
    \A j \in Jobs : request[j].route = "multipart" /\ OwnNames(j) => OwnFiles(j)

\* docs/ARCHITECTURE.md: "storage/artifacts/<job_id>/{input,output} holds
\* per-job files": what other clients call their files is no matter.
OwnFrames == \A j \in Jobs : request[j].route = "multipart" => OwnFiles(j)

\* A prompt in ComfyUI's queue names files ComfyUI has: each was uploaded
\* before the graph that names it was submitted.
PromptImagesExist ==
    \A id \in Renders :
        prompt[id] # NoPrompt =>
            \A n \in Loaded(request[id[1]], prompt[id][1]) : comfy[n] # NoFile

-----------------------------------------------------------------------------
(* The prompts.                                                            *)

\* What the client asked to see, in its order.
Asked(r) ==
    CASE r.workflow = FL2VA -> <<r.first, IF r.last = NoName THEN r.first ELSE r.last>>
      [] r.workflow = R2V -> FirstN(r.refs, 3)
      [] r.workflow = Multishot -> Option(r.start) \o FirstN(r.refs, 9)

\* Every file it names is there when the job is created.
AllThere(r) ==
    r.route = "multipart" \/ \A k \in 1 .. Len(FilesOf(r)) : FilesOf(r)[k][2] \in Stocked

Ports(G, n) == DOMAIN G[n].in

\* The nodes that load a picture or put pictures one behind the other.
PictureNodes(G) == {n \in DOMAIN G : G[n].class \in {"LoadImage", "ImageBatch"}}

\* The pictures that reach a link, in the order of the batches on the way.
PicturesAt(G, link) ==
    LET at[n \in PictureNodes(G)] ==
            IF G[n].class = "LoadImage" THEN <<G[n].image>>
            ELSE at[G[n].in.image1[1]] \o at[G[n].in.image2[1]]
    IN  at[link[1]]

PortPictures(G, n, p) ==
    IF p \in Ports(G, n) THEN PicturesAt(G, G[n].in[p]) ELSE <<>>

\* The pictures the sampling node of a graph is given, port by port.
Pictures(G, r) ==
    CASE r.workflow = FL2VA ->
            PortPictures(G, "CORE", "first_frame") \o PortPictures(G, "CORE", "last_frame")
      [] r.workflow = R2V ->
            PortPictures(G, "CORE", "ref_image_0") \o PortPictures(G, "CORE", "ref_image_1")
            \o PortPictures(G, "CORE", "ref_image_2")
      [] r.workflow = Multishot ->
            PortPictures(G, "SAMPLER", "start_image")
            \o PortPictures(G, "SAMPLER", "reference_images")

\* A prompt that enters ComfyUI's queue.
Queued(id) == prompt[id] = NoPrompt /\ prompt'[id] # NoPrompt

GraphOf(id) == Graph(request[id[1]], prompt'[id][1])

\* The k-th picture a client asks for is the k-th the model is shown (the text
\* of its prompt speaks of <Picture k>), after staging on the controller,
\* staging on the agent, the upload to ComfyUI and the adapter's wiring.
PicturesInOrder ==
    [][\A id \in Renders :
         Queued(id) /\ AllThere(request[id[1]])
            => Pictures(GraphOf(id), request[id[1]]) = Asked(request[id[1]])]_vars

\* The classes' outputs, as the workflow templates declare them; those of
\* ImageBatch and of the two UC_ nodes as the adapters use them.
Outputs ==
    [UNETLoader |-> <<"MODEL">>, CLIPLoader |-> <<"CLIP">>, VAELoader |-> <<"VAE">>,
     LoadImage |-> <<"IMAGE", "MASK">>, ImageBatch |-> <<"IMAGE">>,
     RandomNoise |-> <<"NOISE">>, BasicGuider |-> <<"GUIDER">>,
     BasicScheduler |-> <<"SIGMAS">>, KSamplerSelect |-> <<"SAMPLER">>,
     SamplerCustomAdvanced |-> <<"LATENT", "LATENT">>,
     MiniMaxH3ImageToVideo |-> <<"CONDITIONING", "LATENT">>,
     MiniMaxH3ReferenceToVideo |-> <<"CONDITIONING", "LATENT">>,
     LoraLoaderModelOnly |-> <<"MODEL">>, UC_MiniMaxH3PDDAcc |-> <<"MODEL", "SIGMAS">>,
     UC_MiniMaxH3Cache |-> <<"MODEL">>,
     VAEDecode |-> <<"IMAGE">>, VAEDecodeAudio |-> <<"AUDIO">>,
     CreateVideo |-> <<"VIDEO">>, SaveVideo |-> <<"VIDEO">>, SaveAudio |-> <<"AUDIO">>,
     H3StudioControls |-> <<"INT", "INT", "INT", "INT", "STRING", "STRING">>,
     H3ModelLoaderAny |-> <<"MODEL">>, H3ClipLoaderAny |-> <<"CLIP">>,
     H3LoraStack |-> <<"MODEL">>,
     H3MultishotSampler |-> <<"IMAGE", "AUDIO", "INT", "IMAGE", "AUDIO">>]

PortType ==
    [model |-> "MODEL", on_false |-> "MODEL", on_true |-> "MODEL", clip |-> "CLIP",
     vae |-> "VAE", audio_vae |-> "VAE", video_vae |-> "VAE",
     first_frame |-> "IMAGE", last_frame |-> "IMAGE", images |-> "IMAGE",
     ref_image_0 |-> "IMAGE", ref_image_1 |-> "IMAGE", ref_image_2 |-> "IMAGE",
     image1 |-> "IMAGE", image2 |-> "IMAGE", start_image |-> "IMAGE",
     reference_images |-> "IMAGE", conditioning |-> "CONDITIONING",
     noise |-> "NOISE", guider |-> "GUIDER", sampler |-> "SAMPLER",
     sigmas |-> "SIGMAS", latent_image |-> "LATENT", samples |-> "LATENT",
     audio |-> "AUDIO", video |-> "VIDEO", steps |-> "INT", width |-> "INT",
     height |-> "INT", frames_per_shot |-> "INT"]

\* A switch hands on what it is given, here models or numbers.
OutputType(G, link) ==
    LET n == G[link[1]] IN
    IF n.class # "ComfySwitchNode" THEN Outputs[n.class][link[2] + 1]
    ELSE IF n.in = <<>> THEN "INT" ELSE "MODEL"

Sources(G, n) == {G[n].in[p][1] : p \in Ports(G, n)}

\* An order in which ComfyUI can execute the nodes of any of the graphs: each
\* has a rank above those of the nodes it is linked to.
Rank(n) ==
    CASE n \in {"LORA", "PDD", "CORE", "batch2"} -> 1
      [] n \in {"CACHE", "SW_MODEL", "batch3"} -> 2
      [] n \in {"GUIDER", "SCHED", "batch4"} -> 3
      [] n = "batch5" -> 4
      [] n = "batch6" -> 5
      [] n = "batch7" -> 6
      [] n = "batch8" -> 7
      [] n = "batch9" -> 8
      [] n = "SAMPLER" -> 9
      [] n \in {"VDEC", "ADEC"} -> 10
      [] n = "CREATE" -> 11
      [] n \in {"SAVE", "SAVE_A"} -> 12
      [] OTHER -> 0

\* Port p of node n is fed by a node that is there and executed before, with an
\* output of the port's type.
Fed(G, n, p) ==
    LET link == G[n].in[p] IN
    /\ link[1] \in DOMAIN G
    /\ Rank(link[1]) < Rank(n)
    /\ OutputType(G, link) = PortType[p]

Outlets == {"SAVE", "SAVE_A"}

\* The files a graph opens.
Opened(G) == {G[n].image : n \in {n \in DOMAIN G : G[n].class = "LoadImage"}}

\* A graph is executable whatever the options: every link leads to a node that is
\* there and to an output of the right type, nothing waits for itself, no node is
\* built in vain, and the files it opens are the ones uploaded for it.
Wired(G, files) ==
    /\ \A n \in DOMAIN G : \A p \in Ports(G, n) : Fed(G, n, p)
    /\ \A n \in DOMAIN G \ Outlets : \E m \in DOMAIN G : n \in Sources(G, m)
    /\ Opened(G) = files

\* Whoever builds it, the graph ComfyUI is sent is one it can execute.  (TLC
\* evaluates the graph once when it is bound by a quantifier.)
PromptIsWired ==
    [][\A id \in Renders :
         Queued(id) => \A G \in {GraphOf(id)} :
             Wired(G, Loaded(request[id[1]], prompt'[id][1]))]_vars

\* The sampler's guidance and its noise schedule come from one and the same
\* model; the turbo LoRA is on the way exactly if it was asked for and PDD was
\* not (workflow_r2v.py: they must not be stacked), and the sound is decoded with
\* another VAE than the pictures.
Consistent(G, r) ==
    LET schedule == G["SAMPLER"].in.sigmas[1] IN
    /\ IF r.workflow = R2V /\ r.pdd
       THEN G["GUIDER"].in.model = <<schedule, 0>>
       ELSE G["GUIDER"].in.model = G[schedule].in.model
    /\ "LORA" \in DOMAIN G <=> r.workflow = R2V /\ r.turbo /\ ~r.pdd
    /\ G["VDEC"].in.vae = G["CORE"].in.vae
    /\ G["ADEC"].in.vae # G["VDEC"].in.vae

OneModel ==
    [][\A id \in Renders :
         Queued(id) /\ request[id[1]].workflow # Multishot =>
             \A G \in {GraphOf(id)} : Consistent(G, request[id[1]])]_vars

-----------------------------------------------------------------------------
(* Lengths and sizes.                                                      *)

\* A video is as long as asked for or less than 17 frames longer (half a frame
\* less at most, from rounding), and on the grid 17k + 5 of the model: ComfyUI's
\* own expression would not change it.
OnGrid(half) ==
    LET n == SnapToGrid(half) IN
    /\ n % 17 = 5
    /\ half <= 2 * n + 1
    /\ 2 * n < Larger(half, 10) + 35

\* A shot has 5 to 481 frames: the multiple of 17 that is at most what is asked
\* for and less than 17 below it, unless that leaves the range.
ShotFits(asked) ==
    LET n == ShotLength(asked) IN
    /\ n \in 5 .. 481
    /\ asked \in 17 .. 492 => n % 17 = 0 /\ n \in asked - 16 .. asked

LengthFits(r) ==
    IF r.workflow = Multishot THEN ShotFits(Or(r.shot, 243)) ELSE OnGrid(r.half)

\* The canvas, as the controller or the agent ("by") computes it, is on the grid
\* of 32, within the model's limits and less than 32 smaller than asked for.
Fits(r, by) ==
    LET limit == IF r.workflow = Multishot THEN <<4096, 4096>> ELSE <<1920, 1088>> IN
    /\ Width(r, by) % 32 = 0 /\ Height(r, by) % 32 = 0
    /\ Width(r, by) \in 32 .. limit[1] /\ Height(r, by) \in 32 .. limit[2]
    /\ r.width >= 32 => Width(r, by) \in r.width - 31 .. r.width
    /\ r.height >= 32 => Height(r, by) \in r.height - 31 .. r.height

\* What the prompts in the queue render has a canvas within the limits and as
\* asked for up to rounding, whichever side built the graph; an FL2VA or R2V
\* video is on the model's grid 17k + 5; a shot of multishot is a multiple of 17
\* or at an end of its range, and so on that grid at these ends only, although
\* README.md gives frames_per_shot as a number of the grid.
PromptFits ==
    \A id \in Renders :
        prompt[id] # NoPrompt =>
            LET r == request[id[1]] IN
            Fits(r, Builder(r, prompt[id][1])) /\ LengthFits(r)
=============================================================================
