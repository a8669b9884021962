------------------------------ MODULE ModelStreams ------------------------------
(* The two model clients that answer piece by piece: speech synthesis and the   *)
(* language model.                                                              *)
EXTENDS Integers, Sequences, FiniteSets, SequencesExt

-----------------------------------------------------------------------------
(* Text to speech of the server (server/pipeline/tts.py): Edge-TTS sends a      *)
(* stream of MP3 chunks, which are decoded whole (synthesize) or in blocks      *)
(* (synthesize_stream).  A chunk is its number; a text is counts of its letters.*)

CONSTANTS FlushEvery, FlushBytes,  \* a block: 10 chunks and more than 4096 bytes
          MaxChunks,               \* bound: chunks of one stream
          SpokenTexts              \* [letters, hindi, markers]

VARIABLES ttsState,   \* "idle", "streaming", "done" or "failed"
          spokenText, ttsVoice,
          arrived,    \* chunks received
          mp3Buffer,  \* chunks not yet decoded
          mp3Bytes,   \* mp3_buffer.tell()
          chunkCount, \* chunk_count
          yielded,      \* chunks whose audio was yielded
          undecoded   \* chunks whose block could not be decoded or was empty

ttsVars == <<ttsState, spokenText, ttsVoice, arrived, mp3Buffer, mp3Bytes, chunkCount, yielded,
             undecoded>>

NoText == [letters |-> 0, hindi |-> 0, markers |-> 0, blank |-> TRUE]

TtsInit ==
    /\ ttsState = "idle"
    /\ spokenText = NoText
    /\ ttsVoice = "none"
    /\ arrived = 0
    /\ mp3Buffer = <<>>
    /\ mp3Bytes = 0
    /\ chunkCount = 0
    /\ yielded = <<>>
    /\ undecoded = {}

\* Devanagari above 30 % of the letters, or two words of Hinglish.
DetectLanguage(text) ==
    IF text.letters > 0 /\ (10 * text.hindi > 3 * text.letters \/ text.markers >= 2)
    THEN "hi" ELSE "en"

GetVoice(language) == IF language = "hi" THEN "voice_hindi" ELSE "voice_english"

Speak(text, language) ==
    /\ spokenText' = text
    /\ ttsVoice' = IF text.blank THEN ""
                   ELSE GetVoice(IF language = "None" THEN DetectLanguage(text) ELSE language)

\* synthesize: all chunks are decoded at once, or the call raises.
Synthesize(text, language, n, decodes) ==
    /\ ttsState = "idle"
    /\ Speak(text, language)
    /\ arrived' = IF text.blank THEN 0 ELSE n
    /\ ttsState' = IF text.blank \/ decodes THEN "done" ELSE "failed"
    /\ yielded' = IF decodes THEN [i \in 1 .. arrived' |-> i] ELSE <<>>
    /\ UNCHANGED <<mp3Buffer, mp3Bytes, chunkCount, undecoded>>

SynthesizeStream(text, language) ==
    /\ ttsState = "idle"
    /\ Speak(text, language)
    /\ ttsState' = IF text.blank THEN "done" ELSE "streaming"
    /\ UNCHANGED <<arrived, mp3Buffer, mp3Bytes, chunkCount, yielded, undecoded>>

\* A block is decoded: its audio is yielded, or it is dropped in silence.
Decode(block, decodes) ==
    IF decodes THEN yielded' = yielded \o block /\ UNCHANGED undecoded
    ELSE undecoded' = undecoded \union {block[i] : i \in DOMAIN block} /\ UNCHANGED yielded

AudioChunk(bytes, decodes) ==
    /\ ttsState = "streaming"
    /\ arrived < MaxChunks
    /\ arrived' = arrived + 1
    /\ IF (chunkCount + 1) % FlushEvery = 0 /\ mp3Bytes + bytes > FlushBytes
       THEN /\ Decode(Append(mp3Buffer, arrived'), decodes)
            /\ mp3Buffer' = <<>>
            /\ mp3Bytes' = 0
            /\ chunkCount' = 0
       ELSE /\ mp3Buffer' = Append(mp3Buffer, arrived')
            /\ mp3Bytes' = mp3Bytes + bytes
            /\ chunkCount' = chunkCount + 1
            /\ UNCHANGED <<yielded, undecoded>>
    /\ UNCHANGED <<ttsState, spokenText, ttsVoice>>

StreamEnds(decodes) ==
    /\ ttsState = "streaming"
    /\ ttsState' = "done"
    /\ Decode(mp3Buffer, decodes)
    /\ UNCHANGED <<spokenText, ttsVoice, arrived, mp3Buffer, mp3Bytes, chunkCount>>

\* The connection to Edge-TTS breaks: the error goes to the caller.
StreamBreaks ==
    /\ ttsState = "streaming"
    /\ ttsState' = "failed"
    /\ UNCHANGED <<spokenText, ttsVoice, arrived, mp3Buffer, mp3Bytes, chunkCount, yielded, undecoded>>

TtsNext ==
    \/ \E t \in SpokenTexts, l \in {"None", "hi", "en"} :
          \/ SynthesizeStream(t, l)
          \/ \E d \in BOOLEAN : Synthesize(t, l, 2, d)
    \/ \E bytes \in 1 .. 2, d \in BOOLEAN : AudioChunk(bytes, d)
    \/ \E d \in BOOLEAN : StreamEnds(d)
    \/ StreamBreaks

TtsSpec == TtsInit /\ [][TtsNext]_ttsVars

-----------------------------------------------------------------------------
Unheard(n) == {i \in 1 .. n : \A k \in DOMAIN yielded : yielded[k] # i}

\* What is heard is what was sent, in order and once: a chunk is missing only if
\* its own block could not be decoded, also when small chunks put a block off,
\* and a stream that ends keeps nothing back.  Nothing is said for a blank text.
SpeechIsInOrder ==
    /\ \A i, k \in DOMAIN yielded : i < k => yielded[i] < yielded[k]
    /\ ttsState = "streaming" =>
          Unheard(arrived) = undecoded \union {mp3Buffer[i] : i \in DOMAIN mp3Buffer}
    /\ ttsState = "done" /\ ~spokenText.blank => Unheard(arrived) = undecoded
    /\ \A i \in undecoded : \A k \in DOMAIN yielded : yielded[k] # i
    /\ ttsState = "done" /\ spokenText.blank => yielded = <<>> /\ ttsVoice = ""

-----------------------------------------------------------------------------
(* The server's client of the language model and of speech to text              *)
(* (server/pipeline/llm.py, stt.py).  A reply is a stream of lines; a line is   *)
(* blank, malformed, an empty piece, a piece of text or the end.                *)

CONSTANTS MaxLines  \* bound: lines of one reply

VARIABLES llmClient,  \* _client exists
          llmState,   \* "idle", "streaming", "done" or "failed"
          llmLines,   \* the lines the model has sent
          llmText,    \* the pieces generate_stream has yielded
          llmReply,   \* what generate() returned: NoReply until it did
          sttLoaded,  \* the Whisper model is loaded
          sttResult   \* the last transcription: [state, parts]

llmVars == <<llmClient, llmState, llmLines, llmText, llmReply, sttLoaded, sttResult>>

NoReply == [text |-> <<>>, tokens |-> -1]
LineKinds == {"blank", "malformed", "empty", "text", "done"}

LlmInit ==
    /\ llmClient = FALSE
    /\ llmState = "idle"
    /\ llmLines = <<>>
    /\ llmText = <<>>
    /\ llmReply = NoReply
    /\ sttLoaded = FALSE
    /\ sttResult = [state |-> "none", parts |-> <<>>]

\* initialize: the client is kept whatever the check of the models says.
InitializeLlm ==
    /\ llmClient' = TRUE
    /\ UNCHANGED <<llmState, llmLines, llmText, llmReply, sttLoaded, sttResult>>

\* close: a reply that is still read fails at its next line.
CloseLlm ==
    /\ llmClient
    /\ llmClient' = FALSE
    /\ UNCHANGED <<llmState, llmLines, llmText, llmReply, sttLoaded, sttResult>>

\* generate, up to the response's status; without a client, or with an error
\* status, it raises.
StartReply(accepted) ==
    /\ llmState # "streaming"
    /\ llmLines' = <<>>
    /\ llmText' = <<>>
    /\ llmReply' = NoReply
    /\ llmState' = IF llmClient /\ accepted THEN "streaming" ELSE "failed"
    /\ UNCHANGED <<llmClient, sttLoaded, sttResult>>

Pieces == [i \in DOMAIN llmText |-> llmText[i]]

\* One line of the stream; the end marker, or the end of the body, completes it.
Line(kind) ==
    /\ llmState = "streaming" /\ llmClient
    /\ Len(llmLines) < MaxLines
    /\ llmLines' = Append(llmLines, kind)
    /\ llmText' = IF kind = "text" THEN Append(llmText, Len(llmLines')) ELSE llmText
    /\ llmState' = IF kind = "done" THEN "done" ELSE "streaming"
    /\ llmReply' = IF kind = "done" THEN [text |-> Pieces, tokens |-> Len(llmText)] ELSE NoReply
    /\ UNCHANGED <<llmClient, sttLoaded, sttResult>>

BodyEnds ==
    /\ llmState = "streaming" /\ llmClient
    /\ llmState' = "done"
    /\ llmReply' = [text |-> Pieces, tokens |-> Len(llmText)]
    /\ UNCHANGED <<llmClient, llmLines, llmText, sttLoaded, sttResult>>

\* The request fails or the client was closed: generate() raises, what it had
\* collected is lost.
ReplyFails ==
    /\ llmState = "streaming"
    /\ llmState' = "failed"
    /\ UNCHANGED <<llmClient, llmLines, llmText, llmReply, sttLoaded, sttResult>>

LoadStt ==
    /\ sttLoaded' = TRUE
    /\ UNCHANGED <<llmClient, llmState, llmLines, llmText, llmReply, sttResult>>

\* transcribe: the segments' texts, stripped and joined by blanks; the whole is
\* stripped again, so leading and trailing empty segments vanish.
Stripped(parts) ==
    LET said == {i \in DOMAIN parts : parts[i] # ""}
        first == CHOOSE i \in said : \A j \in said : i <= j
        last == CHOOSE i \in said : \A j \in said : i >= j
    IN IF said = {} THEN <<>> ELSE SubSeq(parts, first, last)

Transcribe(parts, fails) ==
    /\ sttResult' = IF ~sttLoaded \/ fails THEN [state |-> "raised", parts |-> <<>>]
                    ELSE [state |-> "text", parts |-> Stripped(parts)]
    /\ UNCHANGED <<llmClient, llmState, llmLines, llmText, llmReply, sttLoaded>>

LlmNext ==
    \/ InitializeLlm \/ CloseLlm
    \/ \E accepted \in BOOLEAN : StartReply(accepted)
    \/ \E kind \in LineKinds : Line(kind)
    \/ BodyEnds \/ ReplyFails
    \/ LoadStt
    \/ \E parts \in {<<"">>, <<"", "a", "", "b">>, <<"a", "">>}, fails \in BOOLEAN :
          llmState = "idle" /\ Transcribe(parts, fails)

LlmSpec == LlmInit /\ [][LlmNext]_llmVars

-----------------------------------------------------------------------------
TextLines == {i \in DOMAIN llmLines : llmLines[i] = "text"}

\* A reply is every piece of text the model sent before its end, in order: what
\* is blank or broken between them costs no piece.  A failure is never answered
\* with a part of a reply, and a reply of silence is an empty one.
RepliesAreWhole ==
    /\ llmReply # NoReply => /\ llmState = "done"
                             /\ llmReply.tokens = Cardinality(TextLines)
                             /\ {llmReply.text[i] : i \in DOMAIN llmReply.text} = TextLines
                             /\ \A i \in 1 .. llmReply.tokens - 1 :
                                   llmReply.text[i] < llmReply.text[i + 1]
    /\ llmState = "done" <=> llmReply # NoReply
    /\ sttResult.state = "text" => /\ sttLoaded
                                   /\ sttResult.parts # <<>> =>
                                         Head(sttResult.parts) # "" /\ Last(sttResult.parts) # ""
=============================================================================
