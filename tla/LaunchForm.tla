----------------------------- MODULE LaunchForm -----------------------------
(***************************************************************************)
(* The page that launches a token (web/app/(app)/create/page.tsx, with     *)
(* lib/zec/image.ts, lib/zec/tax.ts and components/zec/ZecTaxEditor.tsx)   *)
(* and what the server makes of it (`POST images` and `POST tokens` of     *)
(* zec/server/app.ts, `create` of zec/engine/engine.ts).                   *)
(*                                                                         *)
(* The picked image is fitted and uploaded while the form can be edited;   *)
(* replies may be lost.  A rate is typed in percent, here in thousandths   *)
(* of a percent, and sent in basis points.  A file stands for its own      *)
(* bytes and for the address of the image made from them.  Left out: the   *)
(* name, the ticker, the first buy and the balance.                        *)
(***************************************************************************)
EXTENDS Integers, Sequences, Functions

CONSTANTS
  Files,          \* files a person may pick
  Kind,           \* of each file: "image"; "other", whose bytes are not what its
                  \* type says; "huge", which the page cannot bring down
  NoFile,
  NoRequest,      \* no launch is on its way
  TypedRates,     \* rates typed, in thousandths of a percent
  TypedShares,    \* shares typed, in percent
  MaxEdits, MaxLaunches   \* bounds

ASSUME FormAssumption == TypedRates \subseteq Int /\ TypedShares \subseteq Int

VARIABLES
  draft,          \* page: the tax in the editor
  image, preview, \* page: the uploaded image, the picture shown
  upload,         \* page: the file on its way and how far it is
  request,        \* the launch on its way; the button is off
  hosted,         \* server: the images it holds
  tokens,         \* server: launches, and what the form showed of each
  rejected,       \* launches that the server refused
  edits

formVars == <<draft, image, preview, upload, request, hosted, tokens, rejected,
              edits>>

-----------------------------------------------------------------------------
\* The tax editor.  Of the four shares, two: they are treated alike.

Shares == {"creator", "dividends"}
TaxSides == {"buy", "sell"}
\* The most that a side may be taxed: for the page, and for the server.
MaxTax == 10 * 1000
MaxTaxBps == 1000

Split(creator, dividends) ==
  [s \in Shares |-> IF s = "creator" THEN creator ELSE dividends]
NoTax == [buy |-> 0, sell |-> 0, split |-> Split(100, 0)]
Presets == {[buy |-> 1000, sell |-> 1000, split |-> Split(100, 0)],
            [buy |-> 3000, sell |-> 3000, split |-> Split(0, 100)]}

SplitTotal(d) == SumFunctionOnSet(d.split, Shares)
IsTaxed(d) == d.buy > 0 \/ d.sell > 0

\* Math.round of a quotient.
Rounded(n, by) == (n + by \div 2) \div by
Clamp(n, lo, hi) == IF n < lo THEN lo ELSE IF n > hi THEN hi ELSE n

\* Mutant: what is typed is kept as it is.
MutTenth(rate) == rate

\* Rates are kept to a tenth of a percent.
Tenth(rate) == 100 * Rounded(rate, 100)

WithRate(d, side, typed) == [d EXCEPT ![side] = Tenth(Clamp(typed, 0, MaxTax))]

\* A share stops where the others leave off.
WithShare(d, s, typed) ==
  [d EXCEPT !.split[s] = Clamp(typed, 0, 100 - (SplitTotal(d) - d.split[s]))]

Custom(d) ==
  IF IsTaxed(d) THEN d ELSE [buy |-> 3000, sell |-> 3000, split |-> d.split]

\* What is sent, in basis points; an untaxed draft sends no tax.
BasisPoints(d) ==
  [buy |-> Rounded(d.buy, 10), sell |-> Rounded(d.sell, 10),
   split |-> [s \in Shares |-> 100 * d.split[s]]]
ToWire(d) == IF IsTaxed(d) THEN BasisPoints(d) ELSE BasisPoints(NoTax)

Edit(d) ==
  /\ edits < MaxEdits
  /\ draft' = d /\ draft' # draft
  /\ edits' = edits + 1
  /\ UNCHANGED <<image, preview, upload, request, hosted, tokens, rejected>>

-----------------------------------------------------------------------------
\* The image

NoUpload == [file |-> NoFile, at |-> "none"]

\* pick, or a file picker that is closed without a file.
Pick(f) ==
  /\ upload = NoUpload
  /\ edits < MaxEdits
  /\ edits' = edits + 1
  /\ image' = NoFile /\ preview' = NoFile
  /\ upload' = IF f = NoFile THEN NoUpload ELSE [file |-> f, at |-> "fitting"]
  /\ UNCHANGED <<draft, request, hosted, tokens, rejected>>

\* fitImage: an image is shown and sent; anything else ends the upload.
Fit ==
  /\ upload.at = "fitting"
  /\ IF Kind[upload.file] = "huge"
     THEN upload' = NoUpload /\ UNCHANGED preview
     ELSE preview' = upload.file /\ upload' = [upload EXCEPT !.at = "sent"]
  /\ UNCHANGED <<draft, image, request, hosted, tokens, rejected, edits>>

\* POST images: the server looks at the bytes, not at the name of the file.
StoreImage ==
  /\ upload.at = "sent"
  /\ IF Kind[upload.file] = "image"
     THEN /\ hosted' = hosted \cup {upload.file}
          /\ upload' = [upload EXCEPT !.at = "kept"]
     ELSE upload' = [upload EXCEPT !.at = "lost"] /\ UNCHANGED hosted
  /\ UNCHANGED <<draft, image, preview, request, tokens, rejected, edits>>

Uploaded ==
  /\ upload.at = "kept"
  /\ image' = upload.file
  /\ upload' = NoUpload
  /\ UNCHANGED <<draft, preview, request, hosted, tokens, rejected, edits>>

\* The upload was refused, or it or its reply got lost.
UploadFails ==
  /\ upload.at \in {"sent", "kept", "lost"}
  /\ preview' = NoFile
  /\ upload' = NoUpload
  /\ UNCHANGED <<draft, image, request, hosted, tokens, rejected, edits>>

-----------------------------------------------------------------------------
\* The launch

\* Mutant: a launch does not wait for the upload.
MutReady == ~IsTaxed(draft) \/ SplitTotal(draft) = 100

\* The button is on: nothing is being uploaded, and a tax is split in full.
Ready == /\ upload = NoUpload
         /\ ~IsTaxed(draft) \/ SplitTotal(draft) = 100

\* The picture on the page: the preview, else the image of the address.
Picture == IF preview # NoFile THEN preview ELSE image

Launch ==
  /\ Ready /\ request = NoRequest
  /\ Len(tokens) + Len(rejected) < MaxLaunches
  /\ request' = [image |-> image, tax |-> ToWire(draft),
                 picture |-> Picture, draft |-> draft]
  /\ UNCHANGED <<draft, image, preview, upload, hosted, tokens, rejected,
                 edits>>

\* validateTax, without what the fields' types say.
ValidTax(t) ==
  /\ \A s \in TaxSides : t[s] \in 0 .. MaxTaxBps
  /\ \/ t.buy = 0 /\ t.sell = 0
     \/ SplitTotal(t) = 10000

FreshForm ==
  draft' = NoTax /\ image' = NoFile /\ preview' = NoFile /\ upload' = NoUpload

\* POST tokens.  The reply leads away from the form, an error back to it; a
\* launch that succeeded may look like an error, if the reply is lost.
PostTokens ==
  /\ request # NoRequest
  /\ request' = NoRequest
  /\ IF /\ request.image = NoFile \/ request.image \in hosted
        /\ ValidTax(request.tax)
     THEN /\ tokens' = Append(tokens, request)
          /\ FreshForm \/ UNCHANGED <<draft, image, preview, upload>>
          /\ UNCHANGED rejected
     ELSE /\ rejected' = Append(rejected, request)
          /\ UNCHANGED <<tokens, draft, image, preview, upload>>
  /\ UNCHANGED <<hosted, edits>>

FormInit ==
  /\ draft = NoTax /\ image = NoFile /\ preview = NoFile /\ upload = NoUpload
  /\ request = NoRequest
  /\ hosted = {} /\ tokens = <<>> /\ rejected = <<>>
  /\ edits = 0

FormNext ==
  \/ \E side \in TaxSides, r \in TypedRates : Edit(WithRate(draft, side, r))
  \/ \E s \in Shares, n \in TypedShares : Edit(WithShare(draft, s, n))
  \/ \E d \in Presets \cup {NoTax, Custom(draft)} : Edit(d)
  \/ \E f \in Files \cup {NoFile} : Pick(f)
  \/ Fit \/ StoreImage \/ Uploaded \/ UploadFails
  \/ Launch \/ PostTokens

FormSpec == FormInit /\ [][FormNext]_formVars

-----------------------------------------------------------------------------
\* Properties

\* A token is launched with the picture and the tax that the form showed when
\* the button was pressed, to the tenth of a percent, and taxed exactly when
\* the form said so; and what the button allows, the server accepts: however
\* uploads fail, picks follow one another and drafts change in between.
LaunchedAsShown ==
  /\ \A i \in DOMAIN tokens :
       LET t == tokens[i]
       IN  /\ t.image = t.picture
           /\ \A s \in TaxSides : 10 * t.tax[s] = t.draft[s]
           /\ IsTaxed(t.draft) => t.tax.split = [s \in Shares |-> 100 * t.draft.split[s]]
  /\ rejected = <<>>
=============================================================================
