CONSTANTS
  Photo = "BasicPhoto"
  Texts <- TwoTexts
  Admins = {a1, a2}
  MaxAdds = 2
SPECIFICATION FairSpec
INVARIANTS PipelineListsAll HearsCamera OncePerFrame
PROPERTY PhotoTaken
CHECK_DEADLOCK FALSE
CONSTRAINT Apart
