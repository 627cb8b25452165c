SPECIFICATION PicturesSpec
CONSTANTS
  MaxBytes = 1
  MaxPixels = 60000
  MaxEdge = 500
  MaxWorkPixels = 40000
  None = None
  Samples <- SampleFiles
  Revisions <- SomeRevisions
  Uploads <- SomeUploads
  MaxUpload = 3
  UploadPixels = 60
  UploadEdge = 12
  Unset = Unset
INVARIANTS
  PhotosUpright
  StoredPhotosComply
  PageSizesAreTaken
CHECK_DEADLOCK FALSE
